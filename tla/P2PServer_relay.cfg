\* Node A asks for a node that is not there: does the node in between survive?
CONSTANTS
  IdBits = 3
  K = 5
  NoHandler = NoHandler
  None = None
  Node <- TwoNodes
  StaticPeers <- PeersOfB
  Plans <- PlanAbsent
  Listeners = {}
  PooledCnt = 2
  MaxPooledCnt = 2
  HandlerCap = 2
  ExpiryCap <- NoExpiry
  MAX_TTL = 1
  MayStop = {}
  Lossy = FALSE
SPECIFICATION Spec
INVARIANT SendSurvives
\* The nodes run on or stop, and a panic ends one.
CHECK_DEADLOCK FALSE
