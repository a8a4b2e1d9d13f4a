\* Two nodes that call each other, with an application message from one to the
\* other; or both ask each other for a node that is not there.
CONSTANTS
  IdBits = 3
  K = 5
  NoHandler = NoHandler
  None = None
  Node <- TwoNodes
  StaticPeers <- PeersOfB
  Plans <- PlanBackOrLoop
  Listeners <- OnlyB
  PooledCnt = 1
  MaxPooledCnt = 2
  HandlerCap = 2
  ExpiryCap <- NoExpiry
  MAX_TTL = 2
  MayStop = {}
  Lossy = FALSE
SPECIFICATION Spec
INVARIANTS OneHandlerPerPeer ConnectedBothKnow DeliveredWasSent
PROPERTIES StateAdvances RoutesRunOut
\* The nodes run on or stop, and a panic ends one.
CHECK_DEADLOCK FALSE
