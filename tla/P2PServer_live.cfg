\* One node asks for the other over a network that loses datagrams.
CONSTANTS
  IdBits = 3
  K = 5
  NoHandler = NoHandler
  None = None
  Node <- TwoNodes
  StaticPeers <- PeersOfB
  Plans <- PlanNone
  Listeners = {}
  PooledCnt = 1
  MaxPooledCnt = 2
  HandlerCap = 1
  ExpiryCap <- NoExpiry
  MAX_TTL = 1
  MayStop = {}
  Lossy = TRUE
SPECIFICATION FairSpec
PROPERTIES
  AskedIsConnected
\* The nodes run on or stop, and a panic ends one.
CHECK_DEADLOCK FALSE
