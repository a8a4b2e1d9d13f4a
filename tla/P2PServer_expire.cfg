\* A disconnect timer goes off at node A, whose handler is then used again; node B may stop.
CONSTANTS
  IdBits = 3
  K = 5
  NoHandler = NoHandler
  None = None
  Node <- TwoNodes
  StaticPeers <- PeersOfB
  Plans <- PlanNone
  Listeners = {}
  PooledCnt = 1
  MaxPooledCnt = 2
  HandlerCap = 1
  ExpiryCap <- ExpiryAtA
  MAX_TTL = 1
  MayStop <- OnlyB
  Lossy = FALSE
SPECIFICATION Spec
INVARIANTS
  TypeOK
  DeadEntryIsLeaving
  PooledIsStopping
\* The nodes run on or stop, and a panic ends one.
CHECK_DEADLOCK FALSE
