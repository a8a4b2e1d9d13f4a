\* As table: is every id one a handler can be inserted for?
CONSTANTS
  IdBits = 3
  K = 2
  NoHandler = NoHandler
  Self <- MCSelf
  Handlers <- MCHandlers
  DstOf <- MCDstOf
SPECIFICATION Spec
INVARIANT InsertNeverPanics
\* A panic ends the process.
CHECK_DEADLOCK FALSE
