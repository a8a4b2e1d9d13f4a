\* Five handlers, one id each of eight.
CONSTANTS
  IdBits = 3
  K = 2
  NoHandler = NoHandler
  Self <- MCSelf
  Handlers <- MCHandlers
  DstOf <- MCDstOf
SPECIFICATION Spec
INVARIANTS
  TypeOK
  GetKNearest
PROPERTY ImplementsDirectory
\* A panic ends the process.
CHECK_DEADLOCK FALSE
