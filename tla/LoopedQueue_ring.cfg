\* A ring of four slots with sequence numbers below 11, which the slots do not divide.
CONSTANTS
    x = x  y = y  nil = nil
    Items <- MCItems
    Size = 3
    SeqSpace = 11
    StartSeq = 9
SPECIFICATION Spec
INVARIANTS FoundBySeq
PROPERTIES ImplementsQueue
