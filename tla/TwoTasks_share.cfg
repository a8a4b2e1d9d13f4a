\* Two tasks, one worker, nodes that may leave; handlers shared or not, ids that wrap.
CONSTANTS
    m = m  w1 = w1  w2 = w2  a = a  b = b
    none = none  nobody = nobody
    Nodes = {m, w1, w2}
    Master = m
    Tasks = {a, b}
    Volunteers = {w1}
    Setups <- MCSetups
    MinAnswerCnt = 1
    RecvCap = 1
    HandlerSpace = 4
    MaxAddress = 2
    Handlers <- HandlerObjects
    Channels <- ListenerChannels
    Listeners <- MCListeners
    Payloads <- MsgData
    Callers = {m}
    TaskIDs = {a, b}
    Sinks <- ListenerChannels
SPECIFICATION Spec
\* The tasks end, or wait for what never comes.
CHECK_DEADLOCK FALSE
INVARIANTS TypeOK AnswersForTask HandlersKnown RestIsDone
