\* Two workers, two units, purchases and executions that fail, a hash with no top byte.
CONSTANTS
    w1 = w1  w2 = w2  w3 = w3  w4 = w4  g1 = g1  g2 = g2
    HashBase = 3
    HashUnit = 3
    Workers = {w1, w2}
    UnitTaskCnt = 2
    OutputCnts = {1, 2, 3}
    MinAnswerCnt = 2
    AnswerCap = 1
    ConfoundKey <- MCKeys2
    Hashes = {1, 3, 5}
    Groups = {g1}
    FirstGroup = g1
    InitHeld = {}
    DeployOutcomes = {TRUE}
    FetchOutcomes = {TRUE, FALSE}
    ExecOutcomes = {TRUE, FALSE}
SPECIFICATION FairSpec
\* The sessions end, or wait for what never comes: the system may stop.
CHECK_DEADLOCK FALSE
INVARIANTS AnswerRoundTrip
PROPERTIES TerminateOnMajority TaskCompletes
