\* Four workers that answer one of two hashes, some sums overflow.
CONSTANTS
    w1 = w1  w2 = w2  w3 = w3  w4 = w4  g1 = g1  g2 = g2
    HashBase = 3
    HashUnit = 3
    Workers = {w1, w2, w3, w4}
    UnitTaskCnt = 1
    OutputCnts = {1}
    MinAnswerCnt = 2
    AnswerCap = 1
    ConfoundKey <- MCKeys4
    Hashes = {3, 5}
    Groups = {g1}
    FirstGroup = g1
    InitHeld = {g1}
    DeployOutcomes = {TRUE, FALSE}
    FetchOutcomes = {TRUE}
    ExecOutcomes = {TRUE}
SPECIFICATION FairSpec
\* The sessions end, or wait for what never comes: the system may stop.
CHECK_DEADLOCK FALSE
INVARIANTS TypeOK VoteTally WinnerIsMode AnswersExpected
PROPERTIES ImplementsVote SubmitReturns TaskCompletes
