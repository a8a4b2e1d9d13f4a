\* Requests for two peers, for one peer twice, two for one peer; peers may hold other files.
CONSTANTS
    p1 = p1  p2 = p2  r1 = r1  r2 = r2
    Peers = {p1, p2}
    Requests = {r1, r2}
    Setups <- MCSetups
SPECIFICATION FairSpec
\* The sessions and goroutines end.
CHECK_DEADLOCK FALSE
INVARIANTS TypeOK ListedWasServed AllMeansAll
PROPERTIES ServedIsListed UserGetsAnswer
