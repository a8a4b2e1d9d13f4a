\* Two groups, two peers that hold little, two trackers that list anybody.
CONSTANTS
    p1 = p1  p2 = p2  t1 = t1  t2 = t2  g1 = g1  g2 = g2
    Groups = {g1, g2}
    Peers = {p1, p2}
    Trackers = {t1, t2}
    StockChoices <- MCStock
    LocalChoices <- MCLocal
SPECIFICATION FairSpec
\* The session and its goroutines end.
CHECK_DEADLOCK FALSE
INVARIANTS TypeOK NoIdleGroup OnePurchasePerGroup SuccessMeansHeld StoredIsKnown
PROPERTIES UserGetsAnswer ImplementsFetch
