------------------------ MODULE ParallelPurchaseProofs ------------------------
(***************************************************************************)
(* Theorems about ParallelPurchase, for any groups, peers and trackers,    *)
(* whatever the peers hold and whatever the node holds beforehand.         *)
(***************************************************************************)
EXTENDS ParallelPurchase, FiniteSetTheorems, SequenceTheorems, TLAPS

-----------------------------------------------------------------------------
(* The inductive invariant *)

Last(g) == Len(purchases[g])
Unpurchased == {g \in Groups : fileState[g] # "PURCHASED"}

\* A group that is PURCHASING has one purchase that is not over, its latest;
\* any other group has none.
LatestIsOpen ==
    \A g \in Groups :
        /\ fileState[g] = "PURCHASING" => Last(g) > 0
        /\ \A n \in 1 .. Last(g) :
              purchases[g][n].stage # "done" <=> fileState[g] = "PURCHASING" /\ n = Last(g)

\* unpurchasedCnt counts the groups that are not bought: it is decremented
\* once for each, and never wraps.
CountIsRight == unpurchasedCnt = Cardinality(Unpurchased)

\* What was bought, or is reported as bought, is in the file system.
BoughtIsHeld ==
    \A g \in Groups :
        /\ fileState[g] = "PURCHASED" => local[g] # "none"
        /\ \A n \in 1 .. Last(g) : purchases[g][n].stage = "ok" => local[g] # "none"

\* StoredIsKnown: what purchases stored is bought, or about to be.  With it,
\* BoughtIsHeld is the other direction.

\* A success is posted when nothing is missing, a failure as the loop ends.
PostedIsTrue ==
    /\ TRUE \in posted => Unpurchased = {}
    /\ FALSE \in posted => ~running

Inv ==
    /\ TypeOK
    /\ LatestIsOpen
    /\ CountIsRight
    /\ NoIdleGroup
    /\ BoughtIsHeld
    /\ StoredIsKnown
    /\ PostedIsTrue

-----------------------------------------------------------------------------
(* What happens to the list of purchases *)

Stages == Waiting \cup {"ok", "failed", "done"}

\* One step of a purchase changes its stage and nothing else
\* (fs/purchase.go:54-80, fs/tracker.go:137-160).
LEMMA StageIs ==
  ASSUME TypeOK, NEW g \in Groups, NEW n \in 1 .. Last(g), NEW s \in Stages, Stage(g, n, s)
  PROVE  /\ purchases' \in [Groups -> Seq(Purchase)]
         /\ \A h \in Groups : Last(h)' = Last(h)
         /\ \A h \in Groups : \A m \in 1 .. Last(h) :
               purchases'[h][m].stage = IF h = g /\ m = n THEN s ELSE purchases[h][m].stage
<1> DEFINE q == purchases[g]
           e == [q[n] EXCEPT !.stage = s]
           r == [q EXCEPT ![n] = e]
<1>1. purchases \in [Groups -> Seq(Purchase)] /\ q \in Seq(Purchase) /\ n \in 1 .. Len(q)
  BY DEF TypeOK, Last
<1>2. q[n] \in Purchase /\ Len(q) \in Nat
  BY <1>1
<1>3. e \in Purchase /\ e.stage = s
  BY <1>2 DEF Purchase, Stages
<1>4. purchases' = [purchases EXCEPT ![g] = r]
  BY <1>1 DEF Stage
<1> HIDE DEF e
<1>5. /\ r \in Seq(Purchase) /\ Len(r) = Len(q)
      /\ \A m \in 1 .. Len(q) : r[m] = IF m = n THEN e ELSE q[m]
  BY <1>1, <1>3
<1> HIDE DEF r
<1>6. /\ purchases' \in [Groups -> Seq(Purchase)]
      /\ \A h \in Groups : purchases'[h] = IF h = g THEN r ELSE purchases[h]
  BY <1>1, <1>4, <1>5, Zenon
<1> QED BY <1>1, <1>3, <1>5, <1>6 DEF Last

\* A purchase that is over is followed by another one, from the next peer
\* (fs/tracker.go:150-158).
LEMMA AppendIs ==
  ASSUME TypeOK, NEW g \in Groups, NEW n \in 1 .. Last(g), NEW p \in Peers,
         purchases' = [purchases EXCEPT ![g] =
                          Append(Done(g, n), [peer |-> p, stage |-> "asked"])]
  PROVE  /\ purchases' \in [Groups -> Seq(Purchase)]
         /\ \A h \in Groups : Last(h)' = IF h = g THEN Last(h) + 1 ELSE Last(h)
         /\ \A h \in Groups : \A m \in 1 .. Last(h) :
               purchases'[h][m].stage = IF h = g /\ m = n THEN "done" ELSE purchases[h][m].stage
         /\ purchases'[g][Last(g) + 1].stage = "asked"
<1> DEFINE q == purchases[g]
           e == [q[n] EXCEPT !.stage = "done"]
           r == [q EXCEPT ![n] = e]
           a == [peer |-> p, stage |-> "asked"]
           z == Append(r, a)
<1>1. purchases \in [Groups -> Seq(Purchase)] /\ q \in Seq(Purchase) /\ n \in 1 .. Len(q)
  BY DEF TypeOK, Last
<1>2. q[n] \in Purchase /\ Len(q) \in Nat
  BY <1>1
<1>3. e \in Purchase /\ e.stage = "done" /\ a \in Purchase /\ a.stage = "asked"
  BY <1>2 DEF Purchase, Waiting
<1>4. purchases' = [purchases EXCEPT ![g] = z]
  BY DEF Done
<1> HIDE DEF e, a
<1>5. /\ r \in Seq(Purchase) /\ Len(r) = Len(q)
      /\ \A m \in 1 .. Len(q) : r[m] = IF m = n THEN e ELSE q[m]
  BY <1>1, <1>3
<1> HIDE DEF r
<1>6. /\ z \in Seq(Purchase) /\ Len(z) = Len(q) + 1 /\ z[Len(q) + 1] = a
      /\ \A m \in 1 .. Len(q) : z[m] = IF m = n THEN e ELSE q[m]
  BY <1>2, <1>3, <1>5
<1> HIDE DEF z
<1>7. /\ purchases' \in [Groups -> Seq(Purchase)]
      /\ \A h \in Groups : purchases'[h] = IF h = g THEN z ELSE purchases[h]
  BY <1>1, <1>4, <1>6, Zenon
<1> QED BY <1>1, <1>3, <1>6, <1>7 DEF Last

\* The groups asked for get a purchase, the others keep theirs
\* (fs/tracker.go:121-132).
LEMMA PurchaseFromIs ==
  ASSUME TypeOK, NEW ask \in SUBSET Groups, NEW from \in [ask -> Peers], PurchaseFrom(ask, from)
  PROVE  /\ purchases' \in [Groups -> Seq(Purchase)]
         /\ \A h \in Groups : Last(h)' = IF h \in ask THEN Last(h) + 1 ELSE Last(h)
         /\ \A h \in Groups : \A m \in 1 .. Last(h) : purchases'[h][m] = purchases[h][m]
         /\ \A h \in ask : purchases'[h][Last(h) + 1].stage = "asked"
<1> DEFINE a(h) == [peer |-> from[h], stage |-> "asked"]
           z(h) == Append(purchases[h], a(h))
<1>1. \A h \in Groups : purchases[h] \in Seq(Purchase) /\ Last(h) \in Nat /\ Last(h) = Len(purchases[h])
  BY DEF TypeOK, Last
<1>2. \A h \in ask : a(h) \in Purchase /\ a(h).stage = "asked"
  BY DEF Purchase, Waiting
<1> HIDE DEF a
<1>3. \A h \in ask : /\ z(h) \in Seq(Purchase) /\ Len(z(h)) = Last(h) + 1
                     /\ z(h)[Last(h) + 1] = a(h)
                     /\ \A m \in 1 .. Last(h) : z(h)[m] = purchases[h][m]
  BY <1>1, <1>2
<1>4. purchases' = [h \in Groups |-> IF h \in ask THEN z(h) ELSE purchases[h]]
  BY DEF PurchaseFrom, a
<1> HIDE DEF z
<1>5. \A h \in Groups : purchases'[h] = IF h \in ask THEN z(h) ELSE purchases[h]
  BY <1>4
<1>6. purchases' \in [Groups -> Seq(Purchase)]
  BY <1>1, <1>3, <1>4
<1> QED BY <1>1, <1>2, <1>3, <1>5, <1>6 DEF Last

-----------------------------------------------------------------------------
(* The session and its purchases keep the invariant *)

\* The counter is between nothing and everything (fs/tracker.go:44-50).
LEMMA SubsetCount ==
  ASSUME NEW S \in SUBSET Groups
  PROVE  /\ IsFiniteSet(S) /\ Cardinality(S) \in 0 .. Cardinality(Groups)
         /\ Cardinality(S) = 0 <=> S = {}
<1>1. /\ IsFiniteSet(S) /\ Cardinality(S) \in Nat /\ Cardinality(Groups) \in Nat
      /\ Cardinality(S) <= Cardinality(Groups)
  BY SetsAssumption, FS_Subset, FS_CardinalityType
<1> QED BY <1>1, FS_EmptySet

\* The session starts with everything to buy (fs/tracker.go:33-68).
LEMMA InvInit == Init => Inv
<1> SUFFICES ASSUME Init PROVE Inv
  OBVIOUS
<1>1. Unpurchased = Groups /\ unpurchasedCnt = Cardinality(Groups)
  BY DEF Init, Unpurchased
<1>2. Cardinality(Groups) \in 0 .. Cardinality(Groups)
  BY SubsetCount
<1>3. \A g \in Groups : purchases[g] = <<>> /\ Last(g) = 0
  BY DEF Init, Last
<1>4. TypeOK
  BY <1>1, <1>2, ChoicesAssumption DEF Init, TypeOK, Locals
<1>5. StoredIsKnown
  BY ChoicesAssumption DEF Init, StoredIsKnown
<1> QED BY <1>1, <1>3, <1>4, <1>5 DEF Inv, Init, LatestIsOpen, CountIsRight, NoIdleGroup,
                                      BoughtIsHeld, PostedIsTrue

\* A group that is not bought is not asked for twice: whatever a tracker
\* lists, a group with an open purchase is left alone (fs/tracker.go:112-135).
LEMMA TrackerResultStep ==
  ASSUME Inv, NEW t \in Trackers, NEW listing \in [Groups -> SUBSET Peers],
         TrackerResult(t, listing)
  PROVE  Inv'
<1> DEFINE ask == {g \in Groups : listing[g] # {} /\ fileState[g] = "UNKNOWN"}
<1>1. PICK from \in [ask -> Peers] : PurchaseFrom(ask, from)
  BY DEF TrackerResult, TrackerResultFor
<1>2. /\ asked' = asked \ {t}
      /\ fileState' = [g \in Groups |-> IF g \in ask THEN "PURCHASING" ELSE fileState[g]]
      /\ peerGroup' = [g \in Groups |-> peerGroup[g] \cup listing[g]]
      /\ UNCHANGED <<running, waitTimer, unpurchasedCnt, stock, crashed, local, results>>
  BY DEF TrackerResult, TrackerResultFor
<1>3. TypeOK /\ ask \in SUBSET Groups
  BY DEF Inv
<1>4. \A g \in ask : g \in Groups /\ fileState[g] = "UNKNOWN" /\ listing[g] # {}
  OBVIOUS
<1>5. \A g \in Groups : g \notin ask => listing[g] = {} \/ fileState[g] # "UNKNOWN"
  OBVIOUS
<1> HIDE DEF ask
<1>6. /\ purchases' \in [Groups -> Seq(Purchase)]
      /\ \A h \in Groups : Last(h)' = IF h \in ask THEN Last(h) + 1 ELSE Last(h)
      /\ \A h \in Groups : \A m \in 1 .. Last(h) : purchases'[h][m] = purchases[h][m]
      /\ \A h \in ask : purchases'[h][Last(h) + 1].stage = "asked"
  BY <1>1, <1>3, PurchaseFromIs
<1>7. \A h \in Groups : Last(h) \in Nat
  BY <1>3 DEF TypeOK, Last
<1>8. \A h \in Groups : /\ fileState'[h] = IF h \in ask THEN "PURCHASING" ELSE fileState[h]
                        /\ peerGroup'[h] = peerGroup[h] \cup listing[h]
  BY <1>2
<1>9. TypeOK'
  BY <1>2, <1>3, <1>6 DEF TypeOK, results
<1>10. LatestIsOpen'
  <2> SUFFICES ASSUME NEW h \in Groups
               PROVE  /\ fileState'[h] = "PURCHASING" => Last(h)' > 0
                      /\ \A n \in 1 .. Last(h)' : purchases'[h][n].stage # "done"
                            <=> fileState'[h] = "PURCHASING" /\ n = Last(h)'
    BY DEF LatestIsOpen
  <2>1. /\ fileState[h] = "PURCHASING" => Last(h) > 0
        /\ \A n \in 1 .. Last(h) : purchases[h][n].stage # "done"
              <=> fileState[h] = "PURCHASING" /\ n = Last(h)
    BY DEF Inv, LatestIsOpen
  <2>2. CASE h \in ask
    <3>1. Last(h)' = Last(h) + 1 /\ fileState'[h] = "PURCHASING"
      BY <1>6, <1>8, <2>2
    <3>2. \A n \in 1 .. Last(h) : purchases'[h][n].stage = "done"
      BY <1>4, <1>6, <2>1, <2>2
    <3>3. purchases'[h][Last(h) + 1].stage = "asked"
      BY <1>6, <2>2
    <3> QED BY <1>7, <3>1, <3>2, <3>3
  <2>3. CASE h \notin ask
    <3>1. /\ Last(h)' = Last(h) /\ fileState'[h] = fileState[h]
          /\ \A m \in 1 .. Last(h) : purchases'[h][m] = purchases[h][m]
      BY <1>6, <1>8, <2>3
    <3> QED BY <2>1, <3>1
  <2> QED BY <2>2, <2>3
<1>11. CountIsRight'
  <2>1. Unpurchased' = Unpurchased
    BY <1>4, <1>8 DEF Unpurchased
  <2> QED BY <1>2, <2>1 DEF Inv, CountIsRight
<1>12. NoIdleGroup'
  BY <1>5, <1>8 DEF Inv, NoIdleGroup
<1>13. BoughtIsHeld'
  <2> SUFFICES ASSUME NEW h \in Groups
               PROVE  /\ fileState'[h] = "PURCHASED" => local'[h] # "none"
                      /\ \A n \in 1 .. Last(h)' :
                            purchases'[h][n].stage = "ok" => local'[h] # "none"
    BY DEF BoughtIsHeld
  <2>1. /\ fileState[h] = "PURCHASED" => local[h] # "none"
        /\ \A n \in 1 .. Last(h) : purchases[h][n].stage = "ok" => local[h] # "none"
    BY DEF Inv, BoughtIsHeld
  <2>2. \A n \in 1 .. Last(h) : purchases'[h][n].stage = "ok" => local[h] # "none"
    BY <1>6, <2>1
  <2>3. h \in ask => purchases'[h][Last(h) + 1].stage = "asked"
    BY <1>6
  <2>4. Last(h)' = IF h \in ask THEN Last(h) + 1 ELSE Last(h)
    BY <1>6
  <2> QED BY <1>2, <1>7, <1>8, <2>1, <2>2, <2>3, <2>4
<1>14. PostedIsTrue'
  BY <1>2, <1>4, <1>8 DEF Inv, PostedIsTrue, Unpurchased, results
<1>15. StoredIsKnown'
  <2> SUFFICES ASSUME NEW h \in Groups, local[h] = "bought"
               PROVE  \/ fileState'[h] = "PURCHASED"
                      \/ \E m \in 1 .. Last(h)' : purchases'[h][m].stage = "ok"
    BY <1>2 DEF StoredIsKnown, Last
  <2>1. CASE fileState[h] = "PURCHASED"
    BY <1>4, <1>8, <2>1
  <2>2. ASSUME NEW m \in 1 .. Last(h), purchases[h][m].stage = "ok"
        PROVE  m \in 1 .. Last(h)' /\ purchases'[h][m].stage = "ok"
    BY <1>6, <1>7, <2>2
  <2> QED BY <2>1, <2>2 DEF Inv, StoredIsKnown, Last
<1> QED BY <1>9, <1>10, <1>11, <1>12, <1>13, <1>14, <1>15 DEF Inv

\* A bought group is counted once, and the success is posted for the last one
\* (fs/tracker.go:137-148).
LEMMA PurchasedStep ==
  ASSUME Inv, NEW g \in Groups, NEW n \in 1 .. Last(g), Purchased(g, n)
  PROVE  Inv'
<1>1. TypeOK /\ purchases[g][n].stage = "ok"
  BY DEF Inv, Purchased
<1>2. fileState[g] = "PURCHASING" /\ n = Last(g) /\ local[g] # "none"
  BY <1>1 DEF Inv, LatestIsOpen, BoughtIsHeld
<1>3. Stage(g, n, "done") /\ "done" \in Stages
  BY DEF Purchased, Done, Stage, Stages
<1>4. /\ purchases' \in [Groups -> Seq(Purchase)]
      /\ \A h \in Groups : Last(h)' = Last(h)
      /\ \A h \in Groups : \A m \in 1 .. Last(h) :
            purchases'[h][m].stage = IF h = g /\ m = n THEN "done" ELSE purchases[h][m].stage
  BY <1>1, <1>3, StageIs
<1>5. \A h \in Groups : fileState'[h] = IF h = g THEN "PURCHASED" ELSE fileState[h]
  BY <1>1 DEF Purchased, TypeOK
<1>6. Unpurchased' = Unpurchased \ {g} /\ g \in Unpurchased /\ Unpurchased \in SUBSET Groups
  BY <1>2, <1>5 DEF Unpurchased
<1>7. /\ unpurchasedCnt' = Cardinality(Unpurchased') /\ unpurchasedCnt' \in 0 .. Cardinality(Groups)
      /\ unpurchasedCnt' = 0 <=> Unpurchased' = {}
  <2>1. Cardinality(Unpurchased \ {g}) = Cardinality(Unpurchased) - 1
    BY <1>6, SubsetCount, FS_RemoveElement
  <2>2. unpurchasedCnt' = Cardinality(Unpurchased) - 1
    BY DEF Purchased, Inv, CountIsRight
  <2> QED BY <1>6, <2>1, <2>2, SubsetCount
<1>8. TypeOK'
  <2>1. fileState' \in [Groups -> {"UNKNOWN", "PURCHASING", "PURCHASED"}]
    BY <1>1 DEF Purchased, TypeOK
  <2>2. peerGroup' \in [Groups -> SUBSET Peers]
    BY <1>1 DEF Purchased, TypeOK
  <2>3. waitTimer' \in {"running", "fired", "stopped"} /\ posted' \subseteq BOOLEAN
    BY <1>1 DEF Purchased, Terminate, TypeOK
  <2> QED BY <1>1, <1>4, <1>7, <2>1, <2>2, <2>3 DEF Purchased, TypeOK
<1>9. LatestIsOpen'
  BY <1>2, <1>4, <1>5 DEF Inv, LatestIsOpen
<1>10. CountIsRight'
  BY <1>7 DEF CountIsRight
<1>11. NoIdleGroup'
  BY <1>1, <1>5 DEF Inv, NoIdleGroup, Purchased, TypeOK
<1>12. BoughtIsHeld'
  BY <1>2, <1>4, <1>5 DEF Inv, BoughtIsHeld, Purchased
<1>13. PostedIsTrue'
  <2>1. \/ posted' = posted
        \/ posted' = posted \cup {TRUE} /\ unpurchasedCnt' = 0
    <3>1. IF unpurchasedCnt' = 0 THEN posted' = posted \cup {TRUE} ELSE posted' = posted
      BY DEF Purchased, Terminate
    <3> QED BY <3>1
  <2> QED BY <1>6, <1>7, <2>1 DEF Inv, PostedIsTrue, Purchased
<1>14. StoredIsKnown'
  BY <1>4, <1>5 DEF Inv, StoredIsKnown, Purchased, Last
<1> QED BY <1>8, <1>9, <1>10, <1>11, <1>12, <1>13, <1>14 DEF Inv

\* A failed purchase is over; it is followed by one from another peer, or no
\* peer is known (fs/tracker.go:150-160).
LEMMA NotPurchasedStep ==
  ASSUME Inv, NEW g \in Groups, NEW n \in 1 .. Last(g), NotPurchased(g, n)
  PROVE  Inv'
<1> DEFINE others == peerGroup[g] \ {purchases[g][n].peer}
<1>1. TypeOK /\ purchases[g][n].stage = "failed" /\ others \in SUBSET Peers
  BY DEF Inv, NotPurchased, TypeOK
<1>2. fileState[g] = "PURCHASING" /\ n = Last(g)
  BY <1>1 DEF Inv, LatestIsOpen
<1>3. /\ peerGroup' = [peerGroup EXCEPT ![g] = others]
      /\ UNCHANGED <<running, waitTimer, unpurchasedCnt, asked, stock, crashed, local, results>>
  BY DEF NotPurchased
<1>4. \A h \in Groups : Last(h) \in Nat
  BY <1>1 DEF TypeOK, Last
<1>5. \A h \in Groups : peerGroup'[h] = IF h = g THEN others ELSE peerGroup[h]
  BY <1>1, <1>3 DEF TypeOK
\* Nothing was stored for the group: its open purchase failed, the others
\* are over.
<1>6. local[g] # "bought"
  BY <1>1, <1>2 DEF Inv, LatestIsOpen, StoredIsKnown, Last
<1>7. CASE others = {}
  <2>1. /\ fileState' = [fileState EXCEPT ![g] = "UNKNOWN"]
        /\ Stage(g, n, "done") /\ "done" \in Stages
    BY <1>7 DEF NotPurchased, Done, Stage, Stages
  <2>2. /\ purchases' \in [Groups -> Seq(Purchase)]
        /\ \A h \in Groups : Last(h)' = Last(h)
        /\ \A h \in Groups : \A m \in 1 .. Last(h) :
              purchases'[h][m].stage = IF h = g /\ m = n THEN "done" ELSE purchases[h][m].stage
    BY <1>1, <2>1, StageIs
  <2>3. \A h \in Groups : fileState'[h] = IF h = g THEN "UNKNOWN" ELSE fileState[h]
    BY <1>1, <2>1 DEF TypeOK
  <2>4. Unpurchased' = Unpurchased
    BY <1>2, <2>3 DEF Unpurchased
  <2>5. TypeOK'
    BY <1>1, <1>3, <2>1, <2>2 DEF TypeOK, results
  <2>6. LatestIsOpen'
    BY <1>2, <2>2, <2>3 DEF Inv, LatestIsOpen
  <2>7. CountIsRight' /\ PostedIsTrue'
    BY <1>3, <2>4 DEF Inv, CountIsRight, PostedIsTrue, results
  <2>8. NoIdleGroup'
    BY <1>5, <1>7, <2>3 DEF Inv, NoIdleGroup
  <2>9. BoughtIsHeld'
    BY <1>3, <2>2, <2>3 DEF Inv, BoughtIsHeld
  <2>10. StoredIsKnown'
    <3> SUFFICES ASSUME NEW h \in Groups, local[h] = "bought"
                 PROVE  \/ fileState'[h] = "PURCHASED"
                        \/ \E m \in 1 .. Last(h)' : purchases'[h][m].stage = "ok"
      BY <1>3 DEF StoredIsKnown, Last
    <3>1. \/ fileState[h] = "PURCHASED"
          \/ \E m \in 1 .. Last(h) : purchases[h][m].stage = "ok"
      BY DEF Inv, StoredIsKnown, Last
    <3> QED BY <1>6, <2>2, <2>3, <3>1
  <2> QED BY <2>5, <2>6, <2>7, <2>8, <2>9, <2>10 DEF Inv
<1>8. CASE others # {}
  <2>1. /\ fileState' = [fileState EXCEPT ![g] = "PURCHASING"]
        /\ \E p \in others : purchases' =
              [purchases EXCEPT ![g] = Append(Done(g, n), [peer |-> p, stage |-> "asked"])]
    BY <1>8 DEF NotPurchased
  <2>2. /\ purchases' \in [Groups -> Seq(Purchase)]
        /\ \A h \in Groups : Last(h)' = IF h = g THEN Last(h) + 1 ELSE Last(h)
        /\ \A h \in Groups : \A m \in 1 .. Last(h) :
              purchases'[h][m].stage = IF h = g /\ m = n THEN "done" ELSE purchases[h][m].stage
        /\ purchases'[g][Last(g) + 1].stage = "asked"
    <3>1. PICK p \in others : purchases' =
              [purchases EXCEPT ![g] = Append(Done(g, n), [peer |-> p, stage |-> "asked"])]
      BY <2>1
    <3>2. p \in Peers
      BY <1>1, <3>1
    <3> QED BY <1>1, <3>1, <3>2, AppendIs
  <2>3. fileState' = fileState
    BY <1>1, <1>2, <2>1 DEF TypeOK
  <2>4. TypeOK'
    BY <1>1, <1>3, <2>2, <2>3 DEF TypeOK, results
  <2>5. LatestIsOpen'
    <3>1. \A m \in 1 .. Last(g) : purchases'[g][m].stage = "done"
      BY <1>2, <2>2 DEF Inv, LatestIsOpen
    <3>2. /\ Last(g)' = Last(g) + 1 /\ fileState'[g] = "PURCHASING"
          /\ purchases'[g][Last(g) + 1].stage = "asked"
      BY <1>2, <2>2, <2>3
    <3>3. /\ Last(g)' > 0
          /\ \A m \in 1 .. Last(g)' : purchases'[g][m].stage # "done" <=> m = Last(g)'
      BY <1>4, <3>1, <3>2
    <3>4. \A h \in Groups \ {g} :
            /\ Last(h)' = Last(h)
            /\ \A m \in 1 .. Last(h) : purchases'[h][m].stage = purchases[h][m].stage
      BY <2>2
    <3> QED BY <2>3, <3>2, <3>3, <3>4 DEF Inv, LatestIsOpen
  <2>6. CountIsRight' /\ PostedIsTrue'
    BY <1>3, <2>3 DEF Inv, CountIsRight, PostedIsTrue, Unpurchased, results
  <2>7. NoIdleGroup'
    BY <1>2, <1>5, <2>3 DEF Inv, NoIdleGroup
  <2>8. BoughtIsHeld'
    <3> SUFFICES ASSUME NEW h \in Groups
                 PROVE  /\ fileState'[h] = "PURCHASED" => local'[h] # "none"
                        /\ \A m \in 1 .. Last(h)' :
                              purchases'[h][m].stage = "ok" => local'[h] # "none"
      BY DEF BoughtIsHeld
    <3>1. /\ fileState[h] = "PURCHASED" => local[h] # "none"
          /\ \A m \in 1 .. Last(h) : purchases[h][m].stage = "ok" => local[h] # "none"
      BY DEF Inv, BoughtIsHeld
    <3>2. \A m \in 1 .. Last(h) : purchases'[h][m].stage = "ok" => local[h] # "none"
      BY <2>2, <3>1
    <3>3. /\ Last(h)' = IF h = g THEN Last(h) + 1 ELSE Last(h)
          /\ h = g => purchases'[h][Last(h) + 1].stage = "asked"
      BY <2>2
    <3> QED BY <1>3, <1>4, <2>3, <3>1, <3>2, <3>3 DEF results
  <2>9. StoredIsKnown'
    <3> SUFFICES ASSUME NEW h \in Groups, local[h] = "bought"
                 PROVE  \/ fileState'[h] = "PURCHASED"
                        \/ \E m \in 1 .. Last(h)' : purchases'[h][m].stage = "ok"
      BY <1>3 DEF StoredIsKnown, Last
    <3>1. /\ h # g /\ Last(h)' = Last(h)
          /\ \A m \in 1 .. Last(h) : purchases'[h][m].stage = purchases[h][m].stage
      BY <1>6, <2>2
    <3>2. \/ fileState[h] = "PURCHASED"
          \/ \E m \in 1 .. Last(h) : purchases[h][m].stage = "ok"
      BY DEF Inv, StoredIsKnown, Last
    <3> QED BY <2>3, <3>1, <3>2
  <2> QED BY <2>4, <2>5, <2>6, <2>7, <2>8, <2>9 DEF Inv
<1> QED BY <1>7, <1>8

\* A purchase that waits for its pack gets on; it says it succeeded only when
\* its files are stored (fs/purchase.go:54-100).
LEMMA AttemptStep ==
  ASSUME Inv, NEW g \in Groups, NEW n \in 1 .. Last(g), NEW s \in Stages \ {"done"},
         purchases[g][n].stage \in Waiting, Stage(g, n, s),
         UNCHANGED <<session, asked, stock, crashed, results>>,
         local' \in [Groups -> Locals],
         \A h \in Groups : local[h] # "none" => local'[h] # "none",
         \A h \in Groups : local'[h] = local[h] \/ (h = g /\ s = "ok"),
         s = "ok" => local'[g] # "none"
  PROVE  Inv'
<1>1. TypeOK /\ fileState[g] = "PURCHASING" /\ n = Last(g)
  BY DEF Inv, LatestIsOpen, Waiting
<1>2. /\ purchases' \in [Groups -> Seq(Purchase)]
      /\ \A h \in Groups : Last(h)' = Last(h)
      /\ \A h \in Groups : \A m \in 1 .. Last(h) :
            purchases'[h][m].stage = IF h = g /\ m = n THEN s ELSE purchases[h][m].stage
  BY <1>1, StageIs
<1>3. TypeOK'
  BY <1>1, <1>2 DEF TypeOK, session, results
<1>4. LatestIsOpen'
  BY <1>1, <1>2 DEF Inv, LatestIsOpen, session
<1>5. CountIsRight' /\ NoIdleGroup' /\ PostedIsTrue'
  BY DEF Inv, CountIsRight, NoIdleGroup, PostedIsTrue, Unpurchased, session, results
<1>6. BoughtIsHeld'
  BY <1>2 DEF Inv, BoughtIsHeld, session
<1>7. StoredIsKnown'
  <2> SUFFICES ASSUME NEW h \in Groups, local'[h] = "bought"
               PROVE  \/ fileState'[h] = "PURCHASED"
                      \/ \E m \in 1 .. Last(h)' : purchases'[h][m].stage = "ok"
    BY DEF StoredIsKnown, Last
  <2>1. CASE h = g /\ s = "ok"
    BY <1>2, <2>1
  <2>2. CASE local[h] = "bought"
    <3>1. \/ fileState[h] = "PURCHASED"
          \/ \E m \in 1 .. Last(h) : purchases[h][m].stage = "ok"
      BY <2>2 DEF Inv, StoredIsKnown, Last
    <3>2. \A m \in 1 .. Last(h) :
            purchases[h][m].stage = "ok" => purchases'[h][m].stage = "ok"
      BY <1>2 DEF Waiting
    <3> QED BY <1>2, <3>1, <3>2 DEF session
  <2> QED BY <2>1, <2>2
<1> QED BY <1>3, <1>4, <1>5, <1>6, <1>7 DEF Inv

\* The same for the steps that leave the purchases alone, and at most stop
\* the loop, move its timer or hand results on (fs/fs.go:270-300).
LEMMA RestStep ==
  ASSUME Inv, TypeOK', UNCHANGED <<fileState, peerGroup, unpurchasedCnt, purchases, local>>,
         TRUE \in posted' => TRUE \in posted, FALSE \in posted' => ~running',
         running' => running
  PROVE  Inv'
<1>1. LatestIsOpen'
  BY DEF Inv, LatestIsOpen, Last
<1>2. BoughtIsHeld'
  BY DEF Inv, BoughtIsHeld, Last
<1>3. StoredIsKnown'
  BY DEF Inv, StoredIsKnown
<1> QED BY <1>1, <1>2, <1>3 DEF Inv, CountIsRight, NoIdleGroup, PostedIsTrue, Unpurchased

\* Every step keeps the invariant.
LEMMA InvStep == Inv /\ [Next]_vars => Inv'
<1> SUFFICES ASSUME Inv, [Next]_vars PROVE Inv'
  OBVIOUS
<1>1. TypeOK
  BY DEF Inv
<1>2. FALSE \in posted => ~running
  BY DEF Inv, PostedIsTrue
<1>3. ASSUME NEW t \in Trackers, NEW listing \in [Groups -> SUBSET Peers],
             TrackerResult(t, listing)
      PROVE  Inv'
  BY <1>3, TrackerResultStep
<1>4. ASSUME NEW g \in Groups, NEW n \in 1 .. Last(g), Purchased(g, n) PROVE Inv'
  BY <1>4, PurchasedStep
<1>5. ASSUME NEW g \in Groups, NEW n \in 1 .. Last(g), NotPurchased(g, n) PROVE Inv'
  BY <1>5, NotPurchasedStep
<1>6. CASE WaitTimer
  <2>1. TypeOK'
    BY <1>1, <1>6 DEF WaitTimer, TypeOK
  <2> QED BY <1>6, <2>1, RestStep DEF WaitTimer
<1>7. CASE TimerFires
  <2>1. TypeOK'
    BY <1>1, <1>7 DEF TimerFires, TypeOK, results
  <2> QED BY <1>2, <1>7, <2>1, RestStep DEF TimerFires, results
<1>8. ASSUME NEW g \in Groups, NEW n \in 1 .. Last(g), Attempt(g, n) PROVE Inv'
  <2>1. CASE Sell(g, n)
    <3> DEFINE s == stock[purchases[g][n].peer][g]
    <3>1. purchases[g][n] \in Purchase
      BY <1>1 DEF TypeOK, Last
    <3>2. s \in Stocks /\ s # "missing"
      BY <1>1, <2>1, <3>1 DEF Sell, TypeOK, Purchase
    <3>3. s \in Stages \ {"done"} /\ s # "ok"
      BY <3>2 DEF Stocks, Stages, Waiting
    <3>4. /\ purchases[g][n].stage \in Waiting /\ Stage(g, n, s)
          /\ UNCHANGED <<session, asked, stock, crashed, local, results>>
      BY <2>1 DEF Sell, Waiting
    <3> HIDE DEF s
    <3> QED BY <1>1, <3>3, <3>4, AttemptStep DEF TypeOK
  <2>2. CASE SellPanics(g, n)
    <3>1. purchases[g][n] \in Purchase
      BY <1>1 DEF TypeOK, Last
    <3>2. TypeOK'
      BY <1>1, <2>2, <3>1 DEF SellPanics, TypeOK, Purchase, session, results
    <3> QED BY <1>2, <2>2, <3>2, RestStep DEF SellPanics, session, results
  <2>3. CASE DataPack(g, n)
    <3>1. CASE purchases[g][n].stage = "right"
      <4>1. /\ local' = [local EXCEPT ![g] = IF @ = "none" THEN "bought" ELSE @]
            /\ Stage(g, n, "ok")
            /\ UNCHANGED <<session, asked, stock, crashed, results>>
        BY <2>3, <3>1 DEF DataPack
      <4>2. /\ local' \in [Groups -> Locals] /\ local'[g] # "none"
            /\ \A h \in Groups : /\ local[h] # "none" => local'[h] # "none"
                                /\ h # g => local'[h] = local[h]
        BY <1>1, <4>1 DEF TypeOK, Locals
      <4> QED BY <3>1, <4>1, <4>2, AttemptStep DEF Stages, Waiting
    <3>2. CASE purchases[g][n].stage # "right"
      <4>1. /\ purchases[g][n].stage = "other" /\ Stage(g, n, "failed")
            /\ UNCHANGED <<session, asked, stock, crashed, local, results>>
        BY <2>3, <3>2 DEF DataPack
      <4> QED BY <1>1, <4>1, AttemptStep DEF Stages, TypeOK, Waiting
    <3> QED BY <3>1, <3>2
  <2>4. CASE PurchaseTimeout(g, n)
    <3>1. /\ purchases[g][n].stage \in Waiting /\ Stage(g, n, "failed")
          /\ UNCHANGED <<session, asked, stock, crashed, local, results>>
      BY <2>4 DEF PurchaseTimeout, TimeoutWhen
    <3> QED BY <1>1, <3>1, AttemptStep DEF Stages, TypeOK
  <2> QED BY <1>8, <2>1, <2>2, <2>3, <2>4 DEF Attempt
<1>9. ASSUME NEW ok \in BOOLEAN, Forward(ok) PROVE Inv'
  <2>1. TypeOK'
    BY <1>1, <1>9 DEF Forward, TypeOK, session
  <2> QED BY <1>2, <1>9, <2>1, RestStep DEF Forward, session
<1>10. CASE DeleteEntry
  <2>1. TypeOK'
    BY <1>1, <1>10 DEF DeleteEntry, TypeOK, session
  <2> QED BY <1>2, <1>10, <2>1, RestStep DEF DeleteEntry, session
<1>11. CASE UNCHANGED vars
  <2>1. TypeOK'
    BY <1>1, <1>11 DEF vars, TypeOK, session, results
  <2> QED BY <1>2, <1>11, <2>1, RestStep DEF vars, session, results
<1> QED BY <1>3, <1>4, <1>5, <1>6, <1>7, <1>8, <1>9, <1>10, <1>11 DEF Next, Run, Last

\* The invariant holds in every state of a session (fs/tracker.go:70-110).
THEOREM Invariance == Spec => []Inv
<1> QED BY InvInit, InvStep, PTL DEF Spec

-----------------------------------------------------------------------------
(* What follows *)

\* Every state is well typed; the counter of what is left to buy does not go
\* below zero, however results and answers interleave (fs/tracker.go:137-148).
THEOREM TypeCorrect == Spec => []TypeOK
<1>1. Inv => TypeOK
  BY DEF Inv
<1> QED BY <1>1, Invariance, PTL

\* A group is not left alone while a peer for it is known
\* (fs/tracker.go:112-160).
THEOREM NeverIdle == Spec => []NoIdleGroup
<1>1. Inv => NoIdleGroup
  BY DEF Inv
<1> QED BY <1>1, Invariance, PTL

\* A group is never bought from two peers at a time, nor bought again, however
\* many trackers answer and in whatever order (fs/tracker.go:112-160).
THEOREM OneAtATime == Spec => []OnePurchasePerGroup
<1>1. Inv => OnePurchasePerGroup
  <2> SUFFICES ASSUME Inv, NEW g \in Groups
               PROVE  Cardinality(Open(g)) = IF fileState[g] = "PURCHASING" THEN 1 ELSE 0
    BY DEF OnePurchasePerGroup
  <2>1. /\ fileState[g] = "PURCHASING" => Last(g) > 0
        /\ \A n \in 1 .. Last(g) :
              purchases[g][n].stage # "done" <=> fileState[g] = "PURCHASING" /\ n = Last(g)
    BY DEF Inv, LatestIsOpen
  <2>2. Last(g) \in Nat /\ Last(g) = Len(purchases[g])
    BY DEF Inv, TypeOK, Last
  <2>3. CASE fileState[g] = "PURCHASING"
    <3>1. Open(g) = {Last(g)}
      BY <2>1, <2>2, <2>3 DEF Open
    <3> QED BY <2>3, <3>1, FS_Singleton
  <2>4. CASE fileState[g] # "PURCHASING"
    <3>1. Open(g) = {}
      BY <2>1, <2>2, <2>4 DEF Open
    <3> QED BY <2>4, <3>1, FS_EmptySet
  <2> QED BY <2>3, <2>4
<1> QED BY <1>1, Invariance, PTL

\* A success that was posted is true (fs/tracker.go:143-147).
THEOREM SuccessIsTrue == Spec => []SuccessMeansHeld
<1>1. Inv => SuccessMeansHeld
  BY DEF Inv, PostedIsTrue, BoughtIsHeld, Unpurchased, SuccessMeansHeld
<1> QED BY <1>1, Invariance, PTL

\* What a purchase stored is known to the session, however its results, other
\* trackers' answers and timers interleave (fs/purchase.go:80-128,
\* fs/tracker.go:112-160).
THEOREM NothingForgotten == Spec => []StoredIsKnown
<1>1. Inv => StoredIsKnown
  BY DEF Inv
<1> QED BY <1>1, Invariance, PTL

\* Files are stored in one place only (fs/purchase.go:82-100): every other
\* step leaves them alone.
LEMMA StoredByPack ==
  ASSUME TypeOK, [Next]_vars
  PROVE  \/ local' = local
         \/ /\ posted' = posted
            /\ \E g \in Groups : local[g] = "none" /\ local' = [local EXCEPT ![g] = "bought"]
<1>1. ASSUME NEW g \in Groups, NEW n \in 1 .. Len(purchases[g]), DataPack(g, n)
      PROVE  \/ local' = local
             \/ /\ posted' = posted
                /\ local[g] = "none" /\ local' = [local EXCEPT ![g] = "bought"]
  <2>1. CASE local[g] = "none"
    BY <1>1, <2>1 DEF DataPack, results
  <2>2. CASE local[g] # "none"
    BY <1>1, <2>2 DEF DataPack, TypeOK
  <2> QED BY <2>1, <2>2
<1>2. ASSUME NEW g \in Groups, NEW n \in 1 .. Len(purchases[g]), Attempt(g, n), ~DataPack(g, n)
      PROVE  local' = local
  BY <1>2 DEF Attempt, Sell, SellPanics, PurchaseTimeout, TimeoutWhen
<1>3. CASE Run
  BY <1>3 DEF Run, TrackerResult, TrackerResultFor, Purchased, NotPurchased, WaitTimer
<1>4. CASE TimerFires \/ DeleteEntry \/ (\E ok \in BOOLEAN : Forward(ok)) \/ UNCHANGED vars
  BY <1>4 DEF TimerFires, DeleteEntry, Forward, vars
<1> QED BY <1>1, <1>2, <1>3, <1>4 DEF Next

\* Results are posted in two places: the success when the last group is
\* bought, the failure when the timer ends the loop (fs/tracker.go:81-110, 143).
LEMMA PostedOnce ==
  ASSUME Inv, [Next]_vars
  PROVE  \/ posted' = posted
         \/ \E ok \in BOOLEAN : /\ posted \subseteq {TRUE} \ {ok}
                                /\ posted' = posted \cup {ok} /\ local' = local
                                /\ ok => \A g \in Groups : local[g] # "none"
<1>1. posted \subseteq BOOLEAN
  BY DEF Inv, TypeOK
<1>2. ASSUME NEW g \in Groups, NEW n \in 1 .. Len(purchases[g]), Purchased(g, n)
      PROVE  \/ posted' = posted
             \/ /\ posted = {} /\ posted' = posted \cup {TRUE} /\ local' = local
                /\ \A h \in Groups : local[h] # "none"
  <2>1. /\ posted' = posted \/ (posted' = posted \cup {TRUE} /\ TRUE \in posted')
        /\ running /\ local' = local
    <3>1. IF unpurchasedCnt' = 0 THEN posted' = posted \cup {TRUE} ELSE posted' = posted
      BY <1>2 DEF Purchased, Terminate
    <3> QED BY <1>2, <3>1 DEF Purchased
  <2>2. fileState[g] = "PURCHASING"
    BY <1>2 DEF Purchased, Inv, LatestIsOpen, Last
  <2>3. posted = {}
    BY <1>1, <2>1, <2>2 DEF Inv, PostedIsTrue, Unpurchased
  <2>4. TRUE \in posted' => \A h \in Groups : local'[h] # "none"
    BY <1>2, PurchasedStep DEF Inv, PostedIsTrue, BoughtIsHeld, Unpurchased, Last
  <2> QED BY <2>1, <2>3, <2>4
<1>3. CASE WaitTimer
  <2>1. posted \subseteq {TRUE} \ {FALSE} /\ posted' = posted \cup {FALSE} /\ local' = local
    BY <1>1, <1>3 DEF WaitTimer, Inv, PostedIsTrue
  <2> QED BY <2>1
<1>4. ASSUME NEW t \in Trackers, NEW listing \in [Groups -> SUBSET Peers],
             TrackerResult(t, listing)
      PROVE  posted' = posted
  BY <1>4 DEF TrackerResult, TrackerResultFor, results
<1>5. ASSUME NEW g \in Groups, NEW n \in 1 .. Len(purchases[g]),
             NotPurchased(g, n) \/ Attempt(g, n)
      PROVE  posted' = posted
  BY <1>5 DEF NotPurchased, Attempt, Sell, SellPanics, DataPack, PurchaseTimeout,
              TimeoutWhen, results
<1>6. CASE TimerFires \/ DeleteEntry \/ (\E ok \in BOOLEAN : Forward(ok)) \/ UNCHANGED vars
  BY <1>6 DEF TimerFires, DeleteEntry, Forward, vars, results
<1> QED BY <1>2, <1>3, <1>4, <1>5, <1>6 DEF Next, Run

\* The session does for the worker what module Fetch says: every step stores
\* a group, posts a result that is true and in its place, or is not seen.
THEOREM Implements == Spec => ImplementsFetch
<1>1. Init => F!Init
  BY DEF Init, F!Init
<1>2. Inv /\ [Next]_vars => [F!Next]_(F!fvars)
  <2> SUFFICES ASSUME Inv, [Next]_vars PROVE F!Next \/ UNCHANGED F!fvars
    OBVIOUS
  <2> DEFINE held == {g \in Groups : local[g] # "none"}
  <2>1. CASE local' = local /\ posted' = posted
    BY <2>1 DEF F!fvars
  <2>2. CASE posted' = posted /\ local' # local
    <3>1. PICK g \in Groups : local[g] = "none" /\ local' = [local EXCEPT ![g] = "bought"]
      BY <2>2, StoredByPack DEF Inv
    <3>2. held' = held \cup {g}
      BY <3>1 DEF Inv, TypeOK
    <3> QED BY <2>2, <3>2 DEF F!Next, F!Arrive
  <2>3. CASE posted' # posted
    <3>1. PICK ok \in BOOLEAN : /\ posted \subseteq {TRUE} \ {ok}
                                /\ posted' = posted \cup {ok} /\ local' = local
                                /\ ok => \A g \in Groups : local[g] # "none"
      BY <2>3, PostedOnce
    <3>2. F!Post(ok)
      BY <3>1 DEF F!Post
    <3> QED BY <3>2 DEF F!Next
  <2> QED BY <2>1, <2>2, <2>3
<1> QED BY <1>1, <1>2, Invariance, PTL DEF Spec, ImplementsFetch, F!Spec
=============================================================================
