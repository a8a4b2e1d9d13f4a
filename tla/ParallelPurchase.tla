--------------------------- MODULE ParallelPurchase ---------------------------
(***************************************************************************)
(* One ParalleledPurchaseSession (fs/tracker.go): a node asks trackers who *)
(* holds the key groups it needs and buys every group from one peer after  *)
(* another until the hash of what it got is right.  Each purchase is a     *)
(* PurchaseSession of its own with a SellSession at the peer               *)
(* (fs/purchase.go), both started by their file system, whose run loop     *)
(* (fs/fs.go) also hands the results on.                                   *)
(*                                                                         *)
(* Groups have pairwise different keys.  The files a peer sells for a      *)
(* group are "right" when they have the requested hash, "other" when they  *)
(* are different files under the same keys.  The node's own are "bought"   *)
(* when a purchase has stored them, and "before" when it held something    *)
(* under the keys already, of whatever content: nothing replaces it.       *)
(***************************************************************************)
EXTENDS Integers, Sequences, FiniteSets

CONSTANTS
    Groups, Peers, Trackers,
    StockChoices,    \* what the peers may hold: functions to Stocks
    LocalChoices     \* what the node itself may hold beforehand

Stocks == {"right", "other", "missing"}
Locals == {"none", "before", "bought"}

ASSUME SetsAssumption == IsFiniteSet(Groups) /\ IsFiniteSet(Peers)
ASSUME ChoicesAssumption == /\ StockChoices \subseteq [Peers -> [Groups -> Stocks]]
                            /\ LocalChoices \subseteq [Groups -> {"none", "before"}]

VARIABLES
    running,         \* the session's loop has not returned
    waitTimer,       \* "running", "fired" (its channel is full), "stopped"
    fileState,       \* TrackerSessionState of each group
    peerGroup,       \* peers known to hold a group and not tried since
    unpurchasedCnt,
    asked,           \* trackers whose answer is still to come
    purchases,       \* purchases[g]: the PurchaseSessions for g, in order
    stock, crashed,  \* what the peers hold; peers whose process panicked
    local,           \* what the node's file system holds
    posted,          \* results terminate() has posted to the file system
    forwarded,       \* those its goroutines took up ...
    delivered,       \* ... and those that reached the user's channel
    userEntry        \* userParalleledPurchaseResultChans[id] is there

session == <<running, waitTimer, fileState, peerGroup, unpurchasedCnt>>
results == <<posted, forwarded, delivered, userEntry>>
vars == <<session, asked, purchases, stock, crashed, local, results>>

\* A purchase waits for its pack ("asked", then "right" or "other" when a
\* pack is on its way), its result is on its way ("ok", "failed"), or done.
Waiting == {"asked", "right", "other"}
Purchase == [peer : Peers, stage : Waiting \cup {"ok", "failed", "done"}]

TypeOK ==
    /\ running \in BOOLEAN
    /\ waitTimer \in {"running", "fired", "stopped"}
    /\ fileState \in [Groups -> {"UNKNOWN", "PURCHASING", "PURCHASED"}]
    /\ peerGroup \in [Groups -> SUBSET Peers]
    /\ unpurchasedCnt \in 0 .. Cardinality(Groups)
    /\ asked \subseteq Trackers
    /\ purchases \in [Groups -> Seq(Purchase)]
    /\ stock \in [Peers -> [Groups -> Stocks]]
    /\ crashed \subseteq Peers
    /\ local \in [Groups -> Locals]
    /\ posted \subseteq BOOLEAN
    /\ forwarded \subseteq BOOLEAN
    /\ delivered \subseteq BOOLEAN
    /\ userEntry \in BOOLEAN

\* The session has been started: it has asked its trackers and set its timer.
Init ==
    /\ running = TRUE /\ waitTimer = "running"
    /\ fileState = [g \in Groups |-> "UNKNOWN"]
    /\ peerGroup = [g \in Groups |-> {}]
    /\ unpurchasedCnt = Cardinality(Groups)
    /\ asked = Trackers
    /\ purchases = [g \in Groups |-> <<>>]
    /\ stock \in StockChoices /\ crashed = {}
    /\ local \in LocalChoices
    /\ posted = {} /\ forwarded = {} /\ delivered = {} /\ userEntry = TRUE

-----------------------------------------------------------------------------
(* The session *)

\* purchase(g, p) for every g in ask with p = from[g]: the file system
\* starts a PurchaseSession, which sends its request.
PurchaseFrom(ask, from) ==
    purchases' = [g \in Groups |->
        IF g \in ask THEN Append(purchases[g], [peer |-> from[g], stage |-> "asked"])
                     ELSE purchases[g]]

\* The answer of a tracker, when the groups in ask are to be asked for.
TrackerResultFor(t, listing, ask) ==
    /\ running /\ t \in asked
    /\ asked' = asked \ {t}
    /\ fileState' = [g \in Groups |-> IF g \in ask THEN "PURCHASING" ELSE fileState[g]]
    /\ \E from \in [ask -> Peers] :
        /\ \A g \in ask : from[g] \in listing[g]
        /\ PurchaseFrom(ask, from)
    /\ peerGroup' = [g \in Groups |-> peerGroup[g] \cup listing[g]]
    /\ UNCHANGED <<running, waitTimer, unpurchasedCnt, stock, crashed, local, results>>

\* Mutants: a group that has been bought is asked for again, a group that is
\* being bought is.
TrackerResultTwice(t, listing) ==
    TrackerResultFor(t, listing,
        {g \in Groups : listing[g] # {} /\ fileState[g] # "PURCHASING"})
TrackerResultEager(t, listing) ==
    TrackerResultFor(t, listing,
        {g \in Groups : listing[g] # {} /\ fileState[g] # "PURCHASED"})

\* A tracker lists peers for every group.  A group nobody is being asked
\* for is bought from the first peer listed, in no particular order.
TrackerResult(t, listing) ==
    TrackerResultFor(t, listing,
        {g \in Groups : listing[g] # {} /\ fileState[g] = "UNKNOWN"})

\* terminate(ok): a timer that fired already keeps its event.
Terminate(ok) ==
    /\ waitTimer' = IF waitTimer = "running" THEN "stopped" ELSE waitTimer
    /\ posted' = posted \cup {ok}

Done(g, n) == [purchases[g] EXCEPT ![n].stage = "done"]

\* A group was bought.  After the last one the session posts its success,
\* but its loop goes on.
Purchased(g, n) ==
    /\ running /\ purchases[g][n].stage = "ok"
    /\ purchases' = [purchases EXCEPT ![g] = Done(g, n)]
    /\ peerGroup' = [peerGroup EXCEPT ![g] = @ \ {purchases[g][n].peer}]
    /\ fileState' = [fileState EXCEPT ![g] = "PURCHASED"]
    /\ unpurchasedCnt' = unpurchasedCnt - 1
    /\ IF unpurchasedCnt' = 0 THEN Terminate(TRUE) ELSE UNCHANGED <<waitTimer, posted>>
    /\ UNCHANGED <<running, asked, stock, crashed, local, forwarded, delivered, userEntry>>

\* Mutant: the group is given up although other peers are known.
NotPurchasedGivesUp(g, n) ==
    /\ running /\ purchases[g][n].stage = "failed"
    /\ peerGroup' = [peerGroup EXCEPT ![g] = @ \ {purchases[g][n].peer}]
    /\ fileState' = [fileState EXCEPT ![g] = "UNKNOWN"]
    /\ purchases' = [purchases EXCEPT ![g] = Done(g, n)]
    /\ UNCHANGED <<running, waitTimer, unpurchasedCnt, asked, stock, crashed, local, results>>

\* A purchase failed: the peer is forgotten and another one is asked.
NotPurchased(g, n) ==
    LET others == peerGroup[g] \ {purchases[g][n].peer} IN
    /\ running /\ purchases[g][n].stage = "failed"
    /\ peerGroup' = [peerGroup EXCEPT ![g] = others]
    /\ IF others = {}
       THEN /\ fileState' = [fileState EXCEPT ![g] = "UNKNOWN"]
            /\ purchases' = [purchases EXCEPT ![g] = Done(g, n)]
       ELSE /\ fileState' = [fileState EXCEPT ![g] = "PURCHASING"]
            /\ \E p \in others : purchases' =
                 [purchases EXCEPT ![g] = Append(Done(g, n), [peer |-> p, stage |-> "asked"])]
    /\ UNCHANGED <<running, waitTimer, unpurchasedCnt, asked, stock, crashed, local, results>>

\* Mutant: the session ends without a word.
WaitTimerSilent ==
    /\ running /\ waitTimer = "fired"
    /\ waitTimer' = "stopped"
    /\ running' = FALSE
    /\ UNCHANGED <<fileState, peerGroup, unpurchasedCnt, asked, purchases,
                   stock, crashed, local, results>>

WaitTimer ==
    /\ running /\ waitTimer = "fired"
    /\ waitTimer' = "stopped"
    /\ posted' = posted \cup {FALSE}
    /\ running' = FALSE
    /\ UNCHANGED <<fileState, peerGroup, unpurchasedCnt, asked, purchases,
                   stock, crashed, local, forwarded, delivered, userEntry>>

TimerFires ==
    /\ waitTimer = "running" /\ waitTimer' = "fired"
    /\ UNCHANGED <<running, fileState, peerGroup, unpurchasedCnt, asked,
                   purchases, stock, crashed, local, results>>

-----------------------------------------------------------------------------
(* A purchase: the n-th PurchaseSession for g and its SellSession *)

Stage(g, n, stage) == purchases' = [purchases EXCEPT ![g][n].stage = stage]

\* The peer sends the files it holds under the keys.
Sell(g, n) ==
    LET p == purchases[g][n].peer IN
    /\ purchases[g][n].stage = "asked" /\ p \notin crashed
    /\ stock[p][g] # "missing"
    /\ Stage(g, n, stock[p][g])
    /\ UNCHANGED <<session, asked, stock, crashed, local, results>>

\* Get panics for a key the peer does not hold, in its file system's loop.
SellPanics(g, n) ==
    LET p == purchases[g][n].peer IN
    /\ purchases[g][n].stage = "asked" /\ p \notin crashed
    /\ stock[p][g] = "missing"
    /\ crashed' = crashed \cup {p}
    /\ UNCHANGED <<session, asked, purchases, stock, local, results>>

\* Files with the right hash are stored, except under keys that have one.
DataPack(g, n) ==
    \/ /\ purchases[g][n].stage = "right"
       /\ local' = [local EXCEPT ![g] = IF @ = "none" THEN "bought" ELSE @]
       /\ Stage(g, n, "ok")
       /\ UNCHANGED <<session, asked, stock, crashed, results>>
    \/ /\ purchases[g][n].stage = "other"
       /\ Stage(g, n, "failed")
       /\ UNCHANGED <<session, asked, stock, crashed, local, results>>

TimeoutWhen(g, n, stages) ==
    /\ purchases[g][n].stage \in stages
    /\ Stage(g, n, "failed")
    /\ UNCHANGED <<session, asked, stock, crashed, local, results>>

\* Mutant: the loop goes on after a pack, and the failure of its timer takes
\* the place of the success.
PurchaseTimeoutLate(g, n) == TimeoutWhen(g, n, Waiting \cup {"ok"})

\* The timer of the PurchaseSession; a pack that is late finds nobody.
PurchaseTimeout(g, n) == TimeoutWhen(g, n, Waiting)

-----------------------------------------------------------------------------
(* The file system hands the results to its user *)

\* A goroutine for every result looks the user's channel up and sends to it;
\* to a nil channel it sends forever.
Forward(ok) ==
    /\ ok \in posted \ forwarded
    /\ forwarded' = forwarded \cup {ok}
    /\ delivered' = IF userEntry THEN delivered \cup {ok} ELSE delivered
    /\ UNCHANGED <<session, asked, purchases, stock, crashed, local, posted, userEntry>>

\* ... and then deletes the entry.
DeleteEntry ==
    /\ userEntry /\ delivered # {}
    /\ userEntry' = FALSE
    /\ UNCHANGED <<session, asked, purchases, stock, crashed, local, posted,
                   forwarded, delivered>>

-----------------------------------------------------------------------------
Attempt(g, n) ==
    \/ Sell(g, n)
    \/ SellPanics(g, n)
    \/ DataPack(g, n)
    \/ PurchaseTimeout(g, n)

Run ==
    \/ \E t \in Trackers, listing \in [Groups -> SUBSET Peers] : TrackerResult(t, listing)
    \/ \E g \in Groups : \E n \in 1 .. Len(purchases[g]) : Purchased(g, n) \/ NotPurchased(g, n)
    \/ WaitTimer

Next ==
    \/ Run
    \/ TimerFires
    \/ \E g \in Groups : \E n \in 1 .. Len(purchases[g]) : Attempt(g, n)
    \/ \E ok \in BOOLEAN : Forward(ok)
    \/ DeleteEntry

Spec == Init /\ [][Next]_vars

\* A timer that is not stopped fires, a fired timer is an event of the
\* session's select for good, of which any other has finitely many, and a
\* goroutine that can send sends.  A tracker or a peer may stay silent.
Fairness ==
    /\ WF_vars(TimerFires)
    /\ WF_vars(WaitTimer)
    /\ WF_vars(\E ok \in BOOLEAN : Forward(ok))

FairSpec == Spec /\ Fairness

-----------------------------------------------------------------------------
(* Properties *)

Open(g) == {n \in 1 .. Len(purchases[g]) : purchases[g][n].stage # "done"}

\* A group is not left alone while a peer for it is known: whenever it is
\* UNKNOWN, every peer the trackers listed for it has failed since.  (The
\* retry of lines 154-158 is the only one; nothing polls.)
NoIdleGroup ==
    \A g \in Groups : fileState[g] = "UNKNOWN" => peerGroup[g] = {}

\* However many trackers answer while a purchase runs, no group is bought
\* from two peers at a time, and a group that is bought is not bought again.
OnePurchasePerGroup ==
    \A g \in Groups :
        Cardinality(Open(g)) = IF fileState[g] = "PURCHASING" THEN 1 ELSE 0

\* A success that was posted is true: the node has files for all groups.
SuccessMeansHeld == TRUE \in posted => \A g \in Groups : local[g] # "none"

\* What a purchase stored is not forgotten: the session has the group down
\* as bought, or the success of that purchase is still on its way to it,
\* whatever its timer, other trackers and earlier failures do in between.
StoredIsKnown ==
    \A g \in Groups : local[g] = "bought" =>
        \/ fileState[g] = "PURCHASED"
        \/ \E n \in 1 .. Len(purchases[g]) : purchases[g][n].stage = "ok"

\* Whoever asked for the purchase gets an answer, even if no tracker and no
\* peer ever does.
UserGetsAnswer == <>(delivered # {})

\* The session keeps the promise module Fetch makes to the worker.
F == INSTANCE Fetch WITH held <- {g \in Groups : local[g] # "none"}
ImplementsFetch == F!Spec
=============================================================================
