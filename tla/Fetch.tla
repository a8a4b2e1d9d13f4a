------------------------------- MODULE Fetch -------------------------------
(***************************************************************************)
(* What a worker session relies on when it has its input files fetched     *)
(* (fs.ParalleledPurchase): files arrive group by group; success is posted *)
(* at most once, and only when all groups are there; a failure is posted   *)
(* at most once and is the last word, although files may arrive after it.  *)
(* A success may well be followed by a failure.  CalcTask assumes this for *)
(* each worker, ParallelPurchase implements it.                            *)
(***************************************************************************)
EXTENDS Naturals

CONSTANT Groups

VARIABLES held, posted

fvars == <<held, posted>>

Init == held \in SUBSET Groups /\ posted = {}

Arrive(g) == held' = held \cup {g} /\ UNCHANGED posted

Post(ok) ==
    /\ posted \subseteq {TRUE} \ {ok}
    /\ ok => held = Groups
    /\ posted' = posted \cup {ok}
    /\ UNCHANGED held

Next == (\E g \in Groups : Arrive(g)) \/ (\E ok \in BOOLEAN : Post(ok))

Spec == Init /\ [][Next]_fvars
=============================================================================
