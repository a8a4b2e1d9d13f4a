----------------------------- MODULE MCTwoTasks -----------------------------
(* Instances of TwoTasks for TLC. *)
EXTENDS TwoTasks, TLC

CONSTANTS m, w1, w2, a, b

MCListeners == {"CPROC_WAIT", "CPROC_RES", "CPROC_META", "TPROC_RECEIVER"}

MCSetup(i, j, last, joined, leaving) ==
    [ids |-> a :> i @@ b :> j, last |-> last, joined |-> joined, leaving |-> leaving]

\* Both on the static handler; handlers of their own; factories whose next id
\* is 0; nodes that may leave.
MCSetups == {MCSetup(0, 0, 0, {m, w1}, {}), MCSetup(1, 2, 0, {m, w1}, {}),
             MCSetup(1, 2, 3, {m, w1}, {}), MCSetup(1, 2, 0, {m, w1}, {m, w1}),
             MCSetup(1, 2, 0, {m, w1, w2}, {w2})}
=============================================================================
