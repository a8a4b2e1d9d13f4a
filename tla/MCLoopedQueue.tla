---------------------------- MODULE MCLoopedQueue ----------------------------
(* Instances of LoopedQueue for TLC. *)
EXTENDS LoopedQueue

CONSTANTS x, y

MCItems == {x, y, nil}
=============================================================================
