----------------------------- MODULE MCCalcTask -----------------------------
(* Instances of CalcTask for TLC. *)
EXTENDS CalcTask, TLC

CONSTANTS w1, w2, w3, w4, g1, g2

\* A byte has 3 values and a hash 2 bytes: hashes are 0 .. 8, and those
\* from 3 on have a top byte.  Keys of which some overflow with some answers.
MCKeys == w1 :> 0 @@ w2 :> 2 @@ w3 :> 5
MCKeys4 == MCKeys @@ w4 :> 3

\* With hash 1, a key that leaves the sum without a top byte, and one that does not.
MCKeys2 == w1 :> 0 @@ w2 :> 2
=============================================================================
