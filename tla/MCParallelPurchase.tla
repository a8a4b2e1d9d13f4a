------------------------- MODULE MCParallelPurchase -------------------------
(* Instances of ParallelPurchase for TLC. *)
EXTENDS ParallelPurchase, TLC

CONSTANTS p1, p2, t1, t2, g1, g2

Stock(a, b) == g1 :> a @@ g2 :> b

\* Each peer is good for one group, or one peer is good for both.
MCStock == {p1 :> Stock("right", "other") @@ p2 :> Stock("missing", "right"),
            p1 :> Stock("right", "right") @@ p2 :> Stock("other", "missing")}

\* The node has nothing, or something under the keys of the first group.
MCLocal == {Stock("none", "none"), Stock("before", "none")}
=============================================================================
