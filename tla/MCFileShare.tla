----------------------------- MODULE MCFileShare -----------------------------
(* Instances of FileShare for TLC. *)
EXTENDS FileShare

CONSTANTS p1, p2, r1, r2

Peers12(a, b) == p1 :> a @@ p2 :> b
MCSetup(asked, held, buys) == [plan |-> asked, local |-> held, buys |-> buys]

\* Two peers, one peer twice, two requests for one peer; a peer may have other
\* files under the keys.
MCSetups ==
    {MCSetup(asked, held, TRUE) : asked \in {r1 :> <<p1, p2>>, r1 :> <<p1, p1>>},
        held \in {Peers12("none", "none"), Peers12("other", "none")}}
    \cup {MCSetup(r1 :> <<p1>> @@ r2 :> <<p1>>, Peers12("none", "none"), FALSE)}
=============================================================================
