---------------------------- MODULE MajorityVote ----------------------------
(***************************************************************************)
(* What a master promises about the result of a sub task, without any of   *)
(* the machinery: workers vote once each, with one value for every unit;   *)
(* the winner of a unit is a value no other value has more votes than, and *)
(* it is replaced only when it is overtaken; the poll begins to close with *)
(* the vote that gives a strict majority of at least MinAnswerCnt votes to *)
(* the winner of every unit.  Until it is closed votes still count.  A vote *)
(* may leave units out.                                                    *)
(***************************************************************************)
EXTENDS Integers, FiniteSets

CONSTANTS Workers, Units, Space, NoAnswer, MinAnswerCnt

VARIABLES voted, vote, winner, phase

vvars == <<voted, vote, winner, phase>>

\* Of the voters V with the votes f: how many are for h, whether no value has
\* more, and whether the values win have a majority of enough votes.
Support(V, f, i, h) == Cardinality({w \in V : f[w][i] = h})

IsMode(V, f, i, h) == \A g \in Space : Support(V, f, i, g) <= Support(V, f, i, h)

Majority(V, f, win) ==
    /\ Cardinality(V) >= MinAnswerCnt
    /\ \A i \in Units : 2 * Support(V, f, i, win[i]) > Cardinality(V)

Ballot == [Units -> Space \cup {NoAnswer}]

Init ==
    /\ voted = {}
    /\ vote = [w \in Workers |-> [i \in Units |-> NoAnswer]]
    /\ winner \in [Units -> Space]
    /\ phase = "open"

\* A worker's first vote is counted; the winners follow it.
Vote(w, a) ==
    /\ w \notin voted
    /\ voted' = voted \cup {w}
    /\ vote' = [vote EXCEPT ![w] = a]
    /\ winner' \in [Units -> Space]
    /\ \A i \in Units :
          /\ IsMode(voted', vote', i, winner'[i])
          /\ winner'[i] = winner[i] \/ ~IsMode(voted', vote', i, winner[i])

\* A worker votes; the poll starts to close when this settles every unit.
Cast(w, a) ==
    /\ phase \in {"open", "closing"}
    /\ Vote(w, a)
    /\ phase' = IF Majority(voted', vote', winner') THEN "closing" ELSE phase

Close ==
    /\ phase = "closing"
    /\ phase' = "closed"
    /\ UNCHANGED <<voted, vote, winner>>

\* The contract could not be deployed.
Stop ==
    /\ phase \in {"open", "closing"}
    /\ phase' = "stopped"
    /\ UNCHANGED <<voted, vote, winner>>

\* The master dies of a vote, of which it has counted some units.
DieVoting(w, a) ==
    /\ phase \in {"open", "closing"}
    /\ Vote(w, a)
    /\ phase' = "stopped"

Next ==
    \/ \E w \in Workers, a \in Ballot : Cast(w, a)
    \/ Close
    \/ Stop
    \/ \E w \in Workers, a \in Ballot : DieVoting(w, a)

Spec == Init /\ [][Next]_vvars
=============================================================================
