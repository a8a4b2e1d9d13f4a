---------------------------- MODULE MCP2PServer ----------------------------
(* B is the node whose static address the others know, as in main.go.         *)
EXTENDS P2PServer

A == {1}
B == {}
Absent == {2}

TwoNodes == {A, B}
OnlyB    == {B}
PeersOfB == [n \in Node |-> {B} \ {n}]

\* What A and what B asks for later, and the messages the applications send.
\* The network holds any number of datagrams.
Plan(wantA, wantB, send) ==
  [want |-> [n \in Node |-> IF n = A THEN wantA ELSE wantB], send |-> send, room |-> 99]

PlanNone   == {Plan({}, {}, {})}
PlanAbsent == {Plan({Absent}, {}, {})}
PlanBack   == {Plan({}, {A}, {<<A, B>>})}
\* The routes to the absent node lead each of the two to the other one, so that
\* there are new messages for it all the time; two datagrams are on the way.
PlanLoop   == {[Plan({Absent}, {Absent}, {}) EXCEPT !.room = 2]}
PlanBackOrLoop == PlanBack \cup PlanLoop

NoExpiry  == [n \in Node |-> 0]
ExpiryAtA == [n \in Node |-> IF n = A THEN 1 ELSE 0]
\* With two timers DeadEntryIsLeaving fails, after some 40 steps.
TwiceAtA  == [n \in Node |-> IF n = A THEN 2 ELSE 0]
=============================================================================
