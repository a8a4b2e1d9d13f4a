------------------------------ MODULE SeqQueue ------------------------------
(***************************************************************************)
(* What the window of a multi packet transfer needs of its queue           *)
(* (net/multipack.go): entries leave in the order they came, at most       *)
(* Capacity at a time; each has a sequence number, one more than that of   *)
(* the entry before it, in a ring of SeqSpace numbers; an entry that is    *)
(* waiting may be exchanged for another one.                               *)
(***************************************************************************)
EXTENDS Integers, Sequences

CONSTANTS Items, Capacity, SeqSpace, StartSeq

VARIABLES
    waiting,   \* the entries, oldest first
    first,     \* the sequence number of the oldest, or of the next to come
    next       \* the sequence number of the next to come

qvars == <<waiting, first, next>>

Init == waiting = <<>> /\ first = StartSeq /\ next = StartSeq

Push(x) ==
    /\ Len(waiting) < Capacity
    /\ waiting' = Append(waiting, x)
    /\ next' = (next + 1) % SeqSpace
    /\ UNCHANGED first

Pop ==
    /\ waiting # <<>>
    /\ waiting' = Tail(waiting)
    /\ first' = (first + 1) % SeqSpace
    /\ UNCHANGED next

Exchange(i, x) ==
    /\ waiting' = [waiting EXCEPT ![i] = x]
    /\ UNCHANGED <<first, next>>

Next ==
    \/ \E x \in Items : Push(x)
    \/ Pop
    \/ \E i \in 1 .. Len(waiting), x \in Items : Exchange(i, x)

Spec == Init /\ [][Next]_qvars
=============================================================================
