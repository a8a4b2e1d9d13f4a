----------------------------- MODULE LoopedQueue -----------------------------
(***************************************************************************)
(* LoopedQueue (net/queue.go): a ring of size + 1 slots whose entries also *)
(* carry sequence numbers.  Numbers are uint32 in the code: they wrap at   *)
(* SeqSpace, also in the middle of an index calculation.                   *)
(***************************************************************************)
EXTENDS Integers, Sequences

CONSTANTS
    Items,       \* what callers store, nil among it
    nil,
    Size,        \* LoopedQueue.size
    SeqSpace,    \* 2^32 in the code
    StartSeq     \* the argument seq of NewLoopedQueue

\* Of a ring with 2^31 slots and more the index calculation overflows.
ASSUME SizeAssumption == Size \in Nat /\ SeqSpace \in Nat /\ 2 * (Size + 1) <= SeqSpace
ASSUME SeqAssumption  == StartSeq \in 0 .. SeqSpace - 1
ASSUME NilAssumption  == nil \in Items

VARIABLES data, queueSt, queueEn, stSeq, enSeq

vars == <<data, queueSt, queueEn, stSeq, enSeq>>

Slots == 0 .. Size
Uint  == 0 .. SeqSpace - 1
Wrap(n) == n % SeqSpace

TypeOK ==
    /\ data \in [Slots -> Items]
    /\ queueSt \in Slots /\ queueEn \in Slots
    /\ stSeq \in Uint /\ enSeq \in Uint

\* NewLoopedQueue(size, seq)
Init ==
    /\ data = [s \in Slots |-> nil]
    /\ queueSt = 0 /\ queueEn = 0
    /\ stSeq = StartSeq /\ enSeq = StartSeq

-----------------------------------------------------------------------------
\* Mutant: the distance without the term that keeps it from being negative.
OffsetNegative(id) == Wrap(id - queueSt) % (Size + 1)

\* How far the slot id is behind the first one.
Offset(id) == Wrap(id - queueSt + Size + 1) % (Size + 1)

Length == Offset(queueEn)
Full   == Length = Size

IsValidSeq(seq) == Wrap(seq - stSeq) < Length

\* Get and Set take any number for a slot; nil and no change when it is not in
\* use.  The distance of a number that is no slot may be below the length: then
\* data is indexed out of range, which has no value and changes nothing.
InUse(id)  == Offset(id) < Length
Panics(id) == InUse(id) /\ id \notin Slots
Get(id)   == IF InUse(id) THEN data[id] ELSE nil

\* GetBySeq takes the distance to the first sequence number for a slot.
GetBySeq(seq) == IF IsValidSeq(seq) THEN Get(Wrap(seq - stSeq)) ELSE nil

PopFront ==
    /\ queueSt # queueEn
    /\ queueSt' = (queueSt + 1) % (Size + 1)
    /\ stSeq' = Wrap(stSeq + 1)
    /\ UNCHANGED <<data, queueEn, enSeq>>

\* Mutant: the last slot is used too, so that a full ring looks empty.
PushBackIntoLast(x) ==
    /\ data' = [data EXCEPT ![queueEn] = x]
    /\ queueEn' = (queueEn + 1) % (Size + 1)
    /\ enSeq' = Wrap(enSeq + 1)
    /\ UNCHANGED <<queueSt, stSeq>>

PushBack(x) ==
    /\ ~Full
    /\ data' = [data EXCEPT ![queueEn] = x]
    /\ queueEn' = (queueEn + 1) % (Size + 1)
    /\ enSeq' = Wrap(enSeq + 1)
    /\ UNCHANGED <<queueSt, stSeq>>

Set(id, x) ==
    /\ data' = IF InUse(id) /\ ~Panics(id) THEN [data EXCEPT ![id] = x] ELSE data
    /\ UNCHANGED <<queueSt, queueEn, stSeq, enSeq>>

SetBySeq(seq, x) ==
    IF IsValidSeq(seq) THEN Set(Wrap(seq - stSeq), x) ELSE UNCHANGED vars

-----------------------------------------------------------------------------
Next ==
    \/ PopFront
    \/ \E x \in Items : PushBack(x)
    \/ \E id \in Uint, x \in Items : Set(id, x)
    \/ \E seq \in Uint, x \in Items : SetBySeq(seq, x)

Spec == Init /\ [][Next]_vars

-----------------------------------------------------------------------------
(* Properties *)

Waiting == [i \in 1 .. Length |-> data[(queueSt + i - 1) % (Size + 1)]]

\* The ring is a queue: entries leave in the order they came, at most Size of
\* them wait, the two pairs of counters tell the same length through every
\* wrap, and a Set or SetBySeq exchanges at most one entry that waits.
SQ == INSTANCE SeqQueue WITH waiting <- Waiting, first <- stSeq, next <- enSeq,
                            Capacity <- Size
ImplementsQueue == SQ!Spec

\* As long as the first entry is in slot 0, GetBySeq finds the entry that has
\* the sequence number; afterwards it finds another entry of the queue, or
\* nothing.
FoundBySeq ==
    \A i \in 1 .. Length :
        LET found == GetBySeq(Wrap(stSeq + i - 1)) IN
        IF queueSt = 0 THEN found = Waiting[i]
                       ELSE found \in {nil} \cup {Waiting[j] : j \in 1 .. Length}
=============================================================================
