-------------------------- MODULE LoopedQueueProofs --------------------------
(***************************************************************************)
(* Theorems about LoopedQueue, for every size of the ring, every number of *)
(* sequence numbers and every first one.                                   *)
(***************************************************************************)
EXTENDS LoopedQueue, SequenceTheorems, TLAPS

-----------------------------------------------------------------------------
(* Remainders by a divisor that is not a number *)

\* A remainder is an integer below the divisor (net/queue.go:28).
LEMMA ModRange == ASSUME NEW n \in Int, NEW m \in Nat \ {0}
                  PROVE  n % m \in 0 .. m - 1
  BY SMTT(30)

\* A number below the divisor is its own remainder.
LEMMA ModSmall == ASSUME NEW n \in Nat, NEW m \in Nat \ {0}, n < m
                  PROVE  n % m = n
  BY SMTT(30)

\* One turn of the ring: from the last slot on to the first.
LEMMA ModOnce == ASSUME NEW n \in Nat, NEW m \in Nat \ {0}, m <= n, n < 2 * m
                 PROVE  n % m = n - m
  BY SMTT(30)

\* One turn back: a difference of two positions may be negative.
LEMMA ModNegative == ASSUME NEW n \in Int, NEW m \in Nat \ {0}, -m <= n, n < 0
                     PROVE  n % m = n + m
  BY SMTT(30)

-----------------------------------------------------------------------------
(* Positions in the ring *)

\* The distance of slot id from slot st, the slot of the i-th entry when the
\* first is in slot st, the slot after s, and the entries from st up to en.
Dist(st, id) == Wrap(id - st + Size + 1) % (Size + 1)
Slot(st, i) == (st + i - 1) % (Size + 1)
After(s) == (s + 1) % (Size + 1)
Entries(st, en, d) == [i \in 1 .. Dist(st, en) |-> d[Slot(st, i)]]

\* The distance without remainders: that the index calculation does not wrap
\* is what the bound on Size is for (net/queue.go:28, 40).
LEMMA DistIs ==
  ASSUME NEW st \in Slots, NEW id \in Slots
  PROVE  /\ Dist(st, id) = IF id >= st THEN id - st ELSE id - st + Size + 1
         /\ Dist(st, id) \in 0 .. Size
<1> DEFINE n == id - st + Size + 1
<1>1. Size \in Nat /\ SeqSpace \in Nat \ {0} /\ Size + 1 \in Nat \ {0}
  BY SizeAssumption
<1>2. id \in 0 .. Size /\ st \in 0 .. Size
  BY DEF Slots
<1>3. n \in Nat /\ n < SeqSpace /\ n < 2 * (Size + 1) /\ n = id - st + Size + 1
  BY <1>1, <1>2, SizeAssumption
<1>4. Dist(st, id) = n % (Size + 1)
  <2>1. Wrap(n) = n
    BY <1>1, <1>3, ModSmall DEF Wrap
  <2> QED BY <2>1 DEF Dist
<1> HIDE DEF n
<1>5. CASE id >= st
  <2>1. Size + 1 <= n
    BY <1>1, <1>2, <1>3, <1>5
  <2>2. n % (Size + 1) = n - (Size + 1)
    BY ONLY <1>1, <1>3, <2>1, ModOnce
  <2> QED BY <1>1, <1>2, <1>3, <1>4, <1>5, <2>2
<1>6. CASE id < st
  <2>1. n % (Size + 1) = n
    BY <1>1, <1>2, <1>3, <1>6, ModSmall
  <2> QED BY <1>1, <1>2, <1>3, <1>4, <1>6, <2>1
<1> QED BY <1>2, <1>5, <1>6

\* The slot of the i-th entry without remainders (net/queue.go:78, 86).
LEMMA SlotIs ==
  ASSUME NEW st \in Slots, NEW i \in 1 .. Size + 1
  PROVE  /\ Slot(st, i) = IF st + i - 1 <= Size THEN st + i - 1 ELSE st + i - 1 - (Size + 1)
         /\ Slot(st, i) \in Slots
<1> DEFINE n == st + i - 1
<1>1. Size \in Nat /\ Size + 1 \in Nat \ {0} /\ st \in 0 .. Size /\ i \in 1 .. Size + 1
  BY SizeAssumption DEF Slots
<1>2. n \in Nat /\ n < 2 * (Size + 1) /\ n = st + i - 1
  BY <1>1
<1> HIDE DEF n
<1>3. CASE n <= Size
  <2>1. n % (Size + 1) = n
    BY <1>1, <1>2, <1>3, ModSmall
  <2> QED BY <1>1, <1>2, <1>3, <2>1 DEF Slot, Slots
<1>4. CASE n > Size
  <2>1. Size + 1 <= n
    BY <1>1, <1>2, <1>4
  <2>2. n % (Size + 1) = n - (Size + 1)
    BY ONLY <1>1, <1>2, <2>1, ModOnce
  <2> QED BY <1>1, <1>2, <1>4, <2>2 DEF Slot, Slots
<1> QED BY <1>1, <1>2, <1>3, <1>4

\* Distance and position are inverse to each other (net/queue.go:40).
LEMMA SlotOfDist ==
  ASSUME NEW st \in Slots, NEW id \in Slots
  PROVE  Dist(st, id) + 1 \in 1 .. Size + 1 /\ Slot(st, Dist(st, id) + 1) = id
<1>1. Size \in Nat /\ st \in 0 .. Size /\ id \in 0 .. Size
  BY SizeAssumption DEF Slots
<1>2. /\ Dist(st, id) = IF id >= st THEN id - st ELSE id - st + Size + 1
      /\ Dist(st, id) \in 0 .. Size
  BY DistIs
<1> DEFINE i == Dist(st, id) + 1
<1>3. i \in 1 .. Size + 1
  BY <1>1, <1>2
<1>4. Slot(st, i) = IF st + i - 1 <= Size THEN st + i - 1 ELSE st + i - 1 - (Size + 1)
  BY <1>3, SlotIs
<1> QED BY <1>1, <1>2, <1>3, <1>4

\* ... the other way round.
LEMMA DistOfSlot ==
  ASSUME NEW st \in Slots, NEW i \in 1 .. Size + 1
  PROVE  Dist(st, Slot(st, i)) = i - 1
<1>1. Size \in Nat /\ st \in 0 .. Size /\ i \in 1 .. Size + 1
  BY SizeAssumption DEF Slots
<1> QED BY <1>1, DistIs, SlotIs

\* The slot after a slot (net/queue.go:78, 86).
LEMMA AfterIs ==
  ASSUME NEW s \in Slots
  PROVE  After(s) \in Slots /\ After(s) = IF s = Size THEN 0 ELSE s + 1
<1>1. Size \in Nat /\ s \in 0 .. Size
  BY SizeAssumption DEF Slots
<1>2. CASE s = Size
  BY <1>1, <1>2, ModOnce DEF Slots, After
<1>3. CASE s # Size
  BY <1>1, <1>3, ModSmall DEF Slots, After
<1> QED BY <1>2, <1>3

-----------------------------------------------------------------------------
(* What the operations do to the entries *)

\* The entries are those of the slots between the two ends (net/queue.go:28).
LEMMA EntriesType ==
  ASSUME NEW st \in Slots, NEW en \in Slots, NEW d \in [Slots -> Items]
  PROVE  /\ Entries(st, en, d) \in Seq(Items)
         /\ Len(Entries(st, en, d)) = Dist(st, en)
<1>1. Dist(st, en) \in 0 .. Size /\ Size \in Nat
  BY DistIs, SizeAssumption
<1>2. \A i \in 1 .. Dist(st, en) : d[Slot(st, i)] \in Items
  BY <1>1, SlotIs
<1>3. Entries(st, en, d) \in [1 .. Dist(st, en) -> Items]
  BY <1>2 DEF Entries
<1> QED BY <1>1, <1>3

\* Each of them is in its slot.
LEMMA EntryIs ==
  ASSUME NEW st, NEW en, NEW d, NEW i \in 1 .. Dist(st, en)
  PROVE  Entries(st, en, d)[i] = d[Slot(st, i)]
  BY DEF Entries

\* PopFront (net/queue.go:73) takes the first entry away.
LEMMA PopEntries ==
  ASSUME NEW st \in Slots, NEW en \in Slots, NEW d \in [Slots -> Items], st # en
  PROVE  /\ Dist(After(st), en) = Dist(st, en) - 1
         /\ Entries(st, en, d) # <<>>
         /\ Entries(After(st), en, d) = Tail(Entries(st, en, d))
<1>1. Size \in Nat /\ st \in 0 .. Size /\ en \in 0 .. Size
  BY SizeAssumption DEF Slots
<1>2. After(st) \in Slots /\ After(st) = IF st = Size THEN 0 ELSE st + 1
  BY AfterIs
<1>3. Dist(After(st), en) = Dist(st, en) - 1 /\ Dist(st, en) \in 1 .. Size
  <2>1. /\ Dist(st, en) = IF en >= st THEN en - st ELSE en - st + Size + 1
        /\ Dist(st, en) \in 0 .. Size
    BY DistIs
  <2>2. Dist(After(st), en) = IF en >= After(st) THEN en - After(st)
                                                 ELSE en - After(st) + Size + 1
    BY <1>2, DistIs
  <2>3. CASE st = Size
    BY <1>1, <1>2, <2>1, <2>2, <2>3
  <2>4. CASE st # Size
    BY <1>1, <1>2, <2>1, <2>2, <2>4
  <2> QED BY <2>3, <2>4
<1> DEFINE old == Entries(st, en, d)
           new == Entries(After(st), en, d)
<1>4. /\ old \in Seq(Items) /\ Len(old) = Dist(st, en) /\ old # <<>>
      /\ new \in Seq(Items) /\ Len(new) = Dist(st, en) - 1
  BY <1>2, <1>3, EntriesType
<1>5. ASSUME NEW i \in 1 .. Dist(st, en) - 1 PROVE new[i] = old[i + 1]
  <2>1. /\ i \in 1 .. Size /\ i \in 1 .. Size + 1 /\ i + 1 \in 1 .. Size + 1
        /\ i + 1 \in 1 .. Dist(st, en) /\ i \in 1 .. Dist(After(st), en)
    BY <1>1, <1>3
  <2>2. Slot(After(st), i) = Slot(st, i + 1)
    BY <1>1, <1>2, <2>1, SlotIs
  <2>3. old[i + 1] = d[Slot(st, i + 1)] /\ new[i] = d[Slot(After(st), i)]
    BY <2>1, EntryIs
  <2> QED BY <2>2, <2>3
<1> HIDE DEF old, new
<1>6. new = Tail(old)
  BY <1>3, <1>4, <1>5
<1> QED BY <1>3, <1>4, <1>6 DEF old, new

\* PushBack (net/queue.go:83) puts an entry behind the last one.
LEMMA PushEntries ==
  ASSUME NEW st \in Slots, NEW en \in Slots, NEW d \in [Slots -> Items], NEW x \in Items,
         Dist(st, en) # Size
  PROVE  /\ Dist(st, After(en)) = Dist(st, en) + 1
         /\ Len(Entries(st, en, d)) < Size
         /\ Entries(st, After(en), [d EXCEPT ![en] = x]) = Append(Entries(st, en, d), x)
<1>1. Size \in Nat /\ st \in 0 .. Size /\ en \in 0 .. Size
  BY SizeAssumption DEF Slots
<1>2. After(en) \in Slots /\ After(en) = IF en = Size THEN 0 ELSE en + 1
  BY AfterIs
<1>3. Dist(st, After(en)) = Dist(st, en) + 1 /\ Dist(st, en) \in 0 .. Size - 1
  <2>1. /\ Dist(st, en) = IF en >= st THEN en - st ELSE en - st + Size + 1
        /\ Dist(st, en) \in 0 .. Size
    BY DistIs
  <2>2. Dist(st, After(en)) = IF After(en) >= st THEN After(en) - st
                                                 ELSE After(en) - st + Size + 1
    BY <1>2, DistIs
  <2>3. CASE en = Size
    BY <1>1, <1>2, <2>1, <2>2, <2>3
  <2>4. CASE en # Size
    BY <1>1, <1>2, <2>1, <2>2, <2>4
  <2> QED BY <2>3, <2>4
<1> DEFINE n == Dist(st, en)
           e == [d EXCEPT ![en] = x]
           old == Entries(st, en, d)
           new == Entries(st, After(en), e)
<1>4. /\ e \in [Slots -> Items] /\ e[en] = x
      /\ \A s \in Slots : s # en => e[s] = d[s]
  OBVIOUS
<1> HIDE DEF e
<1>5. /\ old \in Seq(Items) /\ Len(old) = n
      /\ new \in Seq(Items) /\ Len(new) = n + 1
  BY <1>2, <1>3, <1>4, EntriesType
<1>6. new[n + 1] = x
  <2>1. Slot(st, n + 1) = en
    BY SlotOfDist
  <2>2. n + 1 \in 1 .. Dist(st, After(en))
    BY <1>3
  <2>3. new[n + 1] = e[Slot(st, n + 1)]
    BY <2>2, EntryIs
  <2> QED BY <1>4, <2>1, <2>3
<1>7. ASSUME NEW i \in 1 .. n PROVE new[i] = old[i]
  <2>1. i \in 1 .. Size + 1 /\ i \in 1 .. Dist(st, After(en)) /\ i - 1 # n
    BY <1>1, <1>3
  <2>2. Slot(st, i) \in Slots /\ Slot(st, i) # en
    BY <2>1, SlotIs, DistOfSlot
  <2>3. old[i] = d[Slot(st, i)] /\ new[i] = e[Slot(st, i)]
    BY <2>1, EntryIs
  <2> QED BY <1>4, <2>2, <2>3
<1> HIDE DEF old, new, n
<1>8. n \in Nat /\ n < Size
  BY <1>1, <1>3 DEF n
<1>9. new = Append(old, x)
  BY <1>5, <1>6, <1>7, <1>8
<1> QED BY <1>3, <1>5, <1>8, <1>9 DEF old, new, n, e

\* A function, of slots or of places in the queue, with another value at i.
Exchanged(f, i, x) == [f EXCEPT ![i] = x]

\* Set (net/queue.go:46) exchanges one entry.
LEMMA SetEntries ==
  ASSUME NEW st \in Slots, NEW en \in Slots, NEW d \in [Slots -> Items], NEW x \in Items,
         NEW id \in Slots, Dist(st, id) < Dist(st, en)
  PROVE  /\ Dist(st, id) + 1 \in 1 .. Len(Entries(st, en, d))
         /\ Entries(st, en, Exchanged(d, id, x))
                = Exchanged(Entries(st, en, d), Dist(st, id) + 1, x)
<1> DEFINE n == Dist(st, en)
           e == [d EXCEPT ![id] = x]
           k == Dist(st, id) + 1
           old == Entries(st, en, d)
           new == Entries(st, en, e)
<1>1. Size \in Nat /\ n \in 0 .. Size /\ Dist(st, id) \in 0 .. Size
  BY SizeAssumption, DistIs
<1>2. k \in 1 .. n /\ Slot(st, k) = id
  BY <1>1, SlotOfDist
<1>3. /\ e \in [Slots -> Items] /\ e[id] = x
      /\ \A s \in Slots : s # id => e[s] = d[s]
  OBVIOUS
<1> HIDE DEF e
<1>4. /\ old \in Seq(Items) /\ Len(old) = n
      /\ new \in Seq(Items) /\ Len(new) = n
  BY <1>3, EntriesType
<1>5. \A i \in 1 .. n : old[i] = d[Slot(st, i)] /\ new[i] = e[Slot(st, i)]
  BY EntryIs
<1>6. ASSUME NEW i \in 1 .. n, i # k PROVE new[i] = old[i]
  <2>1. i \in 1 .. Size + 1 /\ i - 1 # Dist(st, id)
    BY <1>1, <1>6
  <2>2. Slot(st, i) \in Slots /\ Slot(st, i) # id
    BY <2>1, SlotIs, DistOfSlot
  <2> QED BY <1>3, <1>5, <2>2
<1>7. new[k] = x
  BY <1>2, <1>3, <1>5
<1> HIDE DEF old, new, n, k
<1>8. new = [old EXCEPT ![k] = x]
  BY <1>1, <1>2, <1>4, <1>6, <1>7
<1> QED BY <1>2, <1>4, <1>8 DEF old, new, k, e, Exchanged

-----------------------------------------------------------------------------
(* The type invariant *)

\* Any sum or difference of sequence numbers is wrapped into one (net/queue.go:36).
LEMMA WrapType == ASSUME NEW n \in Int PROVE Wrap(n) \in Uint
<1>1. SeqSpace \in Nat \ {0}
  BY SizeAssumption
<1> QED BY <1>1, ModRange DEF Wrap, Uint

\* The number GetBySeq and SetBySeq compute is a slot of the ring, so that they
\* never index out of range (net/queue.go:54, 61).
LEMMA SeqSlot ==
  ASSUME TypeOK, NEW seq \in Uint, IsValidSeq(seq)
  PROVE  Wrap(seq - stSeq) \in Slots \cap Uint
<1>1. seq \in Int /\ stSeq \in Int /\ Size \in Nat /\ SeqSpace \in Nat
  BY SizeAssumption DEF TypeOK, Uint
<1>2. Wrap(seq - stSeq) \in 0 .. SeqSpace - 1
  BY <1>1, WrapType DEF Uint
<1>3. Length \in 0 .. Size
  BY DistIs DEF TypeOK, Length, Offset, Dist
<1> QED BY <1>1, <1>2, <1>3 DEF IsValidSeq, Slots, Uint

\* Set leaves everything but one entry alone.
LEMMA SetType ==
  ASSUME TypeOK, NEW id \in Uint, NEW x \in Items, Set(id, x)
  PROVE  TypeOK'
  BY DEF TypeOK, Set, Panics

\* Every operation keeps slots and sequence numbers in their ranges.
LEMMA TypeStep == TypeOK /\ [Next]_vars => TypeOK'
<1> SUFFICES ASSUME TypeOK, [Next]_vars PROVE TypeOK'
  OBVIOUS
<1> USE DEF TypeOK
<1>1. CASE PopFront
  <2>1. After(queueSt) \in Slots
    BY AfterIs
  <2>2. Wrap(stSeq + 1) \in Uint
    BY SizeAssumption, WrapType DEF Uint
  <2> QED BY <1>1, <2>1, <2>2 DEF PopFront, After
<1>2. ASSUME NEW x \in Items, PushBack(x) PROVE TypeOK'
  <2>1. After(queueEn) \in Slots
    BY AfterIs
  <2>2. Wrap(enSeq + 1) \in Uint
    BY SizeAssumption, WrapType DEF Uint
  <2> QED BY <1>2, <2>1, <2>2 DEF PushBack, After
<1>3. ASSUME NEW id \in Uint, NEW x \in Items, Set(id, x) PROVE TypeOK'
  BY <1>3, SetType
<1>4. ASSUME NEW seq \in Uint, NEW x \in Items, SetBySeq(seq, x) PROVE TypeOK'
  <2>1. CASE IsValidSeq(seq)
    BY <1>4, <2>1, SeqSlot, SetType DEF SetBySeq
  <2>2. CASE ~IsValidSeq(seq)
    BY <1>4, <2>2 DEF SetBySeq, vars
  <2> QED BY <2>1, <2>2
<1>5. CASE UNCHANGED vars
  BY <1>5 DEF vars
<1> QED BY <1>1, <1>2, <1>3, <1>4, <1>5 DEF Next

\* No operation, in any order and through every wrap of the sequence numbers,
\* takes the two ends off the ring (net/queue.go:73-91).
THEOREM QueueTypeCorrect == Spec => []TypeOK
<1>1. Init => TypeOK
  BY SizeAssumption, SeqAssumption, NilAssumption DEF Init, TypeOK, Slots, Uint
<1> QED BY <1>1, TypeStep, PTL DEF Spec

-----------------------------------------------------------------------------
(* The ring implements the queue *)

\* The entries that wait, in a state and in the next one.
LEMMA WaitingIs ==
  /\ Length = Dist(queueSt, queueEn)
  /\ Waiting = Entries(queueSt, queueEn, data)
  /\ Waiting' = Entries(queueSt', queueEn', data')
  BY DEF Length, Offset, Dist, Waiting, Entries, Slot

\* PopFront takes the oldest entry and its sequence number.
LEMMA PopIsPop == ASSUME TypeOK, PopFront PROVE SQ!Pop
<1> USE DEF TypeOK
<1>1. Waiting # <<>> /\ Waiting' = Tail(Waiting)
  BY WaitingIs, PopEntries DEF PopFront, After
<1> QED BY <1>1 DEF PopFront, SQ!Pop, Wrap

\* PushBack on a ring that is not full puts the entry behind the others.
LEMMA PushIsPush == ASSUME TypeOK, NEW x \in Items, PushBack(x) PROVE SQ!Push(x)
<1> USE DEF TypeOK
<1>1. Dist(queueSt, queueEn) # Size
  BY WaitingIs DEF PushBack, Full
<1>2. Len(Waiting) < Size /\ Waiting' = Append(Waiting, x)
  BY <1>1, WaitingIs, PushEntries DEF PushBack, After
<1> QED BY <1>2 DEF PushBack, SQ!Push, Wrap

\* Set exchanges an entry that waits, or does nothing.
LEMMA SetIsExchange ==
  ASSUME TypeOK, NEW id \in Uint, NEW x \in Items, Set(id, x)
  PROVE  \/ \E i \in 1 .. Len(Waiting) : SQ!Exchange(i, x)
         \/ UNCHANGED SQ!qvars
<1> USE DEF TypeOK
<1>1. CASE InUse(id) /\ ~Panics(id)
  <2>0. id \in Slots /\ queueSt \in Slots /\ queueEn \in Slots /\ data \in [Slots -> Items]
    BY <1>1 DEF Panics
  <2>1. Dist(queueSt, id) < Dist(queueSt, queueEn)
    BY <1>1, WaitingIs DEF InUse, Offset, Dist
  <2>2. /\ data' = [data EXCEPT ![id] = x]
        /\ queueSt' = queueSt /\ queueEn' = queueEn /\ stSeq' = stSeq /\ enSeq' = enSeq
    BY <1>1 DEF Set
  <2> DEFINE i == Dist(queueSt, id) + 1
  <2>3. /\ i \in 1 .. Len(Entries(queueSt, queueEn, data))
        /\ Entries(queueSt, queueEn, Exchanged(data, id, x))
                = Exchanged(Entries(queueSt, queueEn, data), i, x)
    BY <2>0, <2>1, SetEntries
  <2> HIDE DEF i
  <2>4. Waiting' = Entries(queueSt, queueEn, Exchanged(data, id, x))
    BY <2>2, WaitingIs DEF Exchanged
  <2> QED BY <2>2, <2>3, <2>4, WaitingIs DEF SQ!Exchange, Exchanged
<1>2. CASE ~(InUse(id) /\ ~Panics(id))
  BY <1>2, WaitingIs DEF Set, SQ!qvars
<1> QED BY <1>1, <1>2

\* Every operation of the ring is one of the queue's or changes nothing of it.
LEMMA QueueStep == TypeOK /\ [Next]_vars => [SQ!Next]_(SQ!qvars)
<1> SUFFICES ASSUME TypeOK, [Next]_vars PROVE [SQ!Next]_(SQ!qvars)
  OBVIOUS
<1>1. CASE PopFront
  BY <1>1, PopIsPop DEF SQ!Next
<1>2. ASSUME NEW x \in Items, PushBack(x) PROVE SQ!Next
  BY <1>2, PushIsPush DEF SQ!Next
<1>3. ASSUME NEW id \in Uint, NEW x \in Items, Set(id, x) PROVE [SQ!Next]_(SQ!qvars)
  BY <1>3, SetIsExchange DEF SQ!Next
<1>4. ASSUME NEW seq \in Uint, NEW x \in Items, SetBySeq(seq, x)
      PROVE  [SQ!Next]_(SQ!qvars)
  <2>1. CASE IsValidSeq(seq)
    BY <1>3, <1>4, <2>1, SeqSlot DEF SetBySeq
  <2>2. CASE ~IsValidSeq(seq)
    BY <1>4, <2>2, WaitingIs DEF SetBySeq, vars, SQ!qvars
  <2> QED BY <2>1, <2>2
<1>5. CASE UNCHANGED vars
  BY <1>5, WaitingIs DEF vars, SQ!qvars
<1> QED BY <1>1, <1>2, <1>3, <1>4, <1>5 DEF Next

\* The ring is a queue with Size places, whatever its size and wherever the
\* sequence numbers start (net/queue.go).
THEOREM QueueImplemented == Spec => ImplementsQueue
<1>1. Init => SQ!Init
  <2> SUFFICES ASSUME Init PROVE SQ!Init
    OBVIOUS
  <2>1. queueSt \in Slots /\ queueEn \in Slots /\ queueSt = queueEn
    BY SizeAssumption DEF Init, Slots
  <2>2. Dist(queueSt, queueEn) = 0
    BY <2>1, DistIs DEF Slots
  <2>3. Waiting = <<>>
    BY <2>2, WaitingIs DEF Entries
  <2> QED BY <2>3 DEF Init, SQ!Init
<1> QED BY <1>1, QueueStep, QueueTypeCorrect, PTL DEF Spec, ImplementsQueue, SQ!Spec

-----------------------------------------------------------------------------
(* What GetBySeq finds *)

\* The distance of two sequence numbers is right through a wrap (net/queue.go:36).
LEMMA SeqDistance ==
  ASSUME NEW st \in Uint, NEW i \in 1 .. Size
  PROVE  Wrap(Wrap(st + i - 1) - st) = i - 1
<1>1. /\ SeqSpace \in Nat \ {0} /\ st \in 0 .. SeqSpace - 1
      /\ i \in Nat /\ 1 <= i /\ i < SeqSpace
  BY SizeAssumption DEF Uint
<1>2. CASE st + i - 1 < SeqSpace
  <2>1. Wrap(st + i - 1) = st + i - 1
    BY <1>1, <1>2, ModSmall DEF Wrap
  <2>2. Wrap(st + i - 1) - st = i - 1 /\ i - 1 \in Nat /\ i - 1 < SeqSpace
    BY <1>1, <2>1
  <2> QED BY <1>1, <2>2, ModSmall DEF Wrap
<1>3. CASE st + i - 1 >= SeqSpace
  <2> DEFINE n == st + i - 1
  <2>0. n \in Nat /\ SeqSpace <= n /\ n < 2 * SeqSpace
    BY <1>1, <1>3
  <2> HIDE DEF n
  <2>1. Wrap(n) = n - SeqSpace
    BY <1>1, <2>0, ModOnce DEF Wrap
  <2> USE DEF n
  <2>2. Wrap(st + i - 1) - st = i - 1 - SeqSpace
    BY <1>1, <2>1
  <2>3. (i - 1 - SeqSpace) % SeqSpace = i - 1
    BY <1>1, ModNegative
  <2> QED BY <2>2, <2>3 DEF Wrap
<1> QED BY <1>1, <1>2, <1>3

\* While the first entry is in slot 0 GetBySeq finds the entry that has the
\* number; later on it finds one that waits, or nothing (net/queue.go:52).
LEMMA TypeFound == TypeOK => FoundBySeq
<1> SUFFICES ASSUME TypeOK, NEW i \in 1 .. Length
             PROVE  LET found == GetBySeq(Wrap(stSeq + i - 1)) IN
                    IF queueSt = 0 THEN found = Waiting[i]
                       ELSE found \in {nil} \cup {Waiting[j] : j \in 1 .. Length}
  BY DEF FoundBySeq
<1> USE DEF TypeOK
<1>1. Length = Dist(queueSt, queueEn) /\ Length \in 0 .. Size /\ Size \in Nat
  BY WaitingIs, DistIs, SizeAssumption
<1>2. i \in 1 .. Size /\ i \in 1 .. Size + 1 /\ i - 1 \in Slots /\ i - 1 < Length
  BY <1>1 DEF Slots
<1>3. Wrap(Wrap(stSeq + i - 1) - stSeq) = i - 1
  BY <1>2, SeqDistance
<1>4. GetBySeq(Wrap(stSeq + i - 1)) = Get(i - 1)
  BY <1>2, <1>3 DEF GetBySeq, IsValidSeq
<1>5. \A j \in 1 .. Length : Waiting[j] = data[Slot(queueSt, j)]
  BY <1>1, WaitingIs, EntryIs
<1>6. CASE queueSt = 0
  <2>1. Dist(queueSt, i - 1) = i - 1 /\ Slot(queueSt, i) = i - 1
    BY <1>1, <1>2, <1>6, DistIs, SlotIs DEF Slots
  <2>2. InUse(i - 1)
    BY <1>2, <2>1 DEF InUse, Offset, Dist
  <2> QED BY <1>4, <1>5, <1>6, <2>1, <2>2 DEF Get
<1>7. CASE queueSt # 0 /\ InUse(i - 1)
  <2> DEFINE j == Dist(queueSt, i - 1) + 1
  <2>1. j \in 1 .. Length
    BY <1>1, <1>2, <1>7, DistIs DEF InUse, Offset, Dist
  <2>2. data[i - 1] = Waiting[j]
    BY <1>2, <1>5, <2>1, SlotOfDist
  <2> QED BY <1>4, <1>7, <2>1, <2>2 DEF Get
<1>8. CASE queueSt # 0 /\ ~InUse(i - 1)
  BY <1>4, <1>8 DEF Get
<1> QED BY <1>6, <1>7, <1>8

\* Through every history of the ring GetBySeq returns no entry that has left it.
THEOREM FoundBySeqCorrect == Spec => []FoundBySeq
  BY QueueTypeCorrect, TypeFound, PTL
=============================================================================
