--------------------------- MODULE KadTableProofs ---------------------------
(* What the operations of the routing table (KadTable) return and leave alone, *)
(* for ids of any width, any number of handlers, and lists of any length.      *)
(* A table is only asked about ids that have a bucket: an operation on any     *)
(* other id panics in the code.                                                *)
EXTENDS KadTable, Naturals, Sequences, SequenceTheorems, WellFoundedInduction,
        TLAPS

\* A table over the handlers H.
TableOf(H) == [Buckets -> Seq(H)]

\* Every set of positions has a first one, which the walks of net/kad.go from
\* the front of a list stop at.
LEMMA FirstIs ==
  ASSUME NEW S, S \subseteq Nat, S # {}
  PROVE  First(S) \in S /\ \A j \in S : First(S) <= j
<1>1. \E i \in S : \A j \in S : ~(<<j, i>> \in OpToRel(<, Nat))
  BY WFMin, NatLessThanWellFounded
<1>2. PICK i \in S : \A j \in S : ~(<<j, i>> \in OpToRel(<, Nat))
  BY <1>1
<1>3. ASSUME NEW j \in S PROVE i <= j
  <2>1. <<j, i>> \in Nat \X Nat
    OBVIOUS
  <2>2. ~(j < i)
    BY <1>2, <2>1 DEF OpToRel
  <2> QED  BY <2>2
<1> QED  BY <1>3 DEF First

\* A position that Positions finds is one in the list with the id.
LEMMA PositionsAre ==
  ASSUME NEW H, NEW list \in Seq(H), NEW ids, NEW id
  PROVE  /\ Positions(list, ids, id) \subseteq 1 .. Len(list)
         /\ Positions(list, ids, id) # {} =>
              LET i == First(Positions(list, ids, id))
              IN  i \in 1 .. Len(list) /\ list[i] \in H /\ ids[list[i]] = id
         /\ Positions(list, ids, id) = {} =>
              \A i \in 1 .. Len(list) : ids[list[i]] # id
<1>1. Positions(list, ids, id) \subseteq 1 .. Len(list)
  BY DEF Positions
<1>2. ASSUME Positions(list, ids, id) # {}
      PROVE  First(Positions(list, ids, id)) \in Positions(list, ids, id)
  BY <1>1, <1>2, FirstIs
<1> QED  BY <1>1, <1>2 DEF Positions

\* RemoveAt takes one entry out and leaves the others.
LEMMA RemoveAtIs ==
  ASSUME NEW H, NEW list \in Seq(H), NEW i \in 1 .. Len(list)
  PROVE  /\ Seqs!RemoveAt(list, i) \in Seq(H)
         /\ \A j \in DOMAIN Seqs!RemoveAt(list, i) :
              \E k \in DOMAIN list : Seqs!RemoveAt(list, i)[j] = list[k]
         /\ \A k \in DOMAIN list : k # i =>
              \E j \in DOMAIN Seqs!RemoveAt(list, i) :
                 Seqs!RemoveAt(list, i)[j] = list[k]
<1> DEFINE front == SubSeq(list, 1, i - 1)
           back  == SubSeq(list, i + 1, Len(list))
<1>1. /\ front \in Seq(H) /\ Len(front) = i - 1
      /\ \A k \in 1 .. i - 1 : front[k] = list[k]
  <2>1. \A k \in 1 .. i - 1 : list[k] \in H
    OBVIOUS
  <2>2. i - 1 \in Int /\ 1 \in Int
    OBVIOUS
  <2> QED  BY <2>1, <2>2, SubSeqProperties
<1>2. /\ back \in Seq(H) /\ Len(back) = Len(list) - i
      /\ \A k \in 1 .. Len(list) - i : back[k] = list[k + i]
  <2>1. \A k \in i + 1 .. Len(list) : list[k] \in H
    OBVIOUS
  <2>2. i + 1 \in Int /\ Len(list) \in Int /\ i \in Int
    OBVIOUS
  <2>3. /\ back \in Seq(H)
        /\ Len(back) = IF i + 1 <= Len(list) THEN Len(list) - (i + 1) + 1 ELSE 0
        /\ \A k \in 1 .. Len(list) - (i + 1) + 1 : back[k] = list[(i + 1) + k - 1]
    BY <2>1, <2>2, SubSeqProperties
  <2> QED  BY <2>2, <2>3
<1>3. Seqs!RemoveAt(list, i) = front \o back
  BY DEF Seqs!RemoveAt
<1> HIDE DEF front, back
<1>4. /\ front \o back \in Seq(H)
      /\ Len(front \o back) = Len(list) - 1
      /\ \A j \in 1 .. Len(list) - 1 :
           (front \o back)[j] = IF j <= i - 1 THEN front[j] ELSE back[j - (i - 1)]
  <2>1. Len(front) + Len(back) = Len(list) - 1
    BY <1>1, <1>2
  <2>2. /\ front \o back \in Seq(H)
        /\ Len(front \o back) = Len(front) + Len(back)
        /\ \A j \in 1 .. Len(front) + Len(back) :
             (front \o back)[j] =
               IF j <= Len(front) THEN front[j] ELSE back[j - Len(front)]
    BY <1>1, <1>2, ConcatProperties
  <2>3. \A j \in 1 .. Len(list) - 1 :
          (front \o back)[j] = IF j <= Len(front) THEN front[j] ELSE back[j - Len(front)]
    BY <2>1, <2>2
  <2> QED  BY <2>1, <2>2, <2>3, <1>1
<1>5. DOMAIN (front \o back) = 1 .. Len(list) - 1
  BY <1>4
<1>6. ASSUME NEW j \in 1 .. Len(list) - 1
      PROVE  \E k \in DOMAIN list : (front \o back)[j] = list[k]
  <2>1. CASE j <= i - 1
    <3>1. (front \o back)[j] = front[j]
      BY <2>1, <1>4
    <3>2. front[j] = list[j]
      BY <2>1, <1>1
    <3>3. j \in DOMAIN list
      OBVIOUS
    <3> HIDE <1>4, <1>5, <1>2
    <3> QED  BY <3>1, <3>2, <3>3
  <2>2. CASE ~(j <= i - 1)
    <3>1. j - (i - 1) \in 1 .. Len(list) - i /\ j + 1 \in 1 .. Len(list)
      BY <2>2
    <3>2. back[j - (i - 1)] = list[j - (i - 1) + i]
      BY <3>1, <1>2
    <3>3. j - (i - 1) + i = j + 1
      OBVIOUS
    <3>4. (front \o back)[j] = back[j - (i - 1)]
      BY <2>2, <1>4
    <3>5. (front \o back)[j] = list[j + 1]
      BY <3>2, <3>3, <3>4
    <3> QED  BY <3>1, <3>5
  <2> QED  BY <2>1, <2>2
<1>7. ASSUME NEW k \in 1 .. Len(list), k # i
      PROVE  \E j \in 1 .. Len(list) - 1 : (front \o back)[j] = list[k]
  <2>1. CASE k <= i - 1
    BY <2>1, <1>1, <1>4
  <2>2. CASE ~(k <= i - 1)
    <3>1. k - 1 \in 1 .. Len(list) - 1 /\ ~(k - 1 <= i - 1) /\ k - i \in 1 .. Len(list) - i
      BY <2>2, <1>7
    <3>2. back[k - i] = list[k - i + i]
      BY <3>1, <1>2
    <3>3. (k - 1) - (i - 1) = k - i /\ k - i + i = k
      OBVIOUS
    <3> QED  BY <3>1, <3>2, <3>3, <1>4
  <2> QED  BY <2>1, <2>2
<1>8. front \o back \in Seq(H) /\ DOMAIN list = 1 .. Len(list)
  BY <1>4
<1> HIDE DEF front, back
<1> QED  BY <1>3, <1>5, <1>6, <1>7, <1>8

\* A handler put in front of a list, and what the list then holds.
Fronted(h, list) == <<h>> \o list
Holds(list, g) == \E i \in DOMAIN list : list[i] = g

\* What is in the bucket b is what its list has somewhere.
LEMMA InBucketIs ==
  ASSUME NEW H, NEW table \in TableOf(H), NEW b \in Buckets
  PROVE  /\ table[b] \in Seq(H)
         /\ InBucket(table, b) \subseteq H
         /\ \A h : h \in InBucket(table, b) <=> Holds(table[b], h)
<1>1. table[b] \in Seq(H)
  BY DEF TableOf
<1>2. \A i \in DOMAIN table[b] : table[b][i] \in H
  BY <1>1
<1> QED  BY <1>1, <1>2 DEF InBucket, Holds

\* An id has one bucket: a look-up of Get or Has sees all the handlers of the
\* bucket of the id, and finds one with the id or nothing.
LEMMA GetIs ==
  ASSUME NEW H, NEW table \in TableOf(H), NEW self, NEW ids, NEW id,
         HasBucket(self, id)
  PROVE  LET h == Get(table, self, ids, id)
             b == getKDist(id, self)
         IN  /\ h # NoHandler => h \in H /\ h \in InBucket(table, b) /\ ids[h] = id
             /\ NoHandler \notin H /\ h = NoHandler =>
                  \A g \in InBucket(table, b) : ids[g] # id
             /\ ~Has(table, self, ids, id) =>
                  \A g \in InBucket(table, b) : ids[g] # id
<1> DEFINE b    == getKDist(id, self)
           list == table[b]
           hits == Positions(list, ids, id)
<1>1. b \in Buckets
  BY DEF HasBucket
<1>2. list \in Seq(H) /\ \A g : g \in InBucket(table, b) <=> Holds(list, g)
  BY <1>1, InBucketIs
<1>3. /\ hits # {} => /\ First(hits) \in 1 .. Len(list)
                      /\ list[First(hits)] \in H
                      /\ ids[list[First(hits)]] = id
      /\ hits = {} => \A i \in 1 .. Len(list) : ids[list[i]] # id
  BY <1>2, PositionsAre
<1>4. DOMAIN list = 1 .. Len(list)
  BY <1>2
<1>5. Has(table, self, ids, id) <=> hits # {}
  BY DEF Has
<1>6. Get(table, self, ids, id) = IF hits = {} THEN NoHandler ELSE list[First(hits)]
  BY DEF Get
<1> HIDE DEF b, list, hits
<1>7. hits = {} => \A g \in InBucket(table, b) : ids[g] # id
  BY <1>2, <1>3, <1>4 DEF Holds
<1>8. hits # {} => /\ list[First(hits)] \in H
                  /\ list[First(hits)] \in InBucket(table, b)
                  /\ ids[list[First(hits)]] = id
  BY <1>2, <1>3, <1>4 DEF Holds
<1>9. /\ Get(table, self, ids, id) # NoHandler =>
           /\ Get(table, self, ids, id) \in H
           /\ Get(table, self, ids, id) \in InBucket(table, b)
           /\ ids[Get(table, self, ids, id)] = id
      /\ NoHandler \notin H /\ Get(table, self, ids, id) = NoHandler => hits = {}
  BY <1>6, <1>8
<1> QED  BY <1>5, <1>7, <1>9 DEF b

\* PushFront of a bucket's list adds the handler and nothing else.
LEMMA InFront ==
  ASSUME NEW H, NEW list \in Seq(H), NEW h \in H
  PROVE  /\ Fronted(h, list) \in Seq(H)
         /\ \A g : Holds(Fronted(h, list), g) <=> (g = h \/ Holds(list, g))
<1> DEFINE new == Fronted(h, list)
<1>1. <<h>> \in Seq(H) /\ Len(<<h>>) = 1 /\ <<h>>[1] = h
  OBVIOUS
<1>2. /\ new \in Seq(H) /\ Len(new) = 1 + Len(list)
      /\ \A i \in 1 .. 1 + Len(list) : new[i] = IF i <= 1 THEN <<h>>[i] ELSE list[i - 1]
  BY <1>1, ConcatProperties DEF Fronted
<1> HIDE DEF new
<1>3. DOMAIN new = 1 .. 1 + Len(list) /\ DOMAIN list = 1 .. Len(list)
  BY <1>2
<1>4. new[1] = h
  BY <1>1, <1>2
<1>5. \A i \in DOMAIN list : i + 1 \in DOMAIN new /\ new[i + 1] = list[i]
  <2> SUFFICES ASSUME NEW i \in DOMAIN list
               PROVE  i + 1 \in DOMAIN new /\ new[i + 1] = list[i]
    OBVIOUS
  <2>1. i + 1 \in 1 .. 1 + Len(list) /\ ~(i + 1 <= 1) /\ (i + 1) - 1 = i
    BY <1>3
  <2>2. new[i + 1] = list[(i + 1) - 1]
    BY <2>1, <1>2
  <2> QED  BY <2>1, <2>2, <1>3
<1>6. \A i \in DOMAIN new : i = 1 \/ (i - 1 \in DOMAIN list /\ new[i] = list[i - 1])
  BY <1>2, <1>3
<1>7. ASSUME NEW g
      PROVE  (\E i \in DOMAIN new : new[i] = g)
                  <=> (g = h \/ \E i \in DOMAIN list : list[i] = g)
  <2>1. ASSUME NEW i \in DOMAIN new, new[i] = g
        PROVE  g = h \/ \E j \in DOMAIN list : list[j] = g
    BY <2>1, <1>4, <1>6
  <2>2. 1 \in DOMAIN new
    BY <1>3, <1>2
  <2>3. ASSUME NEW i \in DOMAIN list, list[i] = g
        PROVE  \E j \in DOMAIN new : new[j] = g
    BY <2>3, <1>5
  <2> QED  BY <2>1, <2>2, <2>3, <1>4
<1> QED  BY <1>2, <1>7 DEF new, Holds

\* Insert adds one handler to the bucket of its id, and that is all.
LEMMA InsertIs ==
  ASSUME NEW H, NEW table \in TableOf(H), NEW self, NEW ids, NEW h \in H,
         HasBucket(self, ids[h])
  PROVE  LET new == Insert(table, self, ids, h)
         IN  /\ new \in TableOf(H)
             /\ \A b \in Buckets : InBucket(new, b) =
                  IF b = getKDist(ids[h], self) THEN InBucket(table, b) \cup {h}
                                                ELSE InBucket(table, b)
<1> DEFINE c   == getKDist(ids[h], self)
           new == [table EXCEPT ![c] = Fronted(h, @)]
<1>1. Insert(table, self, ids, h) = new
  BY DEF Insert, Fronted
<1>2. c \in Buckets
  BY DEF HasBucket
<1>3. table[c] \in Seq(H) /\ Fronted(h, table[c]) \in Seq(H)
  BY <1>2, InFront DEF TableOf
<1> HIDE DEF c
<1>4. new \in TableOf(H)
  BY <1>2, <1>3 DEF TableOf
<1>5. \A b \in Buckets : new[b] = IF b = c THEN Fronted(h, table[c]) ELSE table[b]
  BY <1>2 DEF TableOf
<1> HIDE DEF new
<1>6. ASSUME NEW b \in Buckets
      PROVE  InBucket(new, b) = IF b = c THEN InBucket(table, b) \cup {h} ELSE InBucket(table, b)
  <2>1. /\ \A g : g \in InBucket(new, b) <=> Holds(new[b], g)
        /\ \A g : g \in InBucket(table, b) <=> Holds(table[b], g)
    BY <1>4, InBucketIs
  <2>2. CASE b = c
    <3>1. new[b] = Fronted(h, table[b])
      BY <2>2, <1>5
    <3>2. table[b] \in Seq(H)
      BY <2>2, <1>3
    <3>3. \A g : Holds(new[b], g) <=> (g = h \/ Holds(table[b], g))
      BY <3>1, <3>2, InFront
    <3> QED  BY <2>1, <2>2, <3>3
  <2>3. CASE b # c
    <3>1. new[b] = table[b]
      BY <2>3, <1>5
    <3> QED  BY <2>3, <3>1 DEF InBucket
  <2> QED  BY <2>2, <2>3
<1> QED  BY <1>1, <1>4, <1>6 DEF c

\* MoveToFront changes the order of one list and no bucket's content.
LEMMA UpdateIs ==
  ASSUME NEW H, NEW table \in TableOf(H), NEW self, NEW ids, NEW id,
         HasBucket(self, id)
  PROVE  LET new == Update(table, self, ids, id)
         IN  /\ new \in TableOf(H)
             /\ \A b \in Buckets : InBucket(new, b) = InBucket(table, b)
<1> DEFINE c    == getKDist(id, self)
           list == table[c]
           hits == Positions(list, ids, id)
           i    == First(hits)
           rest == Seqs!RemoveAt(list, i)
           new  == [table EXCEPT ![c] = Fronted(list[i], rest)]
<1>1. c \in Buckets /\ list \in Seq(H)
  BY InBucketIs DEF HasBucket
<1>2. CASE hits = {}
  <2>1. Update(table, self, ids, id) = table
    BY <1>2 DEF Update
  <2> QED  BY <2>1
<1>3. CASE hits # {}
  <2>1. Update(table, self, ids, id) = new
    BY <1>3 DEF Update, Fronted
  <2>2. i \in 1 .. Len(list) /\ list[i] \in H
    BY <1>1, <1>3, PositionsAre
  <2>3. /\ rest \in Seq(H)
        /\ \A j \in DOMAIN rest : \E k \in DOMAIN list : rest[j] = list[k]
        /\ \A k \in DOMAIN list : k # i => \E j \in DOMAIN rest : rest[j] = list[k]
    BY <1>1, <2>2, RemoveAtIs
  <2>4. DOMAIN list = 1 .. Len(list)
    BY <1>1
  <2> DEFINE x == list[i]
  <2> DEFINE front == Fronted(x, rest)
  <2>0. x \in H
    BY <2>2
  <2> HIDE DEF i, rest, hits, c, x, list
  <2>5. /\ front \in Seq(H)
        /\ \A g : Holds(front, g) <=> (g = x \/ Holds(rest, g))
    BY <2>0, <2>3, InFront
  <2>6. new = [table EXCEPT ![c] = front]
    BY DEF x
  <2> HIDE DEF new, front
  <2>7. new \in TableOf(H) /\ \A b \in Buckets : new[b] = IF b = c THEN front ELSE table[b]
    BY <2>5, <2>6, <1>1 DEF TableOf
  <2>8. ASSUME NEW g
        PROVE  Holds(front, g) <=> Holds(list, g)
    <3>1. Holds(rest, g) => Holds(list, g)
      BY <2>3 DEF Holds
    <3>2. Holds(list, g) => g = x \/ Holds(rest, g)
      BY <2>3 DEF x, Holds
    <3>3. g = x => Holds(list, g)
      BY <2>2, <2>4 DEF x, Holds
    <3> QED  BY <2>5, <3>1, <3>2, <3>3
  <2>9. ASSUME NEW b \in Buckets PROVE InBucket(new, b) = InBucket(table, b)
    <3>1. CASE b = c
      <4>1. /\ \A g : g \in InBucket(new, b) <=> Holds(front, g)
            /\ \A g : g \in InBucket(table, b) <=> Holds(list, g)
        BY <3>1, <2>7, <1>1, InBucketIs DEF list
      <4> QED  BY <4>1, <2>8
    <3>2. CASE b # c
      BY <3>2, <2>7 DEF InBucket
    <3> QED  BY <3>1, <3>2
  <2> QED  BY <2>1, <2>7, <2>9
<1> QED  BY <1>2, <1>3

\* Remove takes nothing in, and on an id without a bucket it changes nothing.
LEMMA RemoveIs ==
  ASSUME NEW H, NEW table \in TableOf(H), NEW self, NEW ids, NEW id
  PROVE  LET new == Remove(table, self, ids, id)
         IN  /\ new \in TableOf(H)
             /\ \A b \in Buckets : InBucket(new, b) \subseteq InBucket(table, b)
<1> DEFINE c    == getKDist(id, self)
           list == table[c]
           hits == Positions(list, ids, id)
           i    == First(hits)
           rest == Seqs!RemoveAt(list, i)
           new  == [table EXCEPT ![c] = rest]
<1>1. CASE hits = {} \/ c \notin Buckets
  <2>1. Remove(table, self, ids, id) = table \/ Remove(table, self, ids, id) = new
    BY DEF Remove
  <2>2. CASE Remove(table, self, ids, id) = table
    BY <2>2
  <2>3. CASE Remove(table, self, ids, id) = new /\ c \notin Buckets
    <3> HIDE DEF c, rest
    <3>1. new = table
      BY <2>3 DEF TableOf
    <3> QED  BY <2>3, <3>1
  <2>4. hits = {} => Remove(table, self, ids, id) = table
    BY DEF Remove
  <2> QED  BY <1>1, <2>1, <2>2, <2>3, <2>4
<1>2. CASE hits # {} /\ c \in Buckets
  <2>0. list \in Seq(H)
    BY <1>2, InBucketIs
  <2>1. Remove(table, self, ids, id) = new
    BY <1>2 DEF Remove
  <2>2. i \in 1 .. Len(list) /\ list[i] \in H
    BY <2>0, <1>2, PositionsAre
  <2>3. /\ rest \in Seq(H)
        /\ \A j \in DOMAIN rest : \E k \in DOMAIN list : rest[j] = list[k]
    BY <2>0, <2>2, RemoveAtIs
  <2> HIDE DEF i, rest, hits, c
  <2>4. new \in TableOf(H) /\ \A b \in Buckets : new[b] = IF b = c THEN rest ELSE table[b]
    BY <2>3, <1>2 DEF TableOf
  <2> HIDE DEF new
  <2>5. ASSUME NEW b \in Buckets PROVE InBucket(new, b) \subseteq InBucket(table, b)
    <3>1. CASE b = c
      <4>1. /\ \A g : g \in InBucket(new, b) <=> Holds(rest, g)
            /\ \A g : g \in InBucket(table, b) <=> Holds(list, g)
        BY <3>1, <2>4, <1>2, InBucketIs
      <4> QED  BY <4>1, <2>3 DEF Holds
    <3>2. CASE b # c
      BY <3>2, <2>4 DEF InBucket
    <3> QED  BY <3>1, <3>2
  <2> QED  BY <2>1, <2>4, <2>5
<1> QED  BY <1>1, <1>2

\* A set of numbers that is not empty has a least element.
LEMMA LeastIs ==
  ASSUME NEW S, S \subseteq Nat, S # {}
  PROVE  \E i \in S : \A j \in S : i <= j
BY FirstIs

\* The ids that differ do so in a highest bit, which is their distance.
LEMMA DistIs ==
  ASSUME NEW a \in NodeID, NEW b \in NodeID
  PROVE  /\ a = b => getKDist(a, b) = 0
         /\ a # b => getKDist(a, b) \in Diff(a, b)
         /\ getKDist(a, b) \in 0 .. IdBits
         /\ \A e \in Diff(a, b) : e <= getKDist(a, b)
<1>1. Diff(a, b) \subseteq 1 .. IdBits /\ (Diff(a, b) = {} <=> a = b)
  BY DEF Diff, NodeID
<1>2. IdBits \in Nat
  BY TableAssumption
<1>3. CASE a = b
  BY <1>1, <1>2, <1>3 DEF getKDist
<1>4. CASE a # b
  <2> DEFINE Below == {IdBits - e : e \in Diff(a, b)}
  <2>1. Below \subseteq Nat /\ Below # {}
    BY <1>1, <1>2, <1>4
  <2>2. PICK i \in Below : \A j \in Below : i <= j
    BY <2>1, LeastIs
  <2>3. PICK d \in Diff(a, b) : i = IdBits - d
    OBVIOUS
  <2>4. ASSUME NEW e \in Diff(a, b) PROVE e <= d
    <3>1. IdBits - d <= IdBits - e
      BY <2>2, <2>3
    <3>2. d \in Int /\ e \in Int
      BY <1>1
    <3> QED  BY <3>1, <3>2, <1>2
  <2>5. \E c \in Diff(a, b) : \A e \in Diff(a, b) : e <= c
    BY <2>4
  <2>6. getKDist(a, b) = CHOOSE c \in Diff(a, b) : \A e \in Diff(a, b) : e <= c
    BY <1>1, <1>4 DEF getKDist
  <2>7. getKDist(a, b) \in Diff(a, b) /\ \A e \in Diff(a, b) : e <= getKDist(a, b)
    BY <2>5, <2>6
  <2>8. getKDist(a, b) \in 0 .. IdBits
    BY <2>7, <1>1, <1>2
  <2> QED  BY <1>4, <2>7, <2>8
<1> QED  BY <1>3, <1>4

\* Going over a third id is no nearer than the further of the two parts, and
\* when the parts differ the further one is all that counts.
LEMMA DistOver ==
  ASSUME NEW a \in NodeID, NEW b \in NodeID, NEW c \in NodeID
  PROVE  /\ \/ getKDist(a, c) <= getKDist(a, b)
            \/ getKDist(a, c) <= getKDist(b, c)
         /\ getKDist(a, b) < getKDist(b, c) => getKDist(a, c) = getKDist(b, c)
         /\ getKDist(b, c) < getKDist(a, b) => getKDist(a, c) = getKDist(a, b)
<1> DEFINE x == getKDist(a, b)
           y == getKDist(b, c)
           z == getKDist(a, c)
<1>1. \A e : e \in Diff(a, c) <=> ((e \in Diff(a, b)) # (e \in Diff(b, c)))
  BY DEF Diff
<1>2. /\ x \in Nat /\ y \in Nat /\ z \in Nat
      /\ Diff(a, b) \subseteq Nat /\ Diff(b, c) \subseteq Nat /\ Diff(a, c) \subseteq Nat
  <2>1. Diff(a, b) \subseteq Nat /\ Diff(b, c) \subseteq Nat /\ Diff(a, c) \subseteq Nat
    BY DEF Diff, NodeID
  <2> QED  BY <2>1, DistIs, TableAssumption
<1>3. /\ x # 0 => x \in Diff(a, b)
      /\ y # 0 => y \in Diff(b, c)
      /\ z # 0 => z \in Diff(a, c)
  BY DistIs
<1>4. /\ \A e \in Diff(a, b) : e <= x
      /\ \A e \in Diff(b, c) : e <= y
      /\ \A e \in Diff(a, c) : e <= z
  BY DistIs
<1> HIDE DEF x, y, z
<1>5. z <= x \/ z <= y
  BY <1>1, <1>2, <1>3, <1>4
<1>6. x < y => z = y
  <2> SUFFICES ASSUME x < y PROVE z = y
    OBVIOUS
  <2>1. y \in Diff(b, c) /\ y \notin Diff(a, b)
    BY <1>2, <1>3, <1>4
  <2>2. y <= z
    BY <2>1, <1>1, <1>4
  <2> QED  BY <2>2, <1>2, <1>5
<1>7. y < x => z = x
  <2> SUFFICES ASSUME y < x PROVE z = x
    OBVIOUS
  <2>1. x \in Diff(a, b) /\ x \notin Diff(b, c)
    BY <1>2, <1>3, <1>4
  <2>2. x <= z
    BY <2>1, <1>1, <1>4
  <2> QED  BY <2>2, <1>2, <1>5
<1> QED  BY <1>5, <1>6, <1>7 DEF x, y, z

\* The first n lists of ss, one after the other, as the walk of GetK appends
\* them: f is a table of the sequence after each.
Joins(f, ss, n) ==
  f = [i \in 1 .. n |-> IF i = 1 THEN ss[i] ELSE f[i - 1] \o ss[i]]

\* Lists can be appended one after the other.
LEMMA JoinsExist ==
  ASSUME NEW H, NEW n \in Nat, NEW ss \in [1 .. n -> Seq(H)]
  PROVE  \E f : Joins(f, ss, n)
<1> DEFINE Exists(m) == \E f : Joins(f, ss, m)
           Bad == {m \in 0 .. n : ~Exists(m)}
<1>1. SUFFICES ASSUME ~Exists(n) PROVE FALSE
  OBVIOUS
<1>2. PICK m \in Bad : \A k \in Bad : m <= k
  <2>1. Bad \subseteq Nat
    OBVIOUS
  <2>2. n \in Bad
    <3> HIDE DEF Exists
    <3> QED  BY <1>1
  <2> QED  BY <2>1, <2>2, LeastIs
<1>3. m \in 0 .. n /\ m # 0
  <2>1. Joins(<<>>, ss, 0)
    BY DEF Joins
  <2> QED  BY <2>1
<1>4. Exists(m - 1)
  <2>1. m - 1 \in 0 .. n /\ ~(m <= m - 1)
    BY <1>3
  <2> HIDE DEF Exists
  <2>2. m - 1 \notin Bad
    BY <2>1, <1>2
  <2> QED  BY <2>1, <2>2
<1>5. PICK g : Joins(g, ss, m - 1)
  BY <1>4
<1> DEFINE last == IF m = 1 THEN ss[m] ELSE g[m - 1] \o ss[m]
           f == [i \in 1 .. m |-> IF i = m THEN last ELSE g[i]]
<1>6. \A i \in 1 .. m - 1 : g[i] = IF i = 1 THEN ss[i] ELSE g[i - 1] \o ss[i]
  BY <1>3, <1>5 DEF Joins
<1> HIDE DEF last
<1>7. /\ \A i \in 1 .. m - 1 : f[i] = g[i]
      /\ f[m] = last
      /\ f = [i \in 1 .. m |-> f[i]]
  BY <1>3
<1> HIDE DEF f
<1>8. ASSUME NEW i \in 1 .. m
      PROVE  f[i] = IF i = 1 THEN ss[i] ELSE f[i - 1] \o ss[i]
  <2>1. CASE i = m
    <3>1. m # 1 => m - 1 \in 1 .. m - 1
      BY <1>3
    <3>2. m # 1 => f[m - 1] = g[m - 1]
      BY <3>1, <1>7
    <3> QED  BY <2>1, <3>2, <1>7 DEF last
  <2>2. CASE i # m
    <3>1. i \in 1 .. m - 1 /\ (i # 1 => i - 1 \in 1 .. m - 1)
      BY <2>2, <1>3
    <3>2. f[i] = g[i] /\ (i # 1 => f[i - 1] = g[i - 1])
      BY <3>1, <1>7
    <3>3. g[i] = IF i = 1 THEN ss[i] ELSE g[i - 1] \o ss[i]
      BY <3>1, <1>6
    <3> QED  BY <3>2, <3>3
  <2> QED  BY <2>1, <2>2
<1>9. Joins(f, ss, m)
  <2>1. [i \in 1 .. m |-> f[i]] = [i \in 1 .. m |-> IF i = 1 THEN ss[i] ELSE f[i - 1] \o ss[i]]
    BY <1>8
  <2> QED  BY <2>1, <1>7 DEF Joins
<1> QED  BY <1>2, <1>9

\* What the lists hold is all that they hold together.
LEMMA JoinsType ==
  ASSUME NEW H, NEW n \in Nat, NEW ss \in [1 .. n -> Seq(H)], NEW f, Joins(f, ss, n)
  PROVE  \A i \in 1 .. n : f[i] \in Seq(H)
<1> DEFINE Bad == {i \in 1 .. n : f[i] \notin Seq(H)}
<1>1. SUFFICES ASSUME Bad # {} PROVE FALSE
  OBVIOUS
<1>2. PICK m \in Bad : \A k \in Bad : m <= k
  <2>1. Bad \subseteq Nat
    OBVIOUS
  <2> QED  BY <2>1, <1>1, LeastIs
<1>3. f[m] = IF m = 1 THEN ss[m] ELSE f[m - 1] \o ss[m]
  BY DEF Joins
<1>4. ss[m] \in Seq(H)
  OBVIOUS
<1>5. m # 1
  BY <1>2, <1>3, <1>4
<1>6. f[m - 1] \in Seq(H)
  BY <1>2, <1>5
<1>7. f[m - 1] \o ss[m] \in Seq(H)
  <2> DEFINE x == f[m - 1]
             y == ss[m]
  <2>1. x \in Seq(H) /\ y \in Seq(H)
    BY <1>4, <1>6
  <2> HIDE DEF x, y
  <2>2. x \o y \in Seq(H)
    BY <2>1, ConcatProperties
  <2> QED  BY <2>2 DEF x, y
<1> QED  BY <1>2, <1>3, <1>5, <1>7

\* FlattenSeq appends the lists in their order.
LEMMA FlattenJoins ==
  ASSUME NEW H, NEW n \in Nat \ {0}, NEW ss \in [1 .. n -> Seq(H)]
  PROVE  \E f : Joins(f, ss, n) /\ Seqs!FlattenSeq(ss) = f[n]
<1> DEFINE f == CHOOSE g : g = [i \in 1 .. Len(ss) |->
                                 IF i = 1 THEN ss[i] ELSE g[i - 1] \o ss[i]]
<1>1. Len(ss) = n /\ Len(ss) # 0
  OBVIOUS
<1>2. Seqs!FlattenSeq(ss) = f[Len(ss)]
  BY <1>1 DEF Seqs!FlattenSeq
<1>3. f = CHOOSE g : Joins(g, ss, n)
  BY <1>1 DEF Joins
<1> HIDE DEF f
<1>4. \E g : Joins(g, ss, n)
  BY JoinsExist
<1>5. Joins(f, ss, n)
  BY <1>3, <1>4
<1> QED  BY <1>1, <1>2, <1>5

\* The walk over the buckets is a list of handlers.
LEMMA FlattenIs ==
  ASSUME NEW H, NEW n \in Nat \ {0}, NEW ss \in [1 .. n -> Seq(H)]
  PROVE  Seqs!FlattenSeq(ss) \in Seq(H)
<1>1. PICK f : Joins(f, ss, n) /\ Seqs!FlattenSeq(ss) = f[n]
  BY FlattenJoins
<1>2. f[n] \in Seq(H)
  BY <1>1, JoinsType
<1> QED  BY <1>1, <1>2

\* No handler is in a list twice.
Once(list) == \A p, q \in DOMAIN list : p # q => list[p] # list[q]

\* Along a list no handler comes twice and the ranks only go up.
Ranked(list, rank) ==
  \A p, q \in DOMAIN list : p < q => list[p] # list[q] /\ rank[list[p]] <= rank[list[q]]

\* A list whose handlers have a higher rank than those of another follows it.
LEMMA RankedConcat ==
  ASSUME NEW H, NEW u \in Seq(H), NEW v \in Seq(H), NEW rank, NEW m \in Nat \ {0},
         Ranked(u, rank), Once(v),
         \A p \in DOMAIN u : rank[u[p]] \in 1 .. m - 1,
         \A p \in DOMAIN v : rank[v[p]] = m
  PROVE  /\ u \o v \in Seq(H) /\ Ranked(u \o v, rank)
         /\ \A p \in DOMAIN (u \o v) : rank[(u \o v)[p]] \in 1 .. m
         /\ \A g : Holds(u \o v, g) <=> (Holds(u, g) \/ Holds(v, g))
<1> DEFINE w == u \o v
<1>1. /\ w \in Seq(H) /\ Len(w) = Len(u) + Len(v)
      /\ \A i \in 1 .. Len(u) + Len(v) :
            w[i] = IF i <= Len(u) THEN u[i] ELSE v[i - Len(u)]
  BY ConcatProperties
<1> HIDE DEF w
<1>2. /\ DOMAIN w = 1 .. Len(u) + Len(v)
      /\ DOMAIN u = 1 .. Len(u) /\ Len(u) \in Nat
      /\ DOMAIN v = 1 .. Len(v) /\ Len(v) \in Nat
  BY <1>1
<1>3. ASSUME NEW p \in DOMAIN w
      PROVE  \/ p \in DOMAIN u /\ w[p] = u[p]
             \/ /\ p > Len(u) /\ p - Len(u) \in DOMAIN v
                /\ w[p] = v[p - Len(u)]
  BY <1>1, <1>2
<1>4. \A p \in DOMAIN u : p \in DOMAIN w /\ w[p] = u[p]
  BY <1>1, <1>2
<1>5. \A p \in DOMAIN v : p + Len(u) \in DOMAIN w /\ w[p + Len(u)] = v[p]
  <2> SUFFICES ASSUME NEW p \in DOMAIN v
               PROVE  p + Len(u) \in DOMAIN w /\ w[p + Len(u)] = v[p]
    OBVIOUS
  <2>1. /\ p + Len(u) \in 1 .. Len(u) + Len(v)
        /\ ~(p + Len(u) <= Len(u)) /\ (p + Len(u)) - Len(u) = p
    BY <1>2
  <2>2. w[p + Len(u)] = v[(p + Len(u)) - Len(u)]
    BY <2>1, <1>1
  <2> QED  BY <2>1, <2>2, <1>2
<1>6. \A p \in DOMAIN w : rank[w[p]] \in 1 .. m
  <2> SUFFICES ASSUME NEW p \in DOMAIN w PROVE rank[w[p]] \in 1 .. m
    OBVIOUS
  <2>1. CASE p \in DOMAIN u /\ w[p] = u[p]
    <3>1. rank[w[p]] \in 1 .. m - 1
      BY <2>1
    <3> QED  BY <3>1
  <2>2. CASE p - Len(u) \in DOMAIN v /\ w[p] = v[p - Len(u)]
    BY <2>2
  <2> QED  BY <2>1, <2>2, <1>3
<1>7. Ranked(w, rank)
  <2> SUFFICES ASSUME NEW p \in DOMAIN w, NEW q \in DOMAIN w, p < q
               PROVE  w[p] # w[q] /\ rank[w[p]] <= rank[w[q]]
    BY DEF Ranked
  <2>1. p \in Nat /\ q \in Nat
    BY <1>2
  <2>2. CASE q \in DOMAIN u /\ w[q] = u[q]
    <3>1. p \in DOMAIN u /\ w[p] = u[p]
      BY <2>1, <2>2, <1>2, <1>4
    <3> QED  BY <2>2, <3>1 DEF Ranked
  <2>3. CASE q > Len(u) /\ q - Len(u) \in DOMAIN v /\ w[q] = v[q - Len(u)]
    <3>1. rank[w[q]] = m
      BY <2>3
    <3>2. CASE p \in DOMAIN u /\ w[p] = u[p]
      <4>1. rank[w[p]] \in 1 .. m - 1
        BY <3>2
      <4>2. rank[w[p]] < rank[w[q]]
        BY <3>1, <4>1
      <4> QED  BY <3>1, <4>1, <4>2
    <3>3. CASE p - Len(u) \in DOMAIN v /\ w[p] = v[p - Len(u)]
      <4>1. rank[w[p]] = m
        BY <3>3
      <4>2. p - Len(u) # q - Len(u)
        BY <2>1, <1>2
      <4>3. v[p - Len(u)] # v[q - Len(u)]
        BY <2>3, <3>3, <4>2 DEF Once
      <4> QED  BY <2>3, <3>1, <3>3, <4>1, <4>3
    <3> QED  BY <3>2, <3>3, <1>3
  <2> QED  BY <2>2, <2>3, <1>3
<1>8. ASSUME NEW g
      PROVE  Holds(w, g) <=> (Holds(u, g) \/ Holds(v, g))
  BY <1>3, <1>4, <1>5 DEF Holds
<1> QED  BY <1>1, <1>6, <1>7, <1>8 DEF w

\* The rank of a handler is the number of its list, in which it is once.
ByRank(ss, n, rank) ==
  \A i \in 1 .. n : Once(ss[i]) /\ \A p \in DOMAIN ss[i] : rank[ss[i][p]] = i

\* The walk goes through the lists in their order.
LEMMA JoinsRanked ==
  ASSUME NEW H, NEW n \in Nat, NEW ss \in [1 .. n -> Seq(H)], NEW f, Joins(f, ss, n),
         NEW rank, ByRank(ss, n, rank)
  PROVE  \A m \in 1 .. n :
           /\ f[m] \in Seq(H) /\ Ranked(f[m], rank)
           /\ \A p \in DOMAIN f[m] : rank[f[m][p]] \in 1 .. m
           /\ \A g : Holds(f[m], g) <=> \E i \in 1 .. m : Holds(ss[i], g)
<1> DEFINE Good(m) ==
             /\ f[m] \in Seq(H) /\ Ranked(f[m], rank)
             /\ \A p \in DOMAIN f[m] : rank[f[m][p]] \in 1 .. m
             /\ \A g : Holds(f[m], g) <=> \E i \in 1 .. m : Holds(ss[i], g)
           Bad == {m \in 1 .. n : ~Good(m)}
<1>1. SUFFICES ASSUME Bad # {} PROVE FALSE
  OBVIOUS
<1>2. PICK m \in Bad : \A k \in Bad : m <= k
  <2>1. Bad \subseteq Nat
    OBVIOUS
  <2> HIDE DEF Bad
  <2> QED  BY <2>1, <1>1, LeastIs
<1>3. m \in 1 .. n /\ m \in Nat \ {0} /\ ~Good(m)
  OBVIOUS
<1>4. m # 1 => m - 1 \in 1 .. n /\ Good(m - 1)
  <2> HIDE DEF Good
  <2>1. m # 1 => m - 1 \in 1 .. n /\ ~(m <= m - 1)
    BY <1>3
  <2> QED  BY <2>1, <1>2
<1>5. f[m] = IF m = 1 THEN ss[m] ELSE f[m - 1] \o ss[m]
  BY <1>3 DEF Joins
<1>6. /\ ss[m] \in Seq(H) /\ Once(ss[m]) /\ \A p \in DOMAIN ss[m] : rank[ss[m][p]] = m
  BY <1>3 DEF ByRank
<1>7. CASE m = 1
  <2>1. Ranked(ss[m], rank)
    <3> SUFFICES ASSUME NEW p \in DOMAIN ss[m], NEW q \in DOMAIN ss[m], p < q
                 PROVE  ss[m][p] # ss[m][q] /\ rank[ss[m][p]] <= rank[ss[m][q]]
      BY DEF Ranked
    <3>1. rank[ss[m][p]] = m /\ rank[ss[m][q]] = m
      BY <1>6
    <3>2. p # q
      BY <1>6
    <3> QED  BY <3>1, <3>2, <1>3, <1>6 DEF Once
  <2>2. \A p \in DOMAIN f[m] : rank[f[m][p]] \in 1 .. m
    BY <1>5, <1>6, <1>7
  <2>3. \A g : Holds(f[m], g) <=> \E i \in 1 .. m : Holds(ss[i], g)
    BY <1>5, <1>7
  <2> QED  BY <1>3, <1>5, <1>6, <1>7, <2>1, <2>2, <2>3
<1>8. CASE m # 1
  <2> DEFINE u == f[m - 1]
             v == ss[m]
  <2>1. /\ u \in Seq(H) /\ v \in Seq(H) /\ Ranked(u, rank) /\ Once(v)
        /\ \A p \in DOMAIN u : rank[u[p]] \in 1 .. m - 1
        /\ \A p \in DOMAIN v : rank[v[p]] = m
    BY <1>4, <1>6, <1>8
  <2>2. \A g : Holds(u, g) <=> \E i \in 1 .. m - 1 : Holds(ss[i], g)
    BY <1>4, <1>8
  <2>3. f[m] = u \o v
    BY <1>5, <1>8
  <2> HIDE DEF u
  <2>4. /\ u \o v \in Seq(H) /\ Ranked(u \o v, rank)
        /\ \A p \in DOMAIN (u \o v) : rank[(u \o v)[p]] \in 1 .. m
        /\ \A g : Holds(u \o v, g) <=> (Holds(u, g) \/ Holds(v, g))
    <3> HIDE DEF v
    <3> QED  BY <2>1, <1>3, RankedConcat
  <2>5. ASSUME NEW g
        PROVE  (Holds(u, g) \/ Holds(v, g)) <=> \E i \in 1 .. m : Holds(ss[i], g)
    <3>1. \A i : i \in 1 .. m <=> (i \in 1 .. m - 1 \/ i = m)
      BY <1>3
    <3> QED  BY <3>1, <2>2
  <2> QED  BY <1>3, <2>3, <2>4, <2>5
<1> QED  BY <1>7, <1>8

\* GetK returns handlers of the table's, K at most.
LEMMA GetKIs ==
  ASSUME NEW H, NEW table \in TableOf(H), NEW self, NEW id, HasBucket(self, id)
  PROVE  GetK(table, self, id) \in Seq(H) /\ Len(GetK(table, self, id)) <= K
<1> DEFINE top  == getKDist(id, self)
           ss   == [i \in 1 .. top + 1 |-> table[top + 1 - i]]
           walk == Seqs!FlattenSeq(ss)
           n    == IF Len(walk) < K THEN Len(walk) ELSE K
<1>1. top \in 0 .. IdBits - 1 /\ top \in Nat
  BY TableAssumption DEF HasBucket, Buckets
<1> HIDE DEF top
<1>2. ss \in [1 .. top + 1 -> Seq(H)]
  <2>1. ASSUME NEW i \in 1 .. top + 1 PROVE top + 1 - i \in Buckets
    <3>1. top + 1 - i \in Int /\ 0 <= top + 1 - i /\ top + 1 - i <= top
      BY <1>1
    <3>2. top <= IdBits - 1 /\ IdBits \in Nat
      BY <1>1, TableAssumption
    <3>3. top + 1 - i <= IdBits - 1
      BY <3>1, <3>2, <1>1
    <3> QED  BY <3>1, <3>2, <3>3 DEF Buckets
  <2>2. \A i \in 1 .. top + 1 : table[top + 1 - i] \in Seq(H)
    BY <2>1 DEF TableOf
  <2> QED  BY <2>2
<1>3. walk \in Seq(H)
  BY <1>1, <1>2, FlattenIs
<1>4. GetK(table, self, id) = SubSeq(walk, 1, n)
  BY DEF GetK, top
<1> HIDE DEF walk
<1>5. n \in 0 .. Len(walk) /\ n <= K /\ n \in Int /\ 1 \in Int
  BY <1>3, TableAssumption
<1> HIDE DEF n
<1>6. \A i \in 1 .. n : walk[i] \in H
  BY <1>3, <1>5
<1>7. SubSeq(walk, 1, n) \in Seq(H) /\ Len(SubSeq(walk, 1, n)) = IF 1 <= n THEN n - 1 + 1 ELSE 0
  BY <1>5, <1>6, SubSeqProperties
<1> QED  BY <1>4, <1>5, <1>7, TableAssumption

\* Each handler of a table is in the bucket of its id, and there once.
Sorted(table, self, ids) ==
  \A b \in Buckets : /\ Once(table[b])
                     /\ \A h \in InBucket(table, b) : getKDist(ids[h], self) = b

\* GetK goes from the bucket of id down, as far as K lets it: no handler comes
\* twice, each is of a bucket that was walked, and a handler of such a bucket
\* that is left out is behind all the K it returns.
LEMMA GetKWalks ==
  ASSUME NEW H, NEW table \in TableOf(H), NEW self, NEW ids, NEW id,
         HasBucket(self, id), Sorted(table, self, ids)
  PROVE  LET ret == GetK(table, self, id)
             top == getKDist(id, self)
             Own(h) == getKDist(ids[h], self)
         IN  /\ ret \in Seq(H) /\ Len(ret) <= K /\ Once(ret)
             /\ \A p \in DOMAIN ret : Own(ret[p]) \in 0 .. top
             /\ \A b \in 0 .. top : \A h \in InBucket(table, b) :
                  \/ Holds(ret, h)
                  \/ Len(ret) = K /\ \A p \in DOMAIN ret : b <= Own(ret[p])
<1> DEFINE top  == getKDist(id, self)
           Own(h) == getKDist(ids[h], self)
           rank == [h \in H |-> top + 1 - Own(h)]
           ss   == [i \in 1 .. top + 1 |-> table[top + 1 - i]]
           walk == Seqs!FlattenSeq(ss)
           n    == IF Len(walk) < K THEN Len(walk) ELSE K
           ret  == SubSeq(walk, 1, n)
<1>1. top \in Nat /\ \A i \in 1 .. top + 1 : top + 1 - i \in Buckets
  <2>1. top \in 0 .. IdBits - 1 /\ IdBits \in Nat
    BY TableAssumption DEF HasBucket, Buckets
  <2> HIDE DEF top
  <2> QED  BY <2>1 DEF Buckets
<1>2. \A b \in 0 .. top : b \in Buckets
  <2>1. top \in 0 .. IdBits - 1 /\ IdBits \in Nat
    BY TableAssumption DEF HasBucket, Buckets
  <2> HIDE DEF top
  <2> QED  BY <2>1 DEF Buckets
<1>3. GetK(table, self, id) = ret
  BY DEF GetK
<1> HIDE DEF top
<1>4. ASSUME NEW i \in 1 .. top + 1
      PROVE  /\ ss[i] = table[top + 1 - i] /\ ss[i] \in Seq(H) /\ Once(ss[i])
             /\ \A p \in DOMAIN ss[i] : rank[ss[i][p]] = i
  <2>1. ss[i] = table[top + 1 - i] /\ top + 1 - i \in Buckets
    BY <1>1
  <2>2. ss[i] \in Seq(H) /\ Once(ss[i])
    BY <2>1 DEF TableOf, Sorted
  <2>3. ASSUME NEW p \in DOMAIN ss[i] PROVE rank[ss[i][p]] = i
    <3>1. ss[i][p] \in H
      BY <2>2
    <3>2. ss[i][p] \in InBucket(table, top + 1 - i)
      BY <2>1 DEF InBucket
    <3>3. Own(ss[i][p]) = top + 1 - i
      BY <3>2, <2>1 DEF Sorted
    <3> DEFINE h == ss[i][p]
    <3>4. h \in H /\ Own(h) = top + 1 - i
      BY <3>1, <3>3
    <3> HIDE DEF h, ss
    <3>5. rank[h] = top + 1 - (top + 1 - i)
      BY <3>4
    <3>6. rank[h] = i
      BY <3>5, <1>1
    <3> QED  BY <3>6 DEF h
  <2> QED  BY <2>1, <2>2, <2>3
<1>5. ss \in [1 .. top + 1 -> Seq(H)] /\ top + 1 \in Nat \ {0}
  BY <1>1, <1>4
<1> HIDE DEF ss, rank
<1>6. PICK f : Joins(f, ss, top + 1) /\ walk = f[top + 1]
  BY <1>5, FlattenJoins
<1>7. \A m \in 1 .. top + 1 :
        /\ f[m] \in Seq(H) /\ Ranked(f[m], rank)
        /\ \A p \in DOMAIN f[m] : rank[f[m][p]] \in 1 .. m
        /\ \A g : Holds(f[m], g) <=> \E i \in 1 .. m : Holds(ss[i], g)
  <2> DEFINE last == top + 1
  <2>1. ByRank(ss, last, rank)
    BY <1>4 DEF ByRank
  <2>2. last \in Nat /\ ss \in [1 .. last -> Seq(H)] /\ Joins(f, ss, last)
    BY <1>5, <1>6
  <2> HIDE DEF last
  <2>3. \A m \in 1 .. last :
          /\ f[m] \in Seq(H) /\ Ranked(f[m], rank)
          /\ \A p \in DOMAIN f[m] : rank[f[m][p]] \in 1 .. m
          /\ \A g : Holds(f[m], g) <=> \E i \in 1 .. m : Holds(ss[i], g)
    BY <2>1, <2>2, JoinsRanked
  <2> QED  BY <2>3 DEF last
<1>8. /\ walk \in Seq(H) /\ Ranked(walk, rank)
      /\ \A p \in DOMAIN walk : rank[walk[p]] \in 1 .. top + 1
      /\ \A g : Holds(walk, g) <=> \E i \in 1 .. top + 1 : Holds(ss[i], g)
  <2>1. top + 1 \in 1 .. top + 1
    BY <1>1
  <2> QED  BY <2>1, <1>6, <1>7
<1> HIDE DEF walk
<1>9. /\ n \in 0 .. Len(walk) /\ Len(walk) \in Nat /\ n <= K /\ n \in Nat /\ K \in Nat \ {0}
      /\ n # Len(walk) => n = K
  BY <1>8, TableAssumption
<1> HIDE DEF n
<1>10. /\ ret \in Seq(H) /\ Len(ret) = n /\ DOMAIN ret = 1 .. n
       /\ \A p \in 1 .. n : ret[p] = walk[p]
       /\ \A p \in 1 .. n : p \in DOMAIN walk
       /\ DOMAIN walk \subseteq Nat
  <2>0. DOMAIN walk = 1 .. Len(walk)
    BY <1>8
  <2>1. \A p \in 1 .. n : walk[p] \in H
    BY <1>8, <1>9
  <2>2. /\ ret \in Seq(H)
        /\ Len(ret) = IF 1 <= n THEN n - 1 + 1 ELSE 0
        /\ \A p \in 1 .. n - 1 + 1 : ret[p] = walk[1 + p - 1]
    BY <2>1, <1>9, SubSeqProperties
  <2>3. Len(ret) = n /\ \A p \in 1 .. n : ret[p] = walk[1 + p - 1] /\ 1 + p - 1 = p
    BY <2>2, <1>9
  <2>4. \A p \in 1 .. n : p \in 1 .. Len(walk)
    BY <1>9
  <2>5. 1 .. Len(walk) \subseteq Nat
    OBVIOUS
  <2> HIDE DEF ret
  <2>6. DOMAIN ret = 1 .. n
    BY <2>2, <2>3
  <2> QED  BY <2>0, <2>2, <2>3, <2>4, <2>5, <2>6
<1> HIDE DEF ret
<1>11. Once(ret)
  <2> SUFFICES ASSUME NEW p \in 1 .. n, NEW q \in 1 .. n, p # q PROVE ret[p] # ret[q]
    BY <1>10 DEF Once
  <2>1. p \in DOMAIN walk /\ q \in DOMAIN walk
    BY <1>10
  <2>2. p < q \/ q < p
    OBVIOUS
  <2> QED  BY <2>1, <2>2, <1>8, <1>10 DEF Ranked
<1>12. ASSUME NEW h \in H, rank[h] \in 1 .. top + 1, Own(h) \in Int
       PROVE  Own(h) \in 0 .. top /\ Own(h) = top + 1 - rank[h]
  <2>1. rank[h] = top + 1 - Own(h)
    BY DEF rank
  <2> QED  BY <2>1, <1>1, <1>12
<1>13. \A p \in DOMAIN walk :
         /\ walk[p] \in H /\ Own(walk[p]) \in 0 .. top
         /\ Own(walk[p]) = top + 1 - rank[walk[p]]
  <2> SUFFICES ASSUME NEW p \in DOMAIN walk
               PROVE  /\ walk[p] \in H /\ Own(walk[p]) \in 0 .. top
                      /\ Own(walk[p]) = top + 1 - rank[walk[p]]
    OBVIOUS
  <2>1. walk[p] \in H /\ rank[walk[p]] \in 1 .. top + 1
    BY <1>8
  <2>2. PICK i \in 1 .. top + 1 : Holds(ss[i], walk[p])
    BY <1>8 DEF Holds
  <2>3. walk[p] \in InBucket(table, top + 1 - i) /\ top + 1 - i \in Buckets
    BY <2>2, <1>1, <1>4 DEF Holds, InBucket
  <2>4. Own(walk[p]) = top + 1 - i
    BY <2>3 DEF Sorted
  <2>5. Own(walk[p]) \in Int
    BY <2>4, <1>1
  <2> QED  BY <2>1, <2>5, <1>12
<1>14. \A p \in DOMAIN ret : Own(ret[p]) \in 0 .. top
  <2> SUFFICES ASSUME NEW p \in 1 .. n PROVE Own(ret[p]) \in 0 .. top
    BY <1>10
  <2>1. p \in DOMAIN walk /\ ret[p] = walk[p]
    BY <1>10
  <2>2. Own(walk[p]) \in 0 .. top
    BY <2>1, <1>13
  <2> QED  BY <2>1, <2>2
<1>15. ASSUME NEW b \in 0 .. top, NEW h \in InBucket(table, b)
       PROVE  \/ Holds(ret, h)
              \/ Len(ret) = K /\ \A p \in DOMAIN ret : b <= Own(ret[p])
  <2>1. b \in Buckets /\ Own(h) = b
    BY <1>2 DEF Sorted
  <2>2. top + 1 - b \in 1 .. top + 1 /\ top + 1 - (top + 1 - b) = b
    BY <1>1
  <2>3. ss[top + 1 - b] = table[b]
    BY <2>2, <1>4
  <2>4. Holds(ss[top + 1 - b], h)
    BY <2>3 DEF InBucket, Holds
  <2>5. Holds(walk, h)
    BY <2>2, <2>4, <1>8
  <2>6. PICK q \in DOMAIN walk : walk[q] = h
    BY <2>5 DEF Holds
  <2>7. CASE q \in 1 .. n
    BY <2>6, <2>7, <1>10 DEF Holds
  <2>8. CASE q \notin 1 .. n
    <3>1. q > n /\ n = K /\ q \in Nat
      <4>1. q \in 1 .. Len(walk)
        BY <1>8
      <4> QED  BY <4>1, <2>8, <1>9
    <3>2. ASSUME NEW p \in 1 .. n PROVE b <= Own(ret[p])
      <4>0. p < q
        BY <3>1, <1>9
      <4>1. p \in DOMAIN walk /\ p < q /\ ret[p] = walk[p]
        BY <4>0, <1>10
      <4>2. rank[walk[p]] <= rank[walk[q]]
        BY <4>1, <1>8 DEF Ranked
      <4>3. /\ Own(walk[p]) = top + 1 - rank[walk[p]] /\ Own(walk[p]) \in 0 .. top
            /\ Own(walk[q]) = top + 1 - rank[walk[q]] /\ Own(walk[q]) \in 0 .. top
            /\ rank[walk[p]] \in 1 .. top + 1 /\ rank[walk[q]] \in 1 .. top + 1
        BY <4>1, <1>8, <1>13
      <4>4. Own(walk[q]) <= Own(walk[p])
        <5> DEFINE x == Own(walk[p])
                   y == Own(walk[q])
                   rx == rank[walk[p]]
                   ry == rank[walk[q]]
        <5>1. x = top + 1 - rx /\ y = top + 1 - ry /\ rx <= ry /\ rx \in Int /\ ry \in Int
          BY <4>2, <4>3
        <5> HIDE DEF x, y, rx, ry
        <5>2. y <= x
          BY <5>1, <1>1
        <5> QED  BY <5>2 DEF x, y
      <4>5. Own(walk[q]) = b
        BY <2>1, <2>6
      <4> QED  BY <4>1, <4>4, <4>5
    <3> QED  BY <3>1, <3>2, <1>10
  <2> QED  BY <2>7, <2>8
<1>16. ret \in Seq(H) /\ Len(ret) <= K
  BY <1>9, <1>10
<1> HIDE DEF Own
<1> QED  BY <1>3, <1>11, <1>14, <1>15, <1>16 DEF top, Own

\* Where the entries of two lists are when one is appended to the other.
LEMMA ConcatIs ==
  ASSUME NEW H, NEW u \in Seq(H), NEW v \in Seq(H)
  PROVE  /\ u \o v \in Seq(H) /\ Len(u \o v) = Len(u) + Len(v)
         /\ \A p \in DOMAIN u : p \in DOMAIN (u \o v) /\ (u \o v)[p] = u[p]
         /\ \A p \in DOMAIN v : /\ p + Len(u) \in DOMAIN (u \o v)
                                /\ (u \o v)[p + Len(u)] = v[p]
         /\ \A p \in DOMAIN (u \o v) :
              \/ p \in DOMAIN u
              \/ p > Len(u) /\ p - Len(u) \in DOMAIN v
         /\ \A g : Holds(u \o v, g) <=> (Holds(u, g) \/ Holds(v, g))
<1> DEFINE w == u \o v
<1>1. /\ w \in Seq(H) /\ Len(w) = Len(u) + Len(v)
      /\ \A i \in 1 .. Len(u) + Len(v) :
            w[i] = IF i <= Len(u) THEN u[i] ELSE v[i - Len(u)]
  BY ConcatProperties
<1> HIDE DEF w
<1>2. /\ DOMAIN w = 1 .. Len(u) + Len(v)
      /\ DOMAIN u = 1 .. Len(u) /\ Len(u) \in Nat
      /\ DOMAIN v = 1 .. Len(v) /\ Len(v) \in Nat
  BY <1>1
<1>3. \A p \in DOMAIN u : p \in DOMAIN w /\ w[p] = u[p]
  BY <1>1, <1>2
<1>4. \A p \in DOMAIN v : p + Len(u) \in DOMAIN w /\ w[p + Len(u)] = v[p]
  <2> SUFFICES ASSUME NEW p \in DOMAIN v
               PROVE  p + Len(u) \in DOMAIN w /\ w[p + Len(u)] = v[p]
    OBVIOUS
  <2>1. /\ p + Len(u) \in 1 .. Len(u) + Len(v)
        /\ ~(p + Len(u) <= Len(u)) /\ (p + Len(u)) - Len(u) = p
    BY <1>2
  <2>2. w[p + Len(u)] = v[(p + Len(u)) - Len(u)]
    BY <2>1, <1>1
  <2> QED  BY <2>1, <2>2, <1>2
<1>5. \A p \in DOMAIN w : p \in DOMAIN u \/ (p > Len(u) /\ p - Len(u) \in DOMAIN v)
  BY <1>2
<1>6. ASSUME NEW g
      PROVE  Holds(w, g) <=> (Holds(u, g) \/ Holds(v, g))
  <2>1. ASSUME NEW p \in DOMAIN w, w[p] = g PROVE Holds(u, g) \/ Holds(v, g)
    <3>1. CASE p \in DOMAIN u
      BY <2>1, <3>1, <1>3 DEF Holds
    <3>2. CASE p > Len(u) /\ p - Len(u) \in DOMAIN v
      <4>1. w[p - Len(u) + Len(u)] = v[p - Len(u)] /\ p - Len(u) + Len(u) = p
        BY <3>2, <1>2, <1>4
      <4> QED  BY <2>1, <3>2, <4>1 DEF Holds
    <3> QED  BY <3>1, <3>2, <1>5
  <2> QED  BY <2>1, <1>3, <1>4 DEF Holds
<1> QED  BY <1>1, <1>3, <1>4, <1>5, <1>6 DEF w

\* A handler is in the list so appended when it is in one of the two.
LEMMA ConcatHolds ==
  ASSUME NEW H, NEW u \in Seq(H), NEW v \in Seq(H)
  PROVE  \A g : Holds(u \o v, g) <=> (Holds(u, g) \/ Holds(v, g))
BY ConcatIs

\* Two lists have no handler twice together when neither has and they share none.
LEMMA ConcatOnce ==
  ASSUME NEW H, NEW u \in Seq(H), NEW v \in Seq(H)
  PROVE  Once(u \o v) <=>
           Once(u) /\ Once(v) /\ \A g : ~(Holds(u, g) /\ Holds(v, g))
<1> DEFINE w == u \o v
           n == Len(u)
<1>1. /\ \A p \in DOMAIN u : p \in DOMAIN w /\ w[p] = u[p]
      /\ \A p \in DOMAIN v : p + n \in DOMAIN w /\ w[p + n] = v[p]
      /\ \A p \in DOMAIN w : p \in DOMAIN u \/ (p > n /\ p - n \in DOMAIN v)
      /\ w \in Seq(H)
  BY ConcatIs
<1>2. n \in Nat /\ DOMAIN u = 1 .. n /\ DOMAIN v \subseteq Nat \ {0}
  OBVIOUS
<1>3. DOMAIN w \subseteq Nat
  BY <1>1
<1> HIDE DEF w, n
<1>4. ASSUME Once(w) PROVE Once(u)
  BY <1>1, <1>4 DEF Once
<1>5. ASSUME Once(w) PROVE Once(v)
  <2> SUFFICES ASSUME NEW p \in DOMAIN v, NEW q \in DOMAIN v, p # q PROVE v[p] # v[q]
    BY DEF Once
  <2>1. p + n # q + n
    BY <1>2
  <2> QED  BY <2>1, <1>1, <1>5 DEF Once
<1>6. ASSUME Once(w), NEW g, Holds(u, g), Holds(v, g) PROVE FALSE
  <2>1. PICK p \in DOMAIN u : u[p] = g
    BY <1>6 DEF Holds
  <2>2. PICK q \in DOMAIN v : v[q] = g
    BY <1>6 DEF Holds
  <2>3. p # q + n
    BY <1>2
  <2> QED  BY <2>1, <2>2, <2>3, <1>1, <1>6 DEF Once
<1>7. ASSUME Once(u), Once(v), \A g : ~(Holds(u, g) /\ Holds(v, g)),
             NEW p \in DOMAIN w, NEW q \in DOMAIN w, p # q, w[p] = w[q]
      PROVE  FALSE
  <2>1. ASSUME NEW k \in DOMAIN w
        PROVE  \/ k \in DOMAIN u /\ w[k] = u[k] /\ Holds(u, w[k])
               \/ k > n /\ k - n \in DOMAIN v /\ w[k] = v[k - n] /\ Holds(v, w[k])
    <3>1. CASE k \in DOMAIN u
      BY <3>1, <1>1 DEF Holds
    <3>2. CASE k > n /\ k - n \in DOMAIN v
      <4>1. k - n + n = k /\ w[k - n + n] = v[k - n]
        BY <3>2, <1>1, <1>2, <1>3
      <4> QED  BY <3>2, <4>1 DEF Holds
    <3> QED  BY <3>1, <3>2, <1>1
  <2>2. CASE p \in DOMAIN u /\ w[p] = u[p] /\ Holds(u, w[p])
    <3>1. q \in DOMAIN u /\ w[q] = u[q]
      BY <2>1, <2>2, <1>7
    <3> QED  BY <2>2, <3>1, <1>7 DEF Once
  <2>3. CASE p - n \in DOMAIN v /\ w[p] = v[p - n] /\ Holds(v, w[p])
    <3>1. q - n \in DOMAIN v /\ w[q] = v[q - n]
      BY <2>1, <2>3, <1>7
    <3>2. p - n # q - n
      BY <1>2, <1>3, <1>7
    <3> QED  BY <2>3, <3>1, <3>2, <1>7 DEF Once
  <2> QED  BY <2>1, <2>2, <2>3
<1>8. Once(u) /\ Once(v) /\ (\A g : ~(Holds(u, g) /\ Holds(v, g))) => Once(w)
  BY <1>7 DEF Once
<1> QED  BY <1>4, <1>5, <1>6, <1>8 DEF w

\* A list is what is before a position, the entry there, and what is behind it;
\* RemoveAt takes out the entry.
LEMMA SplitAt ==
  ASSUME NEW H, NEW list \in Seq(H), NEW i \in 1 .. Len(list)
  PROVE  \E front, back \in Seq(H) :
           /\ list = (front \o <<list[i]>>) \o back
           /\ Seqs!RemoveAt(list, i) = front \o back
           /\ Len(front) = i - 1
           /\ \A k \in 1 .. i - 1 : front[k] = list[k]
<1> DEFINE x     == list[i]
           front == SubSeq(list, 1, i - 1)
           back  == SubSeq(list, i + 1, Len(list))
<1>1. /\ front \in Seq(H) /\ Len(front) = i - 1
      /\ \A k \in 1 .. i - 1 : front[k] = list[k]
  <2>1. \A k \in 1 .. i - 1 : list[k] \in H
    OBVIOUS
  <2>2. i - 1 \in Int /\ 1 \in Int
    OBVIOUS
  <2> QED  BY <2>1, <2>2, SubSeqProperties
<1>2. /\ back \in Seq(H) /\ Len(back) = Len(list) - i
      /\ \A k \in 1 .. Len(list) - i : back[k] = list[k + i]
  <2>1. \A k \in i + 1 .. Len(list) : list[k] \in H
    OBVIOUS
  <2>2. i + 1 \in Int /\ Len(list) \in Int /\ i \in Int
    OBVIOUS
  <2>3. /\ back \in Seq(H)
        /\ Len(back) = IF i + 1 <= Len(list) THEN Len(list) - (i + 1) + 1 ELSE 0
        /\ \A k \in 1 .. Len(list) - (i + 1) + 1 : back[k] = list[(i + 1) + k - 1]
    BY <2>1, <2>2, SubSeqProperties
  <2> QED  BY <2>2, <2>3
<1>3. Seqs!RemoveAt(list, i) = front \o back
  BY DEF Seqs!RemoveAt
<1>4. x \in H /\ <<x>> \in Seq(H) /\ Len(<<x>>) = 1 /\ <<x>>[1] = x
  OBVIOUS
<1> HIDE DEF front, back, x
<1> DEFINE mid == front \o <<x>>
           all == mid \o back
<1>5. /\ mid \in Seq(H) /\ Len(mid) = i
      /\ \A k \in 1 .. i : mid[k] = IF k <= i - 1 THEN front[k] ELSE <<x>>[k - (i - 1)]
  <2>1. /\ mid \in Seq(H) /\ Len(mid) = Len(front) + Len(<<x>>)
        /\ \A k \in 1 .. Len(front) + Len(<<x>>) :
             mid[k] = IF k <= Len(front) THEN front[k] ELSE <<x>>[k - Len(front)]
    BY <1>1, <1>4, ConcatProperties
  <2>2. Len(front) + Len(<<x>>) = i
    BY <1>1, <1>4
  <2> HIDE DEF mid
  <2> QED  BY <2>1, <2>2, <1>1
<1> HIDE DEF mid
<1>6. /\ all \in Seq(H) /\ Len(all) = Len(list)
      /\ \A k \in 1 .. Len(list) : all[k] = IF k <= i THEN mid[k] ELSE back[k - i]
  <2>1. /\ all \in Seq(H) /\ Len(all) = Len(mid) + Len(back)
        /\ \A k \in 1 .. Len(mid) + Len(back) :
             all[k] = IF k <= Len(mid) THEN mid[k] ELSE back[k - Len(mid)]
    <3>1. mid \in Seq(H) /\ back \in Seq(H)
      BY <1>2, <1>5
    <3> QED  BY <3>1, ConcatProperties
  <2>2. Len(mid) + Len(back) = Len(list)
    BY <1>2, <1>5
  <2> HIDE DEF all
  <2> QED  BY <2>1, <2>2, <1>5
<1> HIDE DEF all
<1>7. ASSUME NEW k \in 1 .. Len(list) PROVE all[k] = list[k]
  <2>1. CASE k <= i - 1
    BY <2>1, <1>1, <1>5, <1>6
  <2>2. CASE k = i
    <3>1. k - (i - 1) = 1 /\ ~(k <= i - 1) /\ k \in 1 .. i
      BY <2>2
    <3>2. mid[k] = <<x>>[k - (i - 1)]
      BY <3>1, <1>5
    <3> QED  BY <2>2, <3>1, <3>2, <1>4, <1>6 DEF x
  <2>3. CASE k > i
    <3>1. k - i \in 1 .. Len(list) - i /\ ~(k <= i) /\ (k - i) + i = k
      BY <2>3
    <3>2. all[k] = back[k - i]
      BY <3>1, <1>6
    <3>3. back[k - i] = list[(k - i) + i]
      BY <3>1, <1>2
    <3> QED  BY <3>1, <3>2, <3>3
  <2> QED  BY <2>1, <2>2, <2>3
<1>8. all = list
  <2>1. all \in [1 .. Len(list) -> H] /\ list \in [1 .. Len(list) -> H]
    BY <1>6
  <2> QED  BY <2>1, <1>7
<1> QED  BY <1>1, <1>2, <1>3, <1>8 DEF x, mid, all

\* An id no entry of a bucket has is not found, and calls on it change nothing.
NotFound(table, self, ids, id) ==
  /\ \A g : Holds(table[getKDist(id, self)], g) => ids[g] # id
  /\ Get(table, self, ids, id) = NoHandler
  /\ ~Has(table, self, ids, id)
  /\ Update(table, self, ids, id) = table
  /\ Remove(table, self, ids, id) = table

\* Otherwise x is the first entry with the id: front and back are what is before
\* and behind it in its bucket.
FoundIn(table, self, ids, id, x, front, back) ==
  LET c == getKDist(id, self)
  IN  /\ table[c] = (front \o <<x>>) \o back
      /\ ids[x] = id /\ \A g : Holds(front, g) => ids[g] # id
      /\ Get(table, self, ids, id) = x
      /\ Has(table, self, ids, id)
      /\ Update(table, self, ids, id) = [table EXCEPT ![c] = Fronted(x, front \o back)]
      /\ Remove(table, self, ids, id) = [table EXCEPT ![c] = front \o back]

\* Get, Has, Update and Remove look along the same list for the same entry.
LEMMA LookUp ==
  ASSUME NEW H, NEW table \in TableOf(H), NEW self, NEW ids, NEW id,
         HasBucket(self, id)
  PROVE  \/ NotFound(table, self, ids, id)
         \/ \E x \in H : \E front, back \in Seq(H) :
              FoundIn(table, self, ids, id, x, front, back)
<1> DEFINE c    == getKDist(id, self)
           list == table[c]
           hits == Positions(list, ids, id)
           i    == First(hits)
<1>1. c \in Buckets /\ list \in Seq(H)
  BY InBucketIs DEF HasBucket
<1>2. DOMAIN list = 1 .. Len(list)
  BY <1>1
<1>3. CASE hits = {}
  <2>1. \A g : Holds(list, g) => ids[g] # id
    BY <1>1, <1>2, <1>3, PositionsAre DEF Holds
  <2> QED  BY <1>3, <2>1 DEF NotFound, Get, Has, Update, Remove
<1>4. CASE hits # {}
  <2>1. i \in 1 .. Len(list) /\ list[i] \in H /\ ids[list[i]] = id
    BY <1>1, <1>4, PositionsAre
  <2>2. PICK front, back \in Seq(H) :
          /\ list = (front \o <<list[i]>>) \o back
          /\ Seqs!RemoveAt(list, i) = front \o back
          /\ Len(front) = i - 1
          /\ \A k \in 1 .. i - 1 : front[k] = list[k]
    BY <1>1, <2>1, SplitAt
  <2>3. \A g : Holds(front, g) => ids[g] # id
    <3> SUFFICES ASSUME NEW k \in DOMAIN front PROVE ids[front[k]] # id
      BY DEF Holds
    <3>1. k \in 1 .. i - 1 /\ k \in 1 .. Len(list) /\ k < i
      BY <2>1, <2>2
    <3>2. hits \subseteq Nat /\ \A j \in hits : i <= j
      <4>1. hits \subseteq Nat
        BY <1>2 DEF Positions
      <4> HIDE DEF hits
      <4> QED  BY <4>1, <1>4, FirstIs
    <3>3. k \notin hits
      <4> DEFINE first == First(hits)
      <4>1. k < first /\ k \in Nat /\ first \in Nat /\ \A j \in hits : first <= j
        BY <2>1, <3>1, <3>2
      <4> HIDE DEF first, hits
      <4> QED  BY <4>1
    <3>4. ids[list[k]] # id
      BY <3>1, <3>3, <1>2 DEF Positions
    <3> QED  BY <3>1, <3>4, <2>2
  <2>4. Get(table, self, ids, id) = list[i] /\ Has(table, self, ids, id)
    BY <1>4 DEF Get, Has
  <2>5. Update(table, self, ids, id) =
          [table EXCEPT ![c] = Fronted(list[i], Seqs!RemoveAt(list, i))]
    BY <1>4 DEF Update, Fronted
  <2>6. Remove(table, self, ids, id) = [table EXCEPT ![c] = Seqs!RemoveAt(list, i)]
    BY <1>4 DEF Remove
  <2>7. FoundIn(table, self, ids, id, list[i], front, back)
    BY <2>1, <2>2, <2>3, <2>4, <2>5, <2>6 DEF FoundIn
  <2> QED  BY <2>1, <2>7
<1> QED  BY <1>3, <1>4

\* Taking an entry out of a list, or to its front, makes nothing come twice.
LEMMA MovedOnce ==
  ASSUME NEW H, NEW x \in H, NEW front \in Seq(H), NEW back \in Seq(H),
         Once((front \o <<x>>) \o back)
  PROVE  Once(front \o back) /\ Once(Fronted(x, front \o back))
<1>1. <<x>> \in Seq(H) /\ \A g : Holds(<<x>>, g) <=> g = x
  BY DEF Holds
<1>2. front \o <<x>> \in Seq(H) /\ front \o back \in Seq(H)
  BY <1>1, ConcatIs
<1>3. /\ \A g : Holds(front \o <<x>>, g) <=> (Holds(front, g) \/ g = x)
      /\ \A g : Holds(front \o back, g) <=> (Holds(front, g) \/ Holds(back, g))
  BY <1>1, ConcatIs
<1>4. /\ Once(front \o <<x>>) /\ Once(back)
      /\ \A g : ~(Holds(front \o <<x>>, g) /\ Holds(back, g))
  BY <1>2, ConcatOnce
<1>5. Once(front) /\ Once(<<x>>) /\ \A g : ~(Holds(front, g) /\ Holds(<<x>>, g))
  BY <1>1, <1>4, ConcatOnce
<1>6. Once(front \o back)
  BY <1>3, <1>4, <1>5, ConcatOnce
<1>7. \A g : ~(Holds(<<x>>, g) /\ Holds(front \o back, g))
  BY <1>1, <1>3, <1>4, <1>5
<1>8. Once(<<x>> \o (front \o back))
  BY <1>1, <1>2, <1>5, <1>6, <1>7, ConcatOnce
<1> QED  BY <1>6, <1>8 DEF Fronted

\* Insert of a handler that is nowhere keeps the table sorted.
LEMMA InsertSorted ==
  ASSUME NEW H, NEW table \in TableOf(H), NEW self, NEW ids, NEW h \in H,
         HasBucket(self, ids[h]), h \notin Entries(table), Sorted(table, self, ids)
  PROVE  Sorted(Insert(table, self, ids, h), self, ids)
<1> DEFINE c   == getKDist(ids[h], self)
           new == Insert(table, self, ids, h)
<1>1. c \in Buckets /\ table[c] \in Seq(H)
  BY DEF HasBucket, TableOf
<1>2. \A b \in Buckets : InBucket(new, b) =
        IF b = c THEN InBucket(table, b) \cup {h} ELSE InBucket(table, b)
  BY InsertIs
<1>3. \A b \in Buckets : new[b] = IF b = c THEN <<h>> \o table[c] ELSE table[b]
  BY <1>1 DEF Insert, TableOf
<1>4. Once(<<h>> \o table[c])
  <2>1. <<h>> \in Seq(H) /\ Once(<<h>>) /\ \A g : Holds(<<h>>, g) <=> g = h
    BY DEF Once, Holds
  <2>2. ~Holds(table[c], h)
    BY <1>1 DEF Entries, InBucket, Holds
  <2>3. Once(table[c])
    BY <1>1 DEF Sorted
  <2> HIDE DEF c
  <2> QED  BY <1>1, <2>1, <2>2, <2>3, ConcatOnce
<1> HIDE DEF new
<1>5. ASSUME NEW b \in Buckets, NEW g \in InBucket(new, b) PROVE getKDist(ids[g], self) = b
  BY <1>2 DEF Sorted
<1>6. ASSUME NEW b \in Buckets PROVE Once(new[b])
  BY <1>3, <1>4 DEF Sorted
<1> QED  BY <1>5, <1>6 DEF Sorted, new

\* Update, which moves an entry to the front, and Remove keep the table sorted.
LEMMA MoveSorted ==
  ASSUME NEW H, NEW table \in TableOf(H), NEW self, NEW ids, NEW id,
         HasBucket(self, id), Sorted(table, self, ids)
  PROVE  /\ Sorted(Update(table, self, ids, id), self, ids)
         /\ Sorted(Remove(table, self, ids, id), self, ids)
<1> DEFINE c       == getKDist(id, self)
           updated == Update(table, self, ids, id)
           removed == Remove(table, self, ids, id)
<1>1. CASE NotFound(table, self, ids, id)
  BY <1>1 DEF NotFound
<1>2. ASSUME NEW x \in H, NEW front \in Seq(H), NEW back \in Seq(H),
             FoundIn(table, self, ids, id, x, front, back)
      PROVE  Sorted(updated, self, ids) /\ Sorted(removed, self, ids)
  <2>1. c \in Buckets
    BY DEF HasBucket
  <2>2. Once((front \o <<x>>) \o back)
    BY <1>2, <2>1 DEF FoundIn, Sorted
  <2>3. Once(front \o back) /\ Once(Fronted(x, front \o back))
    BY <2>2, MovedOnce
  <2>4. /\ \A b \in Buckets : updated[b] = IF b = c THEN Fronted(x, front \o back) ELSE table[b]
        /\ \A b \in Buckets : removed[b] = IF b = c THEN front \o back ELSE table[b]
    BY <1>2, <2>1 DEF FoundIn, TableOf
  <2>5. /\ \A b \in Buckets : InBucket(updated, b) = InBucket(table, b)
        /\ \A b \in Buckets : InBucket(removed, b) \subseteq InBucket(table, b)
    BY UpdateIs, RemoveIs
  <2> HIDE DEF updated, removed
  <2>6. ASSUME NEW b \in Buckets
        PROVE  /\ Once(updated[b]) /\ Once(removed[b])
               /\ \A g \in InBucket(updated, b) : getKDist(ids[g], self) = b
               /\ \A g \in InBucket(removed, b) : getKDist(ids[g], self) = b
    BY <2>3, <2>4, <2>5 DEF Sorted
  <2> QED  BY <2>6 DEF Sorted
<1> QED  BY <1>1, <1>2, LookUp

\* Remove takes out the entry of the id, if no other handler has that id.
LEMMA RemoveGone ==
  ASSUME NEW H, NEW table \in TableOf(H), NEW self, NEW ids, NEW id,
         Sorted(table, self, ids),
         \A g, h \in Entries(table) : ids[g] = ids[h] => g = h
  PROVE  LET new == Remove(table, self, ids, id)
         IN  /\ new \in TableOf(H) /\ Sorted(new, self, ids)
             /\ \A g \in Entries(new) : g \in Entries(table) /\ ids[g] # id
<1> DEFINE c   == getKDist(id, self)
           new == Remove(table, self, ids, id)
<1>1. new \in TableOf(H) /\ \A b \in Buckets : InBucket(new, b) \subseteq InBucket(table, b)
  BY RemoveIs
<1>2. \A g \in Entries(new) : g \in Entries(table)
  BY <1>1 DEF Entries
<1>3. ASSUME NEW g \in Entries(table), ids[g] = id
      PROVE  c \in Buckets /\ g \in InBucket(table, c)
  BY <1>3 DEF Sorted, Entries
<1>4. CASE ~HasBucket(self, id)
  <2>1. new = table
    <3>1. c \notin Buckets /\ DOMAIN table = Buckets /\ table = [b \in Buckets |-> table[b]]
      BY <1>4 DEF HasBucket, TableOf
    <3>2. \A e : [table EXCEPT ![c] = e] = table
      BY <3>1
    <3> QED  BY <3>2 DEF Remove
  <2>2. \A g \in Entries(table) : ids[g] # id
    BY <1>3, <1>4 DEF HasBucket
  <2> HIDE DEF new
  <2> QED  BY <1>1, <2>1, <2>2 DEF new
<1>5. CASE HasBucket(self, id)
  <2>1. Sorted(new, self, ids)
    BY <1>5, MoveSorted
  <2>2. c \in Buckets
    BY <1>5 DEF HasBucket
  <2>3. CASE NotFound(table, self, ids, id)
    <3>1. \A g : g \in InBucket(table, c) => ids[g] # id
      BY <2>2, <2>3, InBucketIs DEF NotFound
    <3>2. \A g \in Entries(table) : ids[g] # id
      BY <1>3, <3>1
    <3> HIDE DEF new
    <3> QED  BY <1>1, <1>2, <2>1, <3>2 DEF new
  <2>4. ASSUME NEW x \in H, NEW front \in Seq(H), NEW back \in Seq(H),
               FoundIn(table, self, ids, id, x, front, back),
               NEW g \in Entries(new), ids[g] = id
        PROVE  FALSE
    <3>1. table[c] = (front \o <<x>>) \o back
      BY <2>4 DEF FoundIn
    <3>2. new[c] = front \o back
      BY <2>2, <2>4 DEF FoundIn, TableOf
    <3>3. ids[x] = id
      BY <2>4 DEF FoundIn
    <3>4. <<x>> \in Seq(H) /\ \A k : Holds(<<x>>, k) <=> k = x
      BY DEF Holds
    <3>5. front \o <<x>> \in Seq(H)
      BY <3>4, ConcatIs
    <3>6. /\ \A k : Holds(front \o <<x>>, k) <=> (Holds(front, k) \/ k = x)
          /\ \A k : Holds(front \o back, k) <=> (Holds(front, k) \/ Holds(back, k))
          /\ \A k : Holds((front \o <<x>>) \o back, k)
                       <=> (Holds(front \o <<x>>, k) \/ Holds(back, k))
      <4>1. \A k : Holds(front \o <<x>>, k) <=> (Holds(front, k) \/ Holds(<<x>>, k))
        BY <3>4, ConcatHolds
      <4>2. \A k : Holds(front \o <<x>>, k) <=> (Holds(front, k) \/ k = x)
        BY <3>4, <4>1
      <4>3. \A k : Holds(front \o back, k) <=> (Holds(front, k) \/ Holds(back, k))
        BY ConcatHolds
      <4>4. \A k : Holds((front \o <<x>>) \o back, k)
                      <=> (Holds(front \o <<x>>, k) \/ Holds(back, k))
        BY <3>5, ConcatHolds
      <4> QED  BY <4>2, <4>3, <4>4
    <3>7. Once((front \o <<x>>) \o back)
      BY <2>2, <3>1 DEF Sorted
    <3>8. Once(front \o <<x>>) /\ \A k : ~(Holds(front \o <<x>>, k) /\ Holds(back, k))
      BY <3>5, <3>7, ConcatOnce
    <3>9. \A k : ~(Holds(front, k) /\ Holds(<<x>>, k))
      BY <3>4, <3>8, ConcatOnce
    <3>10. ~Holds(front \o back, x)
      BY <3>4, <3>6, <3>8, <3>9
    <3>11. x \in InBucket(table, c)
      <4>1. Holds(table[c], x)
        <5> DEFINE all == (front \o <<x>>) \o back
        <5>1. Holds(all, x)
          BY <3>6
        <5> HIDE DEF all
        <5> QED  BY <3>1, <5>1 DEF all
      <4> HIDE DEF c
      <4> QED  BY <2>2, <4>1, InBucketIs
    <3>12. x \in Entries(table)
      BY <2>2, <3>11 DEF Entries
    <3> HIDE DEF new
    <3>13. g = x
      BY <1>2, <2>4, <3>3, <3>12
    <3>14. PICK b \in Buckets : g \in InBucket(new, b)
      BY <2>4 DEF Entries
    <3>15. b = c
      BY <2>1, <2>4, <3>14 DEF Sorted
    <3>16. Holds(new[c], x)
      BY <1>1, <2>2, <3>13, <3>14, <3>15, InBucketIs
    <3> QED  BY <3>2, <3>10, <3>16
  <2> HIDE DEF new
  <2>5. CASE \E x \in H : \E front, back \in Seq(H) :
                FoundIn(table, self, ids, id, x, front, back)
    BY <1>1, <1>2, <2>1, <2>4, <2>5 DEF new
  <2> QED  BY <1>5, <2>3, <2>5, LookUp
<1> QED  BY <1>4, <1>5

\* Flattening no lists.
LEMMA FlattenNone == Seqs!FlattenSeq(<<>>) = <<>>
BY DEF Seqs!FlattenSeq

\* Flattening one list.
LEMMA FlattenOne ==
  ASSUME NEW H, NEW s \in Seq(H)
  PROVE  Seqs!FlattenSeq(<<s>>) = s
<1> DEFINE ss == <<s>>
<1>1. ss \in [1 .. 1 -> Seq(H)] /\ ss[1] = s /\ 1 \in Nat \ {0}
  OBVIOUS
<1> HIDE DEF ss
<1>2. PICK f : Joins(f, ss, 1) /\ Seqs!FlattenSeq(ss) = f[1]
  BY <1>1, FlattenJoins
<1>3. f[1] = ss[1]
  BY <1>2 DEF Joins
<1> QED  BY <1>1, <1>2, <1>3 DEF ss

\* Flattening lists that are all empty.
LEMMA FlattenEmpties ==
  ASSUME NEW H, NEW n \in Nat, NEW ss \in [1 .. n -> Seq(H)],
         \A i \in 1 .. n : ss[i] = <<>>
  PROVE  Seqs!FlattenSeq(ss) = <<>>
<1>1. CASE n = 0
  <2>1. Len(ss) = 0 /\ ss = <<>>
    BY <1>1
  <2> QED  BY <2>1, FlattenNone
<1>2. CASE n # 0
  <2>1. PICK f : Joins(f, ss, n) /\ Seqs!FlattenSeq(ss) = f[n]
    BY <1>2, FlattenJoins
  <2> DEFINE Bad == {i \in 1 .. n : f[i] # <<>>}
  <2>2. Bad = {}
    <3>1. SUFFICES ASSUME Bad # {} PROVE FALSE
      OBVIOUS
    <3>2. PICK m \in Bad : \A k \in Bad : m <= k
      <4>1. Bad \subseteq Nat
        OBVIOUS
      <4> HIDE DEF Bad
      <4> QED  BY <4>1, <3>1, LeastIs
    <3>3. f[m] = IF m = 1 THEN ss[m] ELSE f[m - 1] \o ss[m]
      BY <2>1 DEF Joins
    <3>4. m # 1 => f[m - 1] = <<>>
      <4>1. m # 1 => m - 1 \in 1 .. n /\ ~(m <= m - 1)
        OBVIOUS
      <4> QED  BY <4>1, <3>2
    <3>5. ss[m] = <<>> /\ <<>> \o <<>> = <<>>
      OBVIOUS
    <3> QED  BY <3>3, <3>4, <3>5
  <2> QED  BY <2>1, <2>2, <1>2
<1> QED  BY <1>1, <1>2

\* The regrouping of three lists.
LEMMA Regroup ==
  ASSUME NEW H
  PROVE  \A x, y, z \in Seq(H) : (x \o y) \o z = x \o (y \o z)
BY ConcatAssociative

\* Lists in two groups: n and m of them, sum in all.
InTwo(all, sum, ss, n, tt, m, H) ==
  /\ n \in Nat \ {0} /\ m \in Nat \ {0} /\ sum = n + m
  /\ ss \in [1 .. n -> Seq(H)] /\ tt \in [1 .. m -> Seq(H)]
  /\ all \in [1 .. sum -> Seq(H)]
  /\ \A i \in 1 .. n : all[i] = ss[i]
  /\ \A i \in 1 .. m : all[n + i] = tt[i]

\* Appending them one after the other appends the groups.
LEMMA FlattenTwo ==
  ASSUME NEW H, NEW n, NEW m, NEW sum, NEW ss, NEW tt, NEW all,
         InTwo(all, sum, ss, n, tt, m, H)
  PROVE  Seqs!FlattenSeq(all) = Seqs!FlattenSeq(ss) \o Seqs!FlattenSeq(tt)
<1>1. n \in Nat \ {0} /\ m \in Nat \ {0} /\ sum \in Nat \ {0}
  BY DEF InTwo
<1>2. /\ ss \in [1 .. n -> Seq(H)] /\ tt \in [1 .. m -> Seq(H)]
      /\ all \in [1 .. sum -> Seq(H)]
  BY DEF InTwo
<1>3. PICK f : Joins(f, ss, n) /\ Seqs!FlattenSeq(ss) = f[n]
  BY <1>1, <1>2, FlattenJoins
<1>4. PICK g : Joins(g, tt, m) /\ Seqs!FlattenSeq(tt) = g[m]
  BY <1>1, <1>2, FlattenJoins
<1>5. PICK w : Joins(w, all, sum) /\ Seqs!FlattenSeq(all) = w[sum]
  BY <1>1, <1>2, FlattenJoins
<1>6. /\ n \in Nat \ {0} /\ m \in Nat \ {0} /\ sum = n + m
      /\ ss \in [1 .. n -> Seq(H)] /\ tt \in [1 .. m -> Seq(H)]
      /\ \A i \in 1 .. n : all[i] = ss[i]
      /\ \A i \in 1 .. m : all[n + i] = tt[i]
  BY DEF InTwo
<1>7. /\ \A i \in 1 .. n : f[i] = IF i = 1 THEN ss[i] ELSE f[i - 1] \o ss[i]
      /\ \A i \in 1 .. m : g[i] = IF i = 1 THEN tt[i] ELSE g[i - 1] \o tt[i]
      /\ \A i \in 1 .. n + m : w[i] = IF i = 1 THEN all[i] ELSE w[i - 1] \o all[i]
  BY <1>6, <1>3, <1>4, <1>5 DEF Joins
<1>8. \A i \in 1 .. n : w[i] = f[i]
  <2> DEFINE Bad == {i \in 1 .. n : w[i] # f[i]}
  <2>1. SUFFICES ASSUME Bad # {} PROVE FALSE
    OBVIOUS
  <2>2. PICK k \in Bad : \A j \in Bad : k <= j
    <3>1. Bad \subseteq Nat
      BY <1>6
    <3> HIDE DEF Bad
    <3> QED  BY <3>1, <2>1, LeastIs
  <2>3. k \in 1 .. n /\ k \in 1 .. n + m /\ w[k] # f[k]
    BY <1>6
  <2>4. k # 1 => w[k - 1] = f[k - 1]
    <3>1. k # 1 => k - 1 \in 1 .. n /\ ~(k <= k - 1)
      BY <1>6, <2>3
    <3> QED  BY <3>1, <2>2
  <2>5. /\ f[k] = IF k = 1 THEN ss[k] ELSE f[k - 1] \o ss[k]
        /\ w[k] = IF k = 1 THEN all[k] ELSE w[k - 1] \o all[k]
        /\ all[k] = ss[k]
    BY <1>6, <1>7, <2>3
  <2> QED  BY <2>3, <2>4, <2>5
<1>9. w[n] = f[n] /\ f[n] \in Seq(H)
  <2>1. n \in 1 .. n /\ n \in Nat /\ Joins(f, ss, n)
    BY <1>6, <1>3
  <2>2. \A i \in 1 .. n : f[i] \in Seq(H)
    BY <2>1, <1>2, JoinsType
  <2> QED  BY <2>1, <2>2, <1>8
<1>10. \A i \in 1 .. m : w[n + i] = f[n] \o g[i]
  <2> DEFINE Bad == {i \in 1 .. m : w[n + i] # f[n] \o g[i]}
  <2>1. SUFFICES ASSUME Bad # {} PROVE FALSE
    OBVIOUS
  <2>2. PICK k \in Bad : \A j \in Bad : k <= j
    <3>1. Bad \subseteq 1 .. m
      BY Zenon
    <3>2. 1 .. m \subseteq Nat
      BY <1>6
    <3> HIDE DEF Bad
    <3> QED  BY <3>1, <3>2, <2>1, LeastIs
  <2>3. k \in 1 .. m /\ w[n + k] # f[n] \o g[k]
    OBVIOUS
  <2>9. \A j \in 1 .. m : j \in Bad \/ w[n + j] = f[n] \o g[j]
    BY Zenon
  <2> HIDE DEF Bad
  <2>4. /\ n + k \in 1 .. n + m /\ n + k # 1 /\ (n + k) - 1 = n + (k - 1)
        /\ (k # 1 => k - 1 \in 1 .. m /\ ~(k <= k - 1))
        /\ (k = 1 => n + (k - 1) = n)
    BY <1>6, <2>3
  <2>5. w[n + k] = w[n + (k - 1)] \o tt[k]
    <3>1. w[n + k] = w[(n + k) - 1] \o all[n + k]
      BY <1>7, <2>4
    <3>2. all[n + k] = tt[k]
      BY <1>6, <2>3
    <3> QED  BY <3>1, <3>2, <2>4
  <2>6. g[k] = IF k = 1 THEN tt[k] ELSE g[k - 1] \o tt[k]
    BY <1>7, <2>3
  <2>7. CASE k = 1
    BY <2>3, <2>4, <2>5, <2>6, <2>7, <1>9
  <2>8. CASE k # 1
    <3>1. w[n + (k - 1)] = f[n] \o g[k - 1]
      BY <2>9, <2>2, <2>4, <2>8
    <3>2. g[k - 1] \in Seq(H) /\ tt[k] \in Seq(H)
      BY <1>6, <1>4, <2>3, <2>4, <2>8, JoinsType
    <3> DEFINE x == f[n]
               y == g[k - 1]
               z == tt[k]
    <3>3. x \in Seq(H) /\ y \in Seq(H) /\ z \in Seq(H)
      BY <1>9, <3>2
    <3> HIDE DEF x, y, z
    <3>4. (x \o y) \o z = x \o (y \o z)
      BY <3>3, Regroup
    <3>5. w[n + k] = x \o (y \o z)
      BY <2>5, <3>1, <3>4 DEF x, y, z
    <3> QED  BY <2>3, <2>6, <2>8, <3>5 DEF x, y, z
  <2> QED  BY <2>7, <2>8
<1>11. m \in 1 .. m
  BY <1>6
<1> QED  BY <1>6, <1>10, <1>11, <1>3, <1>4, <1>5

\* Flattening lists in two parts.
LEMMA FlattenConcat ==
  ASSUME NEW H, NEW ss \in Seq(Seq(H)), NEW tt \in Seq(Seq(H))
  PROVE  Seqs!FlattenSeq(ss \o tt) = Seqs!FlattenSeq(ss) \o Seqs!FlattenSeq(tt)
<1> DEFINE n == Len(ss)
           m == Len(tt)
           all == ss \o tt
<1>1. /\ n \in Nat /\ ss \in [1 .. n -> Seq(H)]
      /\ m \in Nat /\ tt \in [1 .. m -> Seq(H)]
  OBVIOUS
<1>2. /\ all \in Seq(Seq(H)) /\ Len(all) = n + m
      /\ \A i \in 1 .. n + m : all[i] = IF i <= n THEN ss[i] ELSE tt[i - n]
  BY ConcatProperties
<1>3. /\ n = 0 => ss = <<>> /\ Seqs!FlattenSeq(ss) = <<>>
      /\ m = 0 => tt = <<>> /\ Seqs!FlattenSeq(tt) = <<>>
  <2>1. (n = 0 => ss = <<>>) /\ (m = 0 => tt = <<>>)
    BY EmptySeq
  <2> QED  BY <2>1, FlattenNone
<1>4. n # 0 => Seqs!FlattenSeq(ss) \in Seq(H)
  BY <1>1, FlattenIs
<1>5. m # 0 => Seqs!FlattenSeq(tt) \in Seq(H)
  BY <1>1, FlattenIs
<1>6. CASE n = 0
  <2>1. all = tt
    BY <1>3, <1>6, ConcatEmptySeq
  <2>2. Seqs!FlattenSeq(tt) \in Seq(H)
    BY <1>3, <1>5
  <2>3. <<>> \o Seqs!FlattenSeq(tt) = Seqs!FlattenSeq(tt)
    BY <2>2, ConcatEmptySeq
  <2> QED  BY <1>3, <1>6, <2>1, <2>3
<1>7. CASE m = 0
  <2>1. all = ss
    BY <1>3, <1>7, ConcatEmptySeq
  <2>2. Seqs!FlattenSeq(ss) \in Seq(H)
    BY <1>3, <1>4
  <2>3. Seqs!FlattenSeq(ss) \o <<>> = Seqs!FlattenSeq(ss)
    BY <2>2, ConcatEmptySeq
  <2> QED  BY <1>3, <1>7, <2>1, <2>3
<1> HIDE DEF n, m, all
<1>8. CASE n # 0 /\ m # 0
  <2>1. all \in [1 .. n + m -> Seq(H)] /\ n + m \in Nat \ {0}
    BY <1>1, <1>2, <1>8
  <2>2. \A i \in 1 .. n : all[i] = ss[i]
    BY <1>1, <1>2
  <2>3. \A i \in 1 .. m : all[n + i] = tt[i]
    <3> SUFFICES ASSUME NEW i \in 1 .. m PROVE all[n + i] = tt[i]
      OBVIOUS
    <3>1. n + i \in 1 .. n + m /\ ~(n + i <= n) /\ (n + i) - n = i
      BY <1>1
    <3>2. all[n + i] = tt[(n + i) - n]
      BY <3>1, <1>2
    <3> QED  BY <3>1, <3>2
  <2>4. InTwo(all, n + m, ss, n, tt, m, H)
    BY <1>1, <1>8, <2>1, <2>2, <2>3 DEF InTwo
  <2>5. Seqs!FlattenSeq(all) = Seqs!FlattenSeq(ss) \o Seqs!FlattenSeq(tt)
    <3> DEFINE sum == n + m
    <3>1. InTwo(all, sum, ss, n, tt, m, H)
      BY <2>4
    <3> HIDE DEF sum
    <3> QED  BY <3>1, FlattenTwo
  <2> QED  BY <2>5 DEF all
<1> QED  BY <1>1, <1>6, <1>7, <1>8 DEF all
=============================================================================
