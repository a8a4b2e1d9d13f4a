---------------------------- MODULE KadDHTProofs ----------------------------
(* A routing table under any calls (KadDHT): its lists hold handlers, each in *)
(* the bucket of its id, for ids of any width, any handlers and any ids.      *)
EXTENDS KadDHT, KadTableProofs, FiniteSetTheorems, FunctionTheorems

\* The agreement of buckets and distances, said of what the buckets hold.
Placed == \A b \in Buckets : \A h \in InBucket(KBucket, b) : getKDist(DstOf[h], Self) = b

\* TypeOK by parts: an entry is in the list of its bucket at some place.
LEMMA TypeParts ==
  ASSUME KBucket \in TableOf(Handlers)
  PROVE  (\A b \in Buckets : \A i \in DOMAIN KBucket[b] :
             getKDist(DstOf[KBucket[b][i]], Self) = b) <=> Placed
BY DEF Placed, InBucket

\* A call of Insert, Update or Remove leaves every handler in the bucket of its
\* id: Insert puts one there, the others move and drop within one list.
LEMMA TypeStep == TypeOK /\ [Next]_vars => TypeOK'
<1> SUFFICES ASSUME TypeOK, [Next]_vars PROVE TypeOK'
  OBVIOUS
<1>1. KBucket \in TableOf(Handlers) /\ panicked \in BOOLEAN /\ Placed
  BY TypeParts DEF TypeOK, TableOf
<1>2. SUFFICES KBucket' \in TableOf(Handlers) /\ panicked' \in BOOLEAN /\ Placed'
  BY DEF TypeOK, TableOf, Placed, InBucket
<1>3. ASSUME NEW h \in Handlers, InsertHandler(h)
      PROVE  KBucket' \in TableOf(Handlers) /\ panicked' \in BOOLEAN /\ Placed'
  <2> DEFINE new == Insert(KBucket, Self, DstOf, h)
  <2>1. /\ KBucket' = new /\ panicked' = panicked
        /\ HasBucket(Self, DstOf[h])
    BY <1>3 DEF InsertHandler
  <2>2. /\ new \in TableOf(Handlers)
        /\ \A b \in Buckets : InBucket(new, b) =
             IF b = getKDist(DstOf[h], Self) THEN InBucket(KBucket, b) \cup {h}
                                             ELSE InBucket(KBucket, b)
    BY <1>1, <2>1, InsertIs
  <2> HIDE DEF new
  <2> QED  BY <1>1, <2>1, <2>2 DEF Placed
<1>4. ASSUME NEW id \in NodeID, UpdateId(id)
      PROVE  KBucket' \in TableOf(Handlers) /\ panicked' \in BOOLEAN /\ Placed'
  <2> DEFINE new == Update(KBucket, Self, DstOf, id)
  <2>1. KBucket' = new /\ panicked' = panicked /\ HasBucket(Self, id)
    BY <1>4 DEF UpdateId
  <2>2. new \in TableOf(Handlers) /\ \A b \in Buckets : InBucket(new, b) = InBucket(KBucket, b)
    BY <1>1, <2>1, UpdateIs
  <2> HIDE DEF new
  <2> QED  BY <1>1, <2>1, <2>2 DEF Placed
<1>5. ASSUME NEW id \in NodeID, RemoveId(id)
      PROVE  KBucket' \in TableOf(Handlers) /\ panicked' \in BOOLEAN /\ Placed'
  <2> DEFINE new == Remove(KBucket, Self, DstOf, id)
  <2>1. KBucket' = new /\ panicked' = panicked
    BY <1>5 DEF RemoveId
  <2>2. new \in TableOf(Handlers) /\ \A b \in Buckets : InBucket(new, b) \subseteq InBucket(KBucket, b)
    BY <1>1, RemoveIs
  <2> HIDE DEF new
  <2> QED  BY <1>1, <2>1, <2>2 DEF Placed
<1>6. ASSUME NEW id \in NodeID, Panic(id)
      PROVE  KBucket' \in TableOf(Handlers) /\ panicked' \in BOOLEAN /\ Placed'
  BY <1>1, <1>6 DEF Panic, Placed
<1>7. CASE UNCHANGED vars
  BY <1>1, <1>7 DEF vars, Placed
<1> QED  BY <1>3, <1>4, <1>5, <1>6, <1>7 DEF Next

\* Whatever is called, a handler is only ever looked for where it is: in the
\* list its id's distance names (net/kad.go:56, :62, :74, :84, :94).
THEOREM TypeCorrect == Spec => []TypeOK
<1>1. Init => TypeOK
  <2> SUFFICES ASSUME Init PROVE TypeOK
    OBVIOUS
  <2>1. \A b \in Buckets : KBucket[b] = <<>>
    BY DEF Init, NewKadDHT
  <2>2. <<>> \in Seq(Handlers) /\ DOMAIN <<>> = 1 .. 0
    OBVIOUS
  <2>3. KBucket \in [Buckets -> Seq(Handlers)]
    BY <2>2 DEF Init, NewKadDHT
  <2>4. \A b \in Buckets : \A i \in DOMAIN KBucket[b] : FALSE
    BY <2>1, <2>2
  <2> QED  BY <2>3, <2>4 DEF Init, TypeOK
<1> QED  BY <1>1, TypeStep, PTL DEF Spec
-----------------------------------------------------------------------------
\* Each handler stays in one bucket, once, as it is inserted when it is in none.
LEMMA SortedStep == TypeOK /\ Sorted(KBucket, Self, DstOf) /\ [Next]_vars
                      => Sorted(KBucket, Self, DstOf)'
<1> SUFFICES ASSUME TypeOK, Sorted(KBucket, Self, DstOf), [Next]_vars
             PROVE  Sorted(KBucket', Self, DstOf)
  BY DEF Sorted, Once, InBucket
<1>1. KBucket \in TableOf(Handlers)
  BY DEF TypeOK, TableOf
<1>2. CASE \E h \in Handlers : InsertHandler(h)
  BY <1>1, <1>2, InsertSorted DEF InsertHandler
<1>3. CASE \E id \in NodeID : UpdateId(id)
  BY <1>1, <1>3, MoveSorted DEF UpdateId
<1>4. CASE \E id \in NodeID : RemoveId(id)
  BY <1>1, <1>4, MoveSorted DEF RemoveId
<1>5. CASE UNCHANGED KBucket
  BY <1>5
<1> QED  BY <1>2, <1>3, <1>4, <1>5 DEF Next, Panic, vars

\* What is not one of the first K on the walk is no nearer to the id than what
\* is: distances to the id follow from the distances to the node.
LEMMA Nearest == TypeOK /\ Sorted(KBucket, Self, DstOf) => GetKNearest
<1> SUFFICES ASSUME TypeOK, Sorted(KBucket, Self, DstOf),
                    NEW id \in NodeID, HasBucket(Self, id)
             PROVE  LET ret == GetK(KBucket, Self, id)
                        in  == {ret[i] : i \in DOMAIN ret}
                        out == Entries(KBucket) \ in
                        Far(h) == getKDist(DstOf[h], id)
                        Own(h) == getKDist(DstOf[h], Self)
                    IN  /\ Len(ret) <= K
                        /\ Cardinality(in) = Len(ret)
                        /\ \A e \in in, f \in out :
                              Far(e) <= Far(f) \/ Own(e) = Own(f)
                        /\ Len(ret) < K => \A f \in out : Own(f) > getKDist(id, Self)
  BY DEF GetKNearest
<1> DEFINE ret == GetK(KBucket, Self, id)
           top == getKDist(id, Self)
           in  == {ret[i] : i \in DOMAIN ret}
           out == Entries(KBucket) \ in
           Far(h) == getKDist(DstOf[h], id)
           Own(h) == getKDist(DstOf[h], Self)
<1>1. KBucket \in TableOf(Handlers)
  BY DEF TypeOK, TableOf
<1>2. /\ ret \in Seq(Handlers) /\ Len(ret) <= K /\ Once(ret)
      /\ \A p \in DOMAIN ret : Own(ret[p]) \in 0 .. top
      /\ \A b \in 0 .. top : \A h \in InBucket(KBucket, b) :
           \/ Holds(ret, h)
           \/ Len(ret) = K /\ \A p \in DOMAIN ret : b <= Own(ret[p])
  BY <1>1, GetKWalks
<1>3. \A g : Holds(ret, g) <=> g \in in
  BY DEF Holds
<1>4. /\ Self \in NodeID /\ top \in 0 .. IdBits /\ IdBits \in Nat /\ K \in Nat
      /\ \A h \in Handlers : DstOf[h] \in NodeID
  BY KadAssumption, TableAssumption, DistIs
<1>5. in \subseteq Handlers
  BY <1>2
<1>6. \A f \in out : f \in Handlers /\ \E b \in Buckets : f \in InBucket(KBucket, b) /\ Own(f) = b
  <2> SUFFICES ASSUME NEW f \in out
               PROVE  f \in Handlers /\ \E b \in Buckets : f \in InBucket(KBucket, b) /\ Own(f) = b
    OBVIOUS
  <2>1. PICK b \in Buckets : f \in InBucket(KBucket, b)
    BY DEF Entries
  <2>2. f \in Handlers
    BY <1>1, <2>1, InBucketIs
  <2>3. Own(f) = b
    BY <2>1 DEF Sorted
  <2> QED  BY <2>1, <2>2, <2>3
<1>7. Cardinality(in) = Len(ret)
  <2>1. Len(ret) \in Nat /\ DOMAIN ret = 1 .. Len(ret)
    BY <1>2
  <2> DEFINE g == [i \in 1 .. Len(ret) |-> ret[i]]
  <2>2. g \in Bijection(1 .. Len(ret), in)
    <3>1. g \in [1 .. Len(ret) -> in]
      BY <2>1
    <3>2. \A a, b \in 1 .. Len(ret) : g[a] = g[b] => a = b
      BY <1>2, <2>1 DEF Once
    <3>3. \A t \in in : \E a \in 1 .. Len(ret) : g[a] = t
      BY <2>1
    <3> HIDE DEF g, in
    <3> QED  BY <3>1, <3>2, <3>3, Fun_IsBij
  <2>3. ExistsBijection(1 .. Len(ret), in)
    BY <2>2 DEF ExistsBijection
  <2> HIDE DEF in
  <2> QED  BY <2>1, <2>3, FS_CountingElements
<1> HIDE DEF in, ret
<1>8. ASSUME NEW f \in out, Own(f) \in 0 .. top
      PROVE  Len(ret) = K /\ \A e \in in : Own(f) <= Own(e)
  <2>1. ~Holds(ret, f) /\ f \in InBucket(KBucket, Own(f))
    BY <1>3, <1>6
  <2>2. Len(ret) = K /\ \A p \in DOMAIN ret : Own(f) <= Own(ret[p])
    BY <2>1, <1>2, <1>8
  <2> QED  BY <2>2 DEF in
<1>9. \A e \in in : e \in Handlers /\ Own(e) \in 0 .. top
  BY <1>2, <1>5 DEF in
<1>10. ASSUME NEW e \in in, NEW f \in out
       PROVE  Far(e) <= Far(f) \/ Own(e) = Own(f)
  <2> DEFINE be == Own(e)
             bf == Own(f)
             de == Far(e)
             df == Far(f)
  <2>1. /\ be \in Nat /\ bf \in Nat /\ de \in Nat /\ df \in Nat /\ top \in Nat
        /\ be <= top
    <3>1. e \in Handlers /\ f \in Handlers /\ be \in 0 .. top
      BY <1>6, <1>9
    <3> QED  BY <3>1, <1>4, DistIs
  <2>2. top = getKDist(Self, id)
    <3>1. Diff(id, Self) = Diff(Self, id)
      BY DEF Diff
    <3> QED  BY <3>1 DEF getKDist
  <2>3. /\ de <= be \/ de <= top
        /\ bf < top => df = top
        /\ top < bf => df = bf
        /\ be < top => de = top
    <3>1. DstOf[e] \in NodeID /\ DstOf[f] \in NodeID
      BY <1>4, <1>6, <1>9
    <3> QED  BY <2>2, <3>1, <1>4, DistOver
  <2>4. bf <= top => bf <= be
    <3>1. bf \in 0 .. top => bf <= be
      BY <1>8
    <3> HIDE DEF be, bf, top
    <3> QED  BY <2>1, <3>1
  <2> HIDE DEF be, bf, de, df, top
  <2>5. de <= df \/ be = bf
    BY <2>1, <2>3, <2>4
  <2> QED  BY <2>5 DEF be, bf, de, df
<1>11. ASSUME Len(ret) < K, NEW f \in out PROVE Own(f) > top
  <2>1. Own(f) \in Nat
    BY <1>4, <1>6, DistIs
  <2>2. Own(f) \notin 0 .. top
    BY <1>2, <1>4, <1>8, <1>11
  <2> QED  BY <2>1, <2>2, <1>4
<1> QED  BY <1>2, <1>7, <1>10, <1>11 DEF in, ret

\* GetK answers a routing question in every state of the table: with the K
\* handlers that come first on its walk, of which none comes twice and none is
\* further from the id than one left out of another bucket (net/kad.go:103).
THEOREM NearestCorrect == Spec => []GetKNearest
<1>1. Init => Sorted(KBucket, Self, DstOf)
  BY DEF Init, NewKadDHT, Sorted, Once, InBucket
<1>2. TypeOK /\ Sorted(KBucket, Self, DstOf) /\ [Next]_vars => Sorted(KBucket, Self, DstOf)'
  BY SortedStep
<1> QED  BY <1>1, <1>2, TypeCorrect, Nearest, PTL DEF Spec
-----------------------------------------------------------------------------
\* What a list has of an id, entry by entry.
Kept(list, id) ==
  [i \in DOMAIN list |-> IF DstOf[list[i]] = id THEN <<list[i]>> ELSE <<>>]

\* It has a list, empty or of one handler, for each entry.
LEMMA KeptIs ==
  ASSUME NEW list \in Seq(Handlers), NEW id
  PROVE  Kept(list, id) \in Seq(Seq(Handlers)) /\ Len(Kept(list, id)) = Len(list)
<1>1. DOMAIN list = 1 .. Len(list) /\ Len(list) \in Nat
  OBVIOUS
<1>2. \A i \in 1 .. Len(list) : Kept(list, id)[i] \in Seq(Handlers)
  <2>1. \A i \in 1 .. Len(list) : list[i] \in Handlers
    OBVIOUS
  <2>2. \A h \in Handlers : <<h>> \in Seq(Handlers)
    OBVIOUS
  <2>3. <<>> \in Seq(Handlers)
    OBVIOUS
  <2> QED  BY <1>1, <2>1, <2>2, <2>3 DEF Kept
<1>3. Kept(list, id) \in [1 .. Len(list) -> Seq(Handlers)]
  BY <1>1, <1>2 DEF Kept
<1> QED  BY <1>1, <1>3

\* The handlers of an id, of two lists one after the other.
LEMMA LeadingConcat ==
  ASSUME NEW u \in Seq(Handlers), NEW v \in Seq(Handlers), NEW id
  PROVE  Leading(u \o v, id) = Leading(u, id) \o Leading(v, id)
<1> DEFINE w == u \o v
<1>1. /\ w \in Seq(Handlers) /\ Len(w) = Len(u) + Len(v)
      /\ \A i \in 1 .. Len(u) + Len(v) : w[i] = IF i <= Len(u) THEN u[i] ELSE v[i - Len(u)]
  BY ConcatProperties
<1> HIDE DEF w
<1> DEFINE x == Kept(u, id)
           y == Kept(v, id)
           z == Kept(w, id)
<1>2. /\ x \in Seq(Seq(Handlers)) /\ Len(x) = Len(u)
      /\ y \in Seq(Seq(Handlers)) /\ Len(y) = Len(v)
      /\ z \in Seq(Seq(Handlers)) /\ Len(z) = Len(u) + Len(v)
  BY <1>1, KeptIs
<1>3. /\ \A i \in 1 .. Len(u) : x[i] = IF DstOf[u[i]] = id THEN <<u[i]>> ELSE <<>>
      /\ \A i \in 1 .. Len(v) : y[i] = IF DstOf[v[i]] = id THEN <<v[i]>> ELSE <<>>
      /\ \A i \in 1 .. Len(u) + Len(v) : z[i] = IF DstOf[w[i]] = id THEN <<w[i]>> ELSE <<>>
  BY <1>1 DEF Kept
<1> HIDE DEF x, y, z
<1>4. /\ x \o y \in Seq(Seq(Handlers)) /\ Len(x \o y) = Len(u) + Len(v)
      /\ \A i \in 1 .. Len(u) + Len(v) :
            (x \o y)[i] = IF i <= Len(u) THEN x[i] ELSE y[i - Len(u)]
  <2> DEFINE S == Seq(Handlers)
  <2>1. x \in Seq(S) /\ y \in Seq(S)
    BY <1>2
  <2> HIDE DEF S
  <2>2. /\ x \o y \in Seq(S) /\ Len(x \o y) = Len(x) + Len(y)
        /\ \A i \in 1 .. Len(x) + Len(y) :
              (x \o y)[i] = IF i <= Len(x) THEN x[i] ELSE y[i - Len(x)]
    BY <2>1, ConcatProperties
  <2>3. Len(x) = Len(u) /\ Len(y) = Len(v)
    BY <1>2
  <2> QED  BY <2>2, <2>3 DEF S
<1>5. Len(u) \in Nat /\ Len(v) \in Nat
  OBVIOUS
<1>6. ASSUME NEW i \in 1 .. Len(u) + Len(v) PROVE z[i] = (x \o y)[i]
  <2>1. CASE i <= Len(u)
    <3>1. i \in 1 .. Len(u)
      BY <2>1, <1>5
    <3> QED  BY <2>1, <3>1, <1>1, <1>3, <1>4
  <2>2. CASE ~(i <= Len(u))
    <3>1. i - Len(u) \in 1 .. Len(v)
      BY <2>2, <1>5
    <3>2. (x \o y)[i] = y[i - Len(u)] /\ w[i] = v[i - Len(u)]
      BY <2>2, <1>1, <1>4
    <3> QED  BY <3>1, <3>2, <1>3
  <2> QED  BY <2>1, <2>2
<1>7. z = x \o y
  <2> DEFINE xy == x \o y
  <2>1. xy \in Seq(Seq(Handlers)) /\ Len(z) = Len(xy) /\ \A i \in 1 .. Len(z) : z[i] = xy[i]
    BY <1>2, <1>4, <1>6
  <2> HIDE DEF xy
  <2>2. z = xy
    BY <1>2, <2>1, SeqEqual
  <2> QED  BY <2>2 DEF xy
<1>8. Seqs!FlattenSeq(x \o y) = Seqs!FlattenSeq(x) \o Seqs!FlattenSeq(y)
  BY <1>2, FlattenConcat
<1> QED  BY <1>7, <1>8 DEF Leading, Kept, x, y, z, w

\* Of one handler, and of a list in which no handler has the id.
LEMMA LeadingOne ==
  ASSUME NEW h \in Handlers, NEW id
  PROVE  Leading(<<h>>, id) = IF DstOf[h] = id THEN <<h>> ELSE <<>>
<1> DEFINE s == IF DstOf[h] = id THEN <<h>> ELSE <<>>
<1>1. s \in Seq(Handlers)
  OBVIOUS
<1>2. Kept(<<h>>, id) = <<s>>
  BY DEF Kept
<1>3. Seqs!FlattenSeq(<<s>>) = s
  BY <1>1, FlattenOne
<1> QED  BY <1>2, <1>3 DEF Leading, Kept

\* A list without handlers of an id has nothing that leads to it.
LEMMA LeadingNone ==
  ASSUME NEW list \in Seq(Handlers), NEW id, \A h : Holds(list, h) => DstOf[h] # id
  PROVE  Leading(list, id) = <<>>
<1> DEFINE n == Len(list)
           ss == Kept(list, id)
<1>1. n \in Nat /\ DOMAIN list = 1 .. n
  OBVIOUS
<1>2. \A i \in 1 .. n : ss[i] = <<>>
  BY <1>1 DEF Kept, Holds
<1>3. ss \in [1 .. n -> Seq(Handlers)]
  BY KeptIs
<1>4. Seqs!FlattenSeq(ss) = <<>>
  <2> HIDE DEF n, ss
  <2> QED  BY <1>1, <1>2, <1>3, FlattenEmpties
<1> QED  BY <1>4 DEF Leading, Kept

\* What leads to an id is a list of handlers.
LEMMA LeadingType ==
  ASSUME NEW list \in Seq(Handlers), NEW id
  PROVE  Leading(list, id) \in Seq(Handlers)
<1> DEFINE n == Len(list)
           ss == Kept(list, id)
<1>1. n \in Nat /\ ss \in [1 .. n -> Seq(Handlers)]
  BY KeptIs
<1>2. Leading(list, id) = Seqs!FlattenSeq(ss)
  BY DEF Leading, Kept
<1>3. CASE n = 0
  <2>1. ss = <<>>
    BY <1>1, <1>3
  <2>2. <<>> \in Seq(Handlers)
    OBVIOUS
  <2> QED  BY <1>2, <2>1, <2>2, FlattenNone
<1>4. CASE n # 0
  <2> HIDE DEF n, ss
  <2>1. n \in Nat \ {0}
    BY <1>1, <1>4
  <2> QED  BY <1>1, <1>2, <2>1, FlattenIs
<1> QED  BY <1>3, <1>4

\* The directory a table stands for, and its look-ups.
StackOf(t) == [id \in NodeID |-> IF HasBucket(Self, id) THEN Leading(t[getKDist(id, Self)], id)
                                                       ELSE <<>>]
FoundOf(t) == [id \in NodeID |->
                 IF HasBucket(Self, id) /\ Has(t, Self, DstOf, id)
                 THEN Get(t, Self, DstOf, id) ELSE NoHandler]

\* No entry of front leads where x does.
Clear(front, x) == \A g : Holds(front, g) => DstOf[g] # DstOf[x]

\* The handlers of one id around the entry x that a look-up finds.
LEMMA AroundFound ==
  ASSUME NEW x \in Handlers, NEW front \in Seq(Handlers), NEW back \in Seq(Handlers),
         NEW id, Clear(front, x)
  PROVE  /\ Leading((front \o <<x>>) \o back, id) =
              IF id = DstOf[x] THEN <<x>> \o Leading(back, id)
                               ELSE Leading(front, id) \o Leading(back, id)
         /\ Leading(front \o back, id) =
              IF id = DstOf[x] THEN Leading(back, id)
                               ELSE Leading(front, id) \o Leading(back, id)
         /\ Leading(Fronted(x, front \o back), id) = Leading((front \o <<x>>) \o back, id)
<1> DEFINE a == Leading(front, id)
           b == Leading(back, id)
           c == Leading(<<x>>, id)
<1>1. <<x>> \in Seq(Handlers) /\ front \o <<x>> \in Seq(Handlers) /\ front \o back \in Seq(Handlers)
  <2>1. <<x>> \in Seq(Handlers)
    OBVIOUS
  <2> QED  BY <2>1, ConcatIs
<1>2. a \in Seq(Handlers) /\ b \in Seq(Handlers) /\ c = IF DstOf[x] = id THEN <<x>> ELSE <<>>
  BY LeadingType, LeadingOne
<1>3. /\ Leading((front \o <<x>>) \o back, id) = Leading(front \o <<x>>, id) \o b
      /\ Leading(front \o <<x>>, id) = a \o c
      /\ Leading(front \o back, id) = a \o b
      /\ Leading(<<x>> \o (front \o back), id) = c \o Leading(front \o back, id)
  <2> DEFINE one == <<x>>
             fx  == front \o one
             fb  == front \o back
  <2>1. one \in Seq(Handlers) /\ fx \in Seq(Handlers) /\ fb \in Seq(Handlers)
    BY <1>1
  <2>2. ASSUME NEW u \in Seq(Handlers), NEW v \in Seq(Handlers)
        PROVE  Leading(u \o v, id) = Leading(u, id) \o Leading(v, id)
    BY LeadingConcat
  <2>3. Leading(fb, id) = a \o b
    BY <2>2
  <2> HIDE DEF one, a, b, c
  <2>4. Leading(front \o one, id) = Leading(front, id) \o Leading(one, id)
    BY <2>1, <2>2
  <2> HIDE DEF fx, fb
  <2>5. Leading(fx \o back, id) = Leading(fx, id) \o Leading(back, id)
    BY <2>1, <2>2
  <2>6. Leading(one \o fb, id) = Leading(one, id) \o Leading(fb, id)
    BY <2>1, <2>2
  <2> QED  BY <2>3, <2>4, <2>5, <2>6 DEF one, fx, fb, a, b, c
<1>4. id = DstOf[x] => a = <<>>
  BY LeadingNone DEF Clear
<1> HIDE DEF a, b, c
<1>5. /\ <<>> \o b = b /\ a \o <<>> = a
      /\ <<>> \o <<x>> = <<x>>
      /\ <<>> \o (a \o b) = a \o b
  <2>1. a \o b \in Seq(Handlers)
    BY <1>2, ConcatProperties
  <2> QED  BY <1>1, <1>2, <2>1, ConcatEmptySeq
<1>6. CASE id = DstOf[x]
  <2>1. a = <<>> /\ c = <<x>>
    BY <1>2, <1>4, <1>6
  <2> QED  BY <1>3, <1>5, <1>6, <2>1 DEF Fronted, b
<1>7. CASE id # DstOf[x]
  <2>1. c = <<>>
    BY <1>2, <1>7
  <2> QED  BY <1>3, <1>5, <1>7, <2>1 DEF Fronted, a, b
<1> QED  BY <1>6, <1>7

\* A look-up finds the top of the stack, of every id.
LEMMA FoundIsTop ==
  ASSUME NEW t \in TableOf(Handlers)
  PROVE  /\ FoundOf(t) = [id \in NodeID |-> IF StackOf(t)[id] = <<>> THEN NoHandler
                                             ELSE Head(StackOf(t)[id])]
         /\ \A id \in NodeID : StackOf(t)[id] \in Seq(Handlers)
<1> DEFINE s == StackOf(t)
           f == FoundOf(t)
<1>1. /\ \A id \in NodeID : s[id] = IF HasBucket(Self, id)
                                    THEN Leading(t[getKDist(id, Self)], id) ELSE <<>>
      /\ \A id \in NodeID : f[id] = IF HasBucket(Self, id) /\ Has(t, Self, DstOf, id)
                                    THEN Get(t, Self, DstOf, id) ELSE NoHandler
      /\ f = [id \in NodeID |-> f[id]]
  BY DEF StackOf, FoundOf
<1> HIDE DEF s, f
<1>2. ASSUME NEW id \in NodeID
      PROVE  /\ f[id] = IF s[id] = <<>> THEN NoHandler ELSE Head(s[id])
             /\ s[id] \in Seq(Handlers)
  <2>1. CASE ~HasBucket(Self, id)
    <3>1. <<>> \in Seq(Handlers)
      OBVIOUS
    <3> QED  BY <1>1, <2>1, <3>1
  <2>2. CASE HasBucket(Self, id)
    <3> DEFINE list == t[getKDist(id, Self)]
    <3>1. s[id] = Leading(list, id) /\ list \in Seq(Handlers)
      BY <1>1, <2>2 DEF HasBucket, TableOf
    <3>2. s[id] \in Seq(Handlers)
      BY <3>1, LeadingType
    <3>3. CASE NotFound(t, Self, DstOf, id)
      <4>1. s[id] = <<>>
        BY <3>1, <3>3, LeadingNone DEF NotFound
      <4> QED  BY <1>1, <3>2, <3>3, <4>1 DEF NotFound
    <3>4. ASSUME NEW x \in Handlers, NEW front \in Seq(Handlers), NEW back \in Seq(Handlers),
                 FoundIn(t, Self, DstOf, id, x, front, back)
          PROVE  f[id] = IF s[id] = <<>> THEN NoHandler ELSE Head(s[id])
      <4>1. /\ list = (front \o <<x>>) \o back /\ DstOf[x] = id
            /\ Clear(front, x) /\ f[id] = x
        BY <1>1, <2>2, <3>4 DEF FoundIn, Clear
      <4>2. s[id] = <<x>> \o Leading(back, id)
        <5>1. Leading((front \o <<x>>) \o back, id) = <<x>> \o Leading(back, id)
          BY <4>1, AroundFound
        <5> QED  BY <3>1, <4>1, <5>1
      <4>3. Leading(back, id) \in Seq(Handlers)
        BY LeadingType
      <4> DEFINE b == Leading(back, id)
      <4>4. b \in Seq(Handlers) /\ s[id] = <<x>> \o b
        BY <4>2, <4>3
      <4> HIDE DEF b
      <4>5. <<x>> \o b # <<>> /\ Head(<<x>> \o b) = x
        BY <4>4
      <4> QED  BY <4>1, <4>4, <4>5
    <3> QED  BY <2>2, <3>2, <3>3, <3>4, LookUp
  <2> QED  BY <2>1, <2>2
<1> QED  BY <1>1, <1>2 DEF s, f

\* Insert pushes a handler on the stack of its id.
LEMMA InsertStack ==
  ASSUME NEW t \in TableOf(Handlers), NEW h \in Handlers, HasBucket(Self, DstOf[h])
  PROVE  StackOf(Insert(t, Self, DstOf, h)) = [StackOf(t) EXCEPT ![DstOf[h]] = <<h>> \o @]
<1> DEFINE new == Insert(t, Self, DstOf, h)
           c   == getKDist(DstOf[h], Self)
<1>1. /\ c \in Buckets /\ t[c] \in Seq(Handlers) /\ <<h>> \in Seq(Handlers)
      /\ \A b \in Buckets : new[b] = IF b = c THEN <<h>> \o t[c] ELSE t[b]
  <2>1. c \in Buckets
    BY DEF HasBucket
  <2> HIDE DEF c
  <2>2. [t EXCEPT ![c] = <<h>> \o @] = new
    BY DEF Insert, c
  <2>3. \A b \in Buckets : [t EXCEPT ![c] = <<h>> \o @][b] = IF b = c THEN <<h>> \o t[c] ELSE t[b]
    BY <2>1 DEF TableOf
  <2> QED  BY <2>1, <2>2, <2>3 DEF TableOf
<1> HIDE DEF new, c
<1>2. ASSUME NEW id \in NodeID
      PROVE  StackOf(new)[id] = IF id = DstOf[h] THEN <<h>> \o StackOf(t)[id] ELSE StackOf(t)[id]
  <2>1. CASE ~HasBucket(Self, id)
    BY <2>1 DEF StackOf
  <2>2. CASE HasBucket(Self, id)
    <3> DEFINE b == getKDist(id, Self)
    <3>1. /\ StackOf(new)[id] = Leading(new[b], id) /\ StackOf(t)[id] = Leading(t[b], id)
          /\ b \in Buckets /\ t[b] \in Seq(Handlers)
      BY <2>2 DEF StackOf, HasBucket, TableOf
    <3>2. id = DstOf[h] => b = c
      BY DEF c
    <3> HIDE DEF b
    <3>3. CASE b = c
      <4>1. Leading(new[b], id) = Leading(<<h>>, id) \o Leading(t[b], id)
        <5>1. Leading(<<h>> \o t[b], id) = Leading(<<h>>, id) \o Leading(t[b], id)
          <6> DEFINE u == <<h>>
                     v == t[b]
          <6>1. u \in Seq(Handlers) /\ v \in Seq(Handlers)
            BY <1>1, <3>1
          <6> HIDE DEF u, v
          <6>2. Leading(u \o v, id) = Leading(u, id) \o Leading(v, id)
            BY <6>1, LeadingConcat
          <6> QED  BY <6>2 DEF u, v
        <5> QED  BY <1>1, <3>1, <3>3, <5>1
      <4>2. Leading(<<h>>, id) = IF DstOf[h] = id THEN <<h>> ELSE <<>>
        BY LeadingOne
      <4>3. <<>> \o Leading(t[b], id) = Leading(t[b], id)
        BY <3>1, LeadingType, ConcatEmptySeq
      <4> QED  BY <3>1, <4>1, <4>2, <4>3
    <3>4. CASE b # c
      BY <1>1, <3>1, <3>2, <3>4
    <3> QED  BY <3>3, <3>4
  <2> QED  BY <2>1, <2>2
<1>3. /\ StackOf(new) = [id \in NodeID |-> StackOf(new)[id]]
      /\ StackOf(t) = [id \in NodeID |-> StackOf(t)[id]]
  BY DEF StackOf
<1>4. DstOf[h] \in NodeID
  BY KadAssumption
<1> QED  BY <1>2, <1>3, <1>4 DEF new

\* Update changes no stack; Remove pops the one of its id, if there is one.
LEMMA MoveStack ==
  ASSUME NEW t \in TableOf(Handlers), NEW id \in NodeID, HasBucket(Self, id)
  PROVE  /\ StackOf(Update(t, Self, DstOf, id)) = StackOf(t)
         /\ \/ Remove(t, Self, DstOf, id) = t
            \/ /\ StackOf(t)[id] # <<>>
               /\ StackOf(Remove(t, Self, DstOf, id)) = [StackOf(t) EXCEPT ![id] = Tail(@)]
<1> DEFINE updated == Update(t, Self, DstOf, id)
           removed == Remove(t, Self, DstOf, id)
           c       == getKDist(id, Self)
<1>1. CASE NotFound(t, Self, DstOf, id)
  BY <1>1 DEF NotFound
<1>2. ASSUME NEW x \in Handlers, NEW front \in Seq(Handlers), NEW back \in Seq(Handlers),
             FoundIn(t, Self, DstOf, id, x, front, back)
      PROVE  /\ StackOf(updated) = StackOf(t)
             /\ StackOf(t)[id] # <<>>
             /\ StackOf(removed) = [StackOf(t) EXCEPT ![id] = Tail(@)]
  <2>1. /\ c \in Buckets /\ t[c] = (front \o <<x>>) \o back /\ DstOf[x] = id
        /\ Clear(front, x)
        /\ \A b \in Buckets : updated[b] = IF b = c THEN Fronted(x, front \o back) ELSE t[b]
        /\ \A b \in Buckets : removed[b] = IF b = c THEN front \o back ELSE t[b]
    BY <1>2 DEF FoundIn, HasBucket, TableOf, Clear
  <2> HIDE DEF updated, removed, c
  <2>2. ASSUME NEW j \in NodeID
        PROVE  /\ StackOf(updated)[j] = StackOf(t)[j]
               /\ j # id => StackOf(removed)[j] = StackOf(t)[j]
    <3>1. CASE ~HasBucket(Self, j)
      BY <3>1 DEF StackOf
    <3>2. CASE HasBucket(Self, j)
      <4> DEFINE b == getKDist(j, Self)
      <4>1. /\ StackOf(updated)[j] = Leading(updated[b], j)
            /\ StackOf(removed)[j] = Leading(removed[b], j)
            /\ StackOf(t)[j] = Leading(t[b], j) /\ b \in Buckets
        BY <3>2 DEF StackOf, HasBucket
      <4> HIDE DEF b
      <4>2. CASE b # c
        BY <2>1, <4>1, <4>2
      <4>3. CASE b = c
        <5>1. Leading(Fronted(x, front \o back), j) = Leading((front \o <<x>>) \o back, j)
          BY <2>1, AroundFound
        <5>2. CASE j # id
          <6>1. Leading((front \o <<x>>) \o back, j) = Leading(front, j) \o Leading(back, j)
            BY <2>1, <5>2, AroundFound
          <6>2. Leading(front \o back, j) = Leading(front, j) \o Leading(back, j)
            BY <2>1, <5>2, AroundFound
          <6> QED  BY <2>1, <4>1, <4>3, <5>1, <6>1, <6>2
        <5> QED  BY <2>1, <4>1, <4>3, <5>1, <5>2
      <4> QED  BY <4>2, <4>3
    <3> QED  BY <3>1, <3>2
  <2>3. /\ StackOf(t)[id] # <<>>
        /\ StackOf(removed)[id] = Tail(StackOf(t)[id])
    <3>1. /\ StackOf(removed)[id] = Leading(front \o back, id)
          /\ StackOf(t)[id] = Leading((front \o <<x>>) \o back, id)
      BY <2>1 DEF StackOf, c
    <3> DEFINE b == Leading(back, id)
    <3>2. /\ Leading((front \o <<x>>) \o back, id) = <<x>> \o b
          /\ Leading(front \o back, id) = b
      BY <2>1, AroundFound
    <3>3. b \in Seq(Handlers)
      BY LeadingType
    <3> HIDE DEF b
    <3>4. <<x>> \o b # <<>> /\ Tail(<<x>> \o b) = b
      BY <3>3
    <3> QED  BY <3>1, <3>2, <3>4
  <2>4. /\ StackOf(updated) = [j \in NodeID |-> StackOf(updated)[j]]
        /\ StackOf(removed) = [j \in NodeID |-> StackOf(removed)[j]]
        /\ StackOf(t) = [j \in NodeID |-> StackOf(t)[j]]
    BY DEF StackOf
  <2> QED  BY <2>2, <2>3, <2>4
<1> QED  BY <1>1, <1>2, LookUp

\* An empty table stands for the empty directory.
LEMMA DirectoryInit == Init => D!Init
<1> SUFFICES ASSUME Init PROVE D!Init
  OBVIOUS
<1>1. KBucket = NewKadDHT /\ \A b \in Buckets : KBucket[b] = <<>>
  BY DEF Init, NewKadDHT
<1>2. KBucket \in TableOf(Handlers) /\ <<>> \in Seq(Handlers)
  <2>1. <<>> \in Seq(Handlers)
    OBVIOUS
  <2> QED  BY <1>1, <2>1 DEF TableOf, NewKadDHT
<1>3. \A id : Leading(<<>>, id) = <<>>
  <2> SUFFICES ASSUME NEW id PROVE Leading(<<>>, id) = <<>>
    OBVIOUS
  <2>1. \A h : ~Holds(<<>>, h)
    BY DEF Holds
  <2> QED  BY <1>2, <2>1, LeadingNone
<1>4. Stack = [id \in NodeID |-> <<>>]
  BY <1>1, <1>3 DEF Stack, HasBucket
<1>5. Stack = StackOf(KBucket) /\ Found = FoundOf(KBucket)
  BY DEF Stack, Found, StackOf, FoundOf
<1>6. Found = [id \in NodeID |-> NoHandler]
  BY <1>2, <1>4, <1>5, FoundIsTop
<1> QED  BY <1>4, <1>6 DEF D!Init

\* Each call is a step of the directory: Insert pushes, Remove pops or does
\* nothing, Update and a panic are seen by no look-up.
LEMMA DirectoryStep == TypeOK /\ [Next]_vars => [D!Next]_<<Stack, Found>>
<1> SUFFICES ASSUME TypeOK, [Next]_vars PROVE [D!Next]_<<Stack, Found>>
  OBVIOUS
<1>1. KBucket \in TableOf(Handlers)
  BY DEF TypeOK, TableOf
<1>2. /\ Stack = StackOf(KBucket) /\ Stack' = StackOf(KBucket')
      /\ Found = FoundOf(KBucket) /\ Found' = FoundOf(KBucket')
  BY DEF Stack, Found, StackOf, FoundOf
<1>3. KBucket' \in TableOf(Handlers)
  BY TypeStep DEF TypeOK, TableOf
<1>4. /\ Found = [id \in NodeID |-> IF Stack[id] = <<>> THEN NoHandler ELSE Head(Stack[id])]
      /\ Found' = [id \in NodeID |-> IF Stack'[id] = <<>> THEN NoHandler ELSE Head(Stack'[id])]
      /\ \A id \in NodeID : Stack[id] \in Seq(Handlers)
      /\ Stack = [id \in NodeID |-> Stack[id]]
  BY <1>1, <1>2, <1>3, FoundIsTop DEF StackOf
<1>5. ASSUME NEW h \in Handlers, InsertHandler(h) PROVE D!Insert(h)
  <2>1. Stack' = [Stack EXCEPT ![DstOf[h]] = <<h>> \o @]
    BY <1>1, <1>2, <1>5, InsertStack DEF InsertHandler
  <2>2. DstOf[h] \in NodeID
    BY KadAssumption
  <2> DEFINE id == DstOf[h]
             old == Stack[id]
  <2>3. old \in Seq(Handlers) /\ id \in NodeID
    BY <1>4, <2>2
  <2>4. \A j \in NodeID : Stack'[j] = IF j = id THEN <<h>> \o old ELSE Stack[j]
    BY <1>4, <2>1
  <2>5. Found' = [Found EXCEPT ![id] = h]
    <3> HIDE DEF old, id
    <3>1. <<h>> \o old # <<>> /\ Head(<<h>> \o old) = h
      BY <2>3
    <3>2. ASSUME NEW j \in NodeID
          PROVE  (IF Stack'[j] = <<>> THEN NoHandler ELSE Head(Stack'[j]))
                   = (IF j = id THEN h ELSE IF Stack[j] = <<>> THEN NoHandler ELSE Head(Stack[j]))
      BY <2>4, <3>1
    <3>3. Found' = [j \in NodeID |-> IF j = id THEN h
                                     ELSE IF Stack[j] = <<>> THEN NoHandler ELSE Head(Stack[j])]
      BY <1>4, <3>2
    <3> QED  BY <1>4, <2>3, <3>3
  <2> QED  BY <2>1, <2>5 DEF D!Insert
<1>6. ASSUME NEW id \in NodeID, UpdateId(id) PROVE UNCHANGED <<Stack, Found>>
  <2>1. Stack' = Stack
    BY <1>1, <1>2, <1>6, MoveStack DEF UpdateId
  <2> QED  BY <1>4, <2>1
<1>7. ASSUME NEW id \in NodeID, RemoveId(id) PROVE D!Remove(id) \/ UNCHANGED <<Stack, Found>>
  <2>1. KBucket' = Remove(KBucket, Self, DstOf, id) /\ HasBucket(Self, id)
    BY <1>7 DEF RemoveId
  <2>2. CASE KBucket' = KBucket
    BY <1>2, <2>2
  <2>3. CASE Stack[id] # <<>> /\ Stack' = [Stack EXCEPT ![id] = Tail(@)]
    <3>1. \A j \in NodeID : j # id => Stack'[j] = Stack[j]
      BY <1>4, <2>3
    <3>2. Found' = [Found EXCEPT ![id] = IF Stack'[id] = <<>> THEN NoHandler ELSE Head(Stack'[id])]
      <4>1. ASSUME NEW j \in NodeID
            PROVE  (IF Stack'[j] = <<>> THEN NoHandler ELSE Head(Stack'[j]))
                     = (IF j = id THEN IF Stack'[id] = <<>> THEN NoHandler ELSE Head(Stack'[id])
                        ELSE IF Stack[j] = <<>> THEN NoHandler ELSE Head(Stack[j]))
        BY <3>1
      <4>2. Found' = [j \in NodeID |->
                        IF j = id THEN IF Stack'[id] = <<>> THEN NoHandler ELSE Head(Stack'[id])
                        ELSE IF Stack[j] = <<>> THEN NoHandler ELSE Head(Stack[j])]
        BY <1>4, <4>1
      <4> QED  BY <1>4, <4>2
    <3> QED  BY <2>3, <3>2 DEF D!Remove
  <2> QED  BY <1>1, <1>2, <2>1, <2>2, <2>3, MoveStack
<1>8. CASE UNCHANGED KBucket
  BY <1>2, <1>8
<1>9. CASE UNCHANGED vars
  BY <1>8, <1>9 DEF vars
<1>10. ASSUME NEW id \in NodeID, Panic(id) PROVE UNCHANGED KBucket
  BY <1>10 DEF Panic
<1> QED  BY <1>5, <1>6, <1>7, <1>8, <1>9, <1>10 DEF Next, D!Next

\* The table is a directory, whatever its buckets: what Insert, Update and
\* Remove do to the order of a bucket is seen by no look-up, nor is it by the
\* look-ups of the other ids in it (net/kad.go:55-101).
THEOREM DirectoryImplemented == Spec => ImplementsDirectory
BY DirectoryInit, DirectoryStep, TypeCorrect, PTL DEF Spec, ImplementsDirectory, D!Spec
=============================================================================
