------------------------------- MODULE KadDHT -------------------------------
(* One routing table used on its own (net/kad.go): any order of Insert,       *)
(* Update and Remove, over handlers that may share an id.  NaiveP2PServer     *)
(* inserts more carefully (module P2PServer).  A call on an id with no bucket  *)
(* ends the process with an index panic.                                      *)
EXTENDS KadTable, Naturals, Sequences, FiniteSets

CONSTANTS Self, Handlers, DstOf

ASSUME KadAssumption == /\ Self \in NodeID
                        /\ DstOf \in [Handlers -> NodeID]

VARIABLES KBucket,   \* the table
          panicked   \* a call has indexed past the last bucket

vars == <<KBucket, panicked>>

Init == KBucket = NewKadDHT /\ panicked = FALSE

\* Any of the calls, on an id that has no bucket.
Panic(id) ==
  /\ ~panicked /\ ~HasBucket(Self, id)
  /\ panicked' = TRUE
  /\ UNCHANGED KBucket

\* A handler object is inserted once at a time, as its owner does.
InsertHandler(h) ==
  /\ ~panicked /\ HasBucket(Self, DstOf[h]) /\ h \notin Entries(KBucket)
  /\ KBucket' = Insert(KBucket, Self, DstOf, h)
  /\ UNCHANGED panicked

UpdateId(id) ==
  /\ ~panicked /\ HasBucket(Self, id)
  /\ KBucket' = Update(KBucket, Self, DstOf, id)
  /\ UNCHANGED panicked

RemoveId(id) ==
  /\ ~panicked /\ HasBucket(Self, id)
  /\ KBucket' = Remove(KBucket, Self, DstOf, id)
  /\ UNCHANGED panicked

Next ==
  \/ \E h \in Handlers : InsertHandler(h)
  \/ \E id \in NodeID : Panic(id) \/ UpdateId(id) \/ RemoveId(id)

Spec == Init /\ [][Next]_vars
-----------------------------------------------------------------------------
\* Every entry is a handler whose id belongs to the bucket it is in.
TypeOK ==
  /\ KBucket \in [Buckets -> Seq(Handlers)]
  /\ panicked \in BOOLEAN
  /\ \A b \in Buckets : \A i \in DOMAIN KBucket[b] :
        getKDist(DstOf[KBucket[b][i]], Self) = b

\* GetK answers a routing question: of the entries it leaves out, none is
\* nearer to the id than one it returns, the entries of the first bucket it
\* walks (which are not ordered by distance) aside; and when it returns fewer
\* than K it has left out only entries further from this node than the id is.
GetKNearest ==
  \A id \in {i \in NodeID : HasBucket(Self, i)} :
    LET ret  == GetK(KBucket, Self, id)
        in   == {ret[i] : i \in DOMAIN ret}
        out  == Entries(KBucket) \ in
        Far(h) == getKDist(DstOf[h], id)
        Own(h) == getKDist(DstOf[h], Self)
    IN  /\ Len(ret) <= K
        /\ Cardinality(in) = Len(ret)
        /\ \A e \in in, f \in out :
             Far(e) <= Far(f) \/ Own(e) = Own(f)
        /\ Len(ret) < K => \A f \in out : Own(f) > getKDist(id, Self)

\* The handlers of a list that lead to an id, in their order.
Leading(list, id) ==
  Seqs!FlattenSeq([i \in DOMAIN list |-> IF DstOf[list[i]] = id THEN <<list[i]>> ELSE <<>>])

\* The directory of stacks the table stands for, and what Get and Has say.
Stack == [id \in NodeID |->
            IF HasBucket(Self, id) THEN Leading(KBucket[getKDist(id, Self)], id)
                                   ELSE <<>>]
Found == [id \in NodeID |->
            IF HasBucket(Self, id) /\ Has(KBucket, Self, DstOf, id)
            THEN Get(KBucket, Self, DstOf, id) ELSE NoHandler]

D == INSTANCE Directory WITH Ids <- NodeID, stack <- Stack, found <- Found

\* Bucket order, sharing of a bucket by several ids and MoveToFront are
\* invisible: the table implements the directory, look-ups included.
ImplementsDirectory == D!Spec

\* TestInsert inserts a handler and looks it up (net/kad_test.go:35-36): a
\* handler of any id can be inserted and found.
InsertNeverPanics == ~panicked
=============================================================================
