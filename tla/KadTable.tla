------------------------------ MODULE KadTable ------------------------------
(* The routing table of a node (net/kad.go), as operators on a table value.  *)
(* A table is a function from bucket numbers to lists of handlers, most      *)
(* recently used first; `ids' gives the id a handler leads to.  An id, the    *)
(* code's [20]byte, is the set of its bits that are 1, numbered from 1, the   *)
(* lowest bit of byte 0, upwards.                                             *)
LOCAL INSTANCE Naturals
LOCAL INSTANCE Sequences
Seqs == INSTANCE SequencesExt

CONSTANTS IdBits,   \* 160 in the code: 8*len(id)
          K,        \* KadDHT.K, the most entries GetK returns
          NoHandler \* Go's nil

ASSUME TableAssumption == IdBits \in Nat \ {0} /\ K \in Nat \ {0}

NodeID == SUBSET (1 .. IdBits)

\* The number of the highest bit in which the ids differ, 0 for equal ids.
Diff(a, b) == (a \ b) \cup (b \ a)
getKDist(a, b) ==
  IF Diff(a, b) = {} THEN 0
  ELSE CHOOSE d \in Diff(a, b) : \A e \in Diff(a, b) : e <= d

\* NewKadDHT makes 8*len(id) buckets, so the last distance has none: every
\* operation on an id at that distance panics with an index out of range.
Buckets == 0 .. IdBits - 1
HasBucket(self, id) == getKDist(id, self) \in Buckets

NewKadDHT == [b \in Buckets |-> <<>>]

Positions(list, ids, id) == {i \in DOMAIN list : ids[list[i]] = id}
First(S) == CHOOSE i \in S : \A j \in S : i <= j

\* Mutant: the distance is that of the id to itself.
InsertMisplaced(table, self, ids, h) ==
  [table EXCEPT ![getKDist(self, self)] = <<h>> \o @]

Insert(table, self, ids, h) ==
  [table EXCEPT ![getKDist(ids[h], self)] = <<h>> \o @]

Get(table, self, ids, id) ==
  LET list == table[getKDist(id, self)]
      hits == Positions(list, ids, id)
  IN  IF hits = {} THEN NoHandler ELSE list[First(hits)]

Has(table, self, ids, id) ==
  Positions(table[getKDist(id, self)], ids, id) # {}

Update(table, self, ids, id) ==
  LET b    == getKDist(id, self)
      hits == Positions(table[b], ids, id)
  IN  IF hits = {} THEN table
      ELSE [table EXCEPT ![b] = <<@[First(hits)]>> \o Seqs!RemoveAt(@, First(hits))]

\* Mutant: the oldest entry of the id goes.
RemoveLast(table, self, ids, id) ==
  LET b    == getKDist(id, self)
      hits == Positions(table[b], ids, id)
      last == CHOOSE i \in hits : \A j \in hits : j <= i
  IN  IF hits = {} THEN table
      ELSE [table EXCEPT ![b] = Seqs!RemoveAt(@, last)]

Remove(table, self, ids, id) ==
  LET b    == getKDist(id, self)
      hits == Positions(table[b], ids, id)
  IN  IF hits = {} THEN table
      ELSE [table EXCEPT ![b] = Seqs!RemoveAt(@, First(hits))]

\* Mutant: the walk goes up from bucket 0.
GetKUpwards(table, self, id) ==
  LET top  == getKDist(id, self)
      walk == Seqs!FlattenSeq([i \in 1 .. top + 1 |-> table[i - 1]])
  IN  SubSeq(walk, 1, IF Len(walk) < K THEN Len(walk) ELSE K)

\* From the bucket of id down to bucket 0, each from its front, K at most.
GetK(table, self, id) ==
  LET top  == getKDist(id, self)
      walk == Seqs!FlattenSeq([i \in 1 .. top + 1 |-> table[top + 1 - i]])
  IN  SubSeq(walk, 1, IF Len(walk) < K THEN Len(walk) ELSE K)

InBucket(table, b) == {table[b][i] : i \in DOMAIN table[b]}
Entries(table) == UNION {InBucket(table, b) : b \in Buckets}
=============================================================================
