----------------------------- MODULE Directory -----------------------------
(* What a routing table promises, whatever its buckets: for each id the       *)
(* handlers inserted under it and not yet removed, the last inserted first,   *)
(* which is also the one a look-up finds.                                     *)
EXTENDS Sequences

CONSTANTS Ids, Handlers, NoHandler,
          DstOf                  \* DstOf[h] is the id handler h leads to

VARIABLES stack,                 \* Ids -> Seq(Handlers)
          found                  \* what a look-up of each id finds

Init == /\ stack = [id \in Ids |-> <<>>]
        /\ found = [id \in Ids |-> NoHandler]

\* A handler is put on top of those already kept for its id.
Insert(h) ==
  /\ stack' = [stack EXCEPT ![DstOf[h]] = <<h>> \o @]
  /\ found' = [found EXCEPT ![DstOf[h]] = h]

\* The latest handler of an id is dropped.
Remove(id) ==
  /\ stack[id] # <<>>
  /\ stack' = [stack EXCEPT ![id] = Tail(@)]
  /\ found' = [found EXCEPT ![id] = IF stack'[id] = <<>> THEN NoHandler ELSE Head(stack'[id])]

Next == (\E h \in Handlers : Insert(h)) \/ (\E id \in Ids : Remove(id))

Spec == Init /\ [][Next]_<<stack, found>>
=============================================================================
