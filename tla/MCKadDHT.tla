------------------------------ MODULE MCKadDHT ------------------------------
(* Ids of three bits and five handlers: two share an id, two more share a     *)
(* bucket, one is alone in its bucket.                                        *)
EXTENDS KadDHT

MCSelf == {1}
MCHandlers == 1 .. 5
MCDstOf == <<{}, {2}, {2}, {1, 2}, {1}>>
=============================================================================
