---------------------------- MODULE HashConfound ----------------------------
(***************************************************************************)
(* How a worker masks an answer hash with its key and the master unmasks   *)
(* it: big integer arithmetic, and then copy(hash[:], n.Bytes()[:20]).     *)
(*                                                                         *)
(* Bytes() is big endian without leading zero bytes, so [:20] is the whole *)
(* number when it has 20 bytes, drops the LOW byte when it has 21 and      *)
(* panics when it has fewer.  A hash has a top byte and a rest: HashBase   *)
(* is the number of values of a byte and HashUnit the weight of the top    *)
(* byte (256 and 256^19 in the code).                                      *)
(***************************************************************************)
EXTENDS Integers

CONSTANTS HashBase, HashUnit

ASSUME HashBaseAssumption == /\ HashBase \in Nat \ {0, 1}
                             /\ HashUnit \in Nat \ {0}

HashLimit == HashBase * HashUnit
Space == 0 .. HashLimit - 1

\* big.Int.Bytes() keeps the absolute value.
Magnitude(n) == IF n < 0 THEN -n ELSE n

\* The first 20 of the bytes of n.
TooShort(n) == n < HashUnit
First20(n)  == IF n >= HashLimit THEN n \div HashBase ELSE n

Confound(hash, key)   == First20(hash + key)

\* Mutant: the key is not taken off.
UnconfoundKept(hash, key) == First20(Magnitude(hash))

Unconfound(hash, key) == First20(Magnitude(hash - key))

ConfoundPanics(hash, key)   == TooShort(hash + key)
UnconfoundPanics(hash, key) == TooShort(Magnitude(hash - key))
=============================================================================
