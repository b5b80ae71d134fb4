----------------------------- MODULE MCDiskCache -----------------------------
(* Values for the constants of DiskCache. *)
EXTENDS DiskCache, TLC

CONSTANTS w1, w2, w3, k1, k2, p1, p2

\* Every client requests every key.
MCAllKeys == [w \in Workers |-> Keys]

\* Each client has a key of its own.
MCOwnKey == [w \in Workers |-> IF w = w1 THEN {k1} ELSE {k2}]

\* The hash tells the keys apart, or does not.
MCDistinctPaths == [k \in Keys |-> IF k = k1 THEN p1 ELSE p2]
MCSamePath == [k \in Keys |-> p1]

\* No key has a newline.
MCPlain == [k \in Keys |-> k]
MCNoRest == [k \in Keys |-> <<>>]

\* k2 is k1, a newline and a text that reads as an entry without a date.
MCNewline == [k \in Keys |-> k1]
MCUndated ==
    [k \in Keys |->
        IF k = k2 THEN <<[key |-> k1, path |-> p2, expires |-> 0]>> ELSE <<>>]

MCWorkerSymmetry == Permutations(Workers)
==============================================================================
