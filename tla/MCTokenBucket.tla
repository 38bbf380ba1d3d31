--------------------------- MODULE MCTokenBucket ---------------------------
(* A small instance of TokenBucket for TLC: one bucket of each tier. *)
EXTENDS TokenBucket

CONSTANTS anon, keyed

MCBuckets == {anon, keyed}
MCCapacity == [b \in MCBuckets |-> IF b = anon THEN 2 ELSE 3]
=============================================================================
