---------------------------- MODULE MCWriteQuota ----------------------------
(* A small instance of WriteQuota for TLC. *)
EXTENDS WriteQuota, TLC

Sym == Permutations(Slots) \cup Permutations(Users)
=============================================================================
