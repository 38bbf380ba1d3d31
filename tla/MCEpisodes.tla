----------------------------- MODULE MCEpisodes -----------------------------
(* A small instance of Episodes for TLC. *)
EXTENDS Episodes, TLC
=============================================================================
