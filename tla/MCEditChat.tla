----------------------------- MODULE MCEditChat -----------------------------
(* A small instance of EditChat for TLC. *)
EXTENDS EditChat, TLC
=============================================================================
