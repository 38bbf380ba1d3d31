--------------------------- MODULE MCSearchMirror ---------------------------
(* A small instance of SearchMirror for TLC. *)
EXTENDS SearchMirror, TLC

CONSTANTS a, b, c, d1, d2

MCSlugs == {a, b, c}
MCDocs == {d1, d2}
MCSeeded == <<a, b>>
=============================================================================
