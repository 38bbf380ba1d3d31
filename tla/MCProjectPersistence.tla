------------------------ MODULE MCProjectPersistence ------------------------
(* Small instances of ProjectPersistence for TLC. *)
EXTENDS ProjectClaims, TLC

CONSTANTS t1, t2

MCTabs == {t1, t2}
=============================================================================
