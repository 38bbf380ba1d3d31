--------------------------- MODULE ProjectClaims ---------------------------
(* A statement of the repository about projects that the code breaks. *)
EXTENDS ProjectPersistence

(* "Migration failure is non-fatal -- projects stay in localStorage"       *)
(* (use-migration.ts:34): the local copy goes only when the row has it.    *)
(* ApiProjectStore.save swallows its errors, so the delete follows anyway. *)
MigrationKeepsProjects ==
    [][local # None /\ local' = None => In(local) \subseteq In(server')]_vars
=============================================================================
