----------------------------- MODULE EditClaims -----------------------------
(***************************************************************************)
(* Statements the repository makes about live edits and their moderation   *)
(* that the code does not keep.  Each is quoted, and each has a run whose  *)
(* counterexample is the shortest way the code departs from it.            *)
(***************************************************************************)
EXTENDS EditModeration

Quiet == \A s \in Slots : job[s] = Idle

(* "Reject undoes the change by restoring old_values to the live row."     *)
(* (repo/prisma.ts:337).  So once every edit is withdrawn the record is    *)
(* what it was.  Fails for an edit that added a field: old_values cannot   *)
(* hold "undefined", and the merge that restores it removes no key.        *)
RejectUndoesTheChange ==
    /\ Quiet
    /\ live # NoRecord
    /\ \A i \in DOMAIN log : log[i].by = "moderator" /\ log[i].status = "rejected"
    => live = seed

(* "shallow-merge the incoming JSON into the existing `data` blob"         *)
(* (repo/types.ts:88).  Fails when two requests patch different fields:    *)
(* each writes back the whole blob it read, and the first edit is lost.    *)
PatchMergesIntoTheLiveBlob ==
    [][\A s \in Slots :
         job[s].at = "store" /\ live' # live /\ job'[s] # job[s]
             => live' = Merge(live, job[s].patch)]_vars
=============================================================================
