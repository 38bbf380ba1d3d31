------------------------------ MODULE AuditLog ------------------------------
(***************************************************************************)
(* What the mutations table promises its readers: rows are only appended,  *)
(* what a row says about the edit never changes, a row that was decided    *)
(* never goes back to pending_review, and a key revocation closes all and  *)
(* only the pending rows of one key.                                       *)
(***************************************************************************)
EXTENDS Naturals, Sequences

CONSTANTS Edits,   \* what a row records of an edit: fields, old, new, actor
          Keys

VARIABLE entries

Row(e, st, by) ==
    [fields |-> e.fields, old |-> e.old, new |-> e.new, actor |-> e.actor,
     status |-> st, by |-> by]

Init == entries = <<>>

Record ==
    /\ Len(entries') = Len(entries) + 1
    /\ \E e \in Edits :
          entries' = Append(entries, Row(e, "pending_review", "nobody"))

Decide ==
    \E i \in DOMAIN entries, verdict \in {"approved", "rejected", "reverted"} :
        entries' = [entries EXCEPT ![i] = Row(@, verdict, "moderator")]

CloseKey ==
    \E k \in Keys :
        /\ \E i \in DOMAIN entries : /\ entries[i].actor = k
                                     /\ entries[i].status = "pending_review"
        /\ entries' = [i \in 1..Len(entries) |->
               IF /\ entries[i].actor = k
                  /\ entries[i].status = "pending_review"
               THEN Row(entries[i], "rejected", "key-revoked")
               ELSE entries[i]]

Next == Record \/ Decide \/ CloseKey

Spec == Init /\ [][Next]_entries
=============================================================================
