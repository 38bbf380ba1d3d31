----------------------------- MODULE WriteQuota -----------------------------
(***************************************************************************)
(* The cap on a user's edits.  Before a write handler runs, the middleware *)
(* counts the user's mutation rows of the last hours and refuses with 429  *)
(* at the cap; the handler adds the row at its end.  Nothing reserves a    *)
(* place in between, so requests in flight together are all let in.        *)
(*                                                                         *)
(* A user edits with a key of their own, or through the chat, whose server *)
(* sends the forwarder's key and the user's id on behalf of whom it calls. *)
(***************************************************************************)
EXTENDS Naturals, FiniteSets

CONSTANTS
    Users,      \* people with write keys or chat sessions
    Forwarder,  \* owner of the key all chat edits are sent with
    Nobody,     \* author_id of a row whose key knows no users row
    Free,       \* a slot that serves no request
    Slots,      \* write requests the API can be serving at one time
    MaxWrites,  \* the cap (200 in the code)
    Window,     \* how long a row counts (24 hours in the code)
    MaxTime,    \* bound: how far the clock runs
    MaxRows     \* bound: rows ever logged

(* author: author_id.  owner: user_id of the key in actor_id.  by: history, *)
(* the person who made the edit.                                            *)
Request == [author: Users \cup {Nobody}, owner: Users \cup {Forwarder}, by: Users]

ASSUME QuotaOK ==
    /\ Free \notin Request
    /\ Forwarder \notin Users /\ Nobody \notin Users
    /\ IsFiniteSet(Slots)
    /\ MaxWrites \in Nat \ {0} /\ Window \in Nat \ {0}
    /\ MaxTime \in Nat /\ MaxRows \in Nat

VARIABLES
    now,   \* the clock, in hours
    rows,  \* the mutations table
    job    \* per slot: the request the middleware let in, or Free

vars == <<now, rows, job>>

Mutation == [id: Nat, at: Nat, request: Request]

(* seeded fault: rows are joined by the owner of the key only *)
NamesByKey(m, u) == m.request.owner = u

(* countMutationsByUserSince: by author, or by the owner of the key *)
Names(m, u) == m.request.author = u \/ m.request.owner = u

Counts(m, u) == Names(m, u) /\ m.at + Window > now

Counted(u) == {m \in rows : Counts(m, u)}

-----------------------------------------------------------------------------

(* seeded fault: the cap itself is let through *)
UnderCapOrAt(u) == Cardinality(Counted(u)) <= MaxWrites

UnderCap(u) == Cardinality(Counted(u)) < MaxWrites

Admit(s, q) ==
    /\ job[s] = Free
    /\ UnderCap(q.by)
    /\ job' = [job EXCEPT ![s] = q]
    /\ UNCHANGED <<now, rows>>

(* a key the user minted; old keys have no owner_id *)
AdmitKey(s, u) ==
    \E a \in {u, Nobody} : Admit(s, [author |-> a, owner |-> u, by |-> u])

(* seeded fault: a chat edit is attributed to the forwarder *)
AdmitChatAsForwarder(s, u) ==
    Admit(s, [author |-> Forwarder, owner |-> Forwarder, by |-> u])

(* the chat: apiKeyMiddleware swaps in the users row of the end user *)
AdmitChat(s, u) == Admit(s, [author |-> u, owner |-> Forwarder, by |-> u])

(* the PATCH logs its row *)
Log(s) ==
    /\ job[s] # Free
    /\ Cardinality(rows) < MaxRows
    /\ rows' = rows \cup
                 {[id |-> Cardinality(rows) + 1, at |-> now, request |-> job[s]]}
    /\ job' = [job EXCEPT ![s] = Free]
    /\ UNCHANGED now

(* PUT, DELETE, a no-op, a refusal or a failure: no row *)
EndWithoutRow(s) ==
    /\ job[s] # Free
    /\ job' = [job EXCEPT ![s] = Free]
    /\ UNCHANGED <<now, rows>>

Tick ==
    /\ now < MaxTime
    /\ now' = now + 1
    /\ UNCHANGED <<rows, job>>

Init ==
    /\ now = 0
    /\ rows = {}
    /\ job = [s \in Slots |-> Free]

Next ==
    \/ \E s \in Slots, u \in Users : AdmitKey(s, u) \/ AdmitChat(s, u)
    \/ \E s \in Slots : Log(s) \/ EndWithoutRow(s)
    \/ Tick

Spec == Init /\ [][Next]_vars
-----------------------------------------------------------------------------
(* Properties *)

TypeOK ==
    /\ now \in Nat
    /\ rows \subseteq Mutation
    /\ job \in [Slots -> Request \cup {Free}]

(* what user u logged in the last Window hours *)
Edited(u) == {m \in rows : m.request.by = u /\ m.at + Window > now}

(* "Caps writes per user" (rate-limit-writes.ts:6), as far as a count made *)
(* before the write can: in no stretch of Window hours does a user log     *)
(* more than the cap and one edit for each further request the API can be  *)
(* serving at that time, by whatever mix of keys and chat.                 *)
CapHoldsButForInFlight ==
    \A u \in Users :
        Cardinality(Edited(u)) <= MaxWrites - 1 + Cardinality(Slots)

(* What the count holds against a user is exactly what that user edited in *)
(* the window: chat users, who share one key, do not use up each other's   *)
(* cap (rate-limit-writes.ts:28-32), and edits by key count too.           *)
OnlyOwnEditsCount ==
    \A u \in Users : Counted(u) = Edited(u)
=============================================================================
