--------------------------- MODULE EditModeration ---------------------------
(***************************************************************************)
(* Live edits of one catalogue record and the moderation of those edits.   *)
(*                                                                         *)
(* The record is one row of a JSONB domain table.  HTTP requests edit it   *)
(* (PATCH, PUT, DELETE /v1/write/:table/:slug), review an edit (POST       *)
(* /v1/mutations/:id/review) or revoke an API key (DELETE                  *)
(* /v1/internal/api-keys/:id).  A handler is split where the code awaits   *)
(* the database, because other requests run there; no handler opens a      *)
(* transaction.  Emails are fire-and-forget and are left out, and so is    *)
(* the write quota, which only refuses requests.                           *)
(***************************************************************************)
EXTENDS Naturals, Sequences, FiniteSets

CONSTANTS
    Fields,      \* top-level agent-editable fields of the record
    Values,      \* JSON values a field may hold
    Absent,      \* "the object has no such key"
    NoRecord,    \* "no row has this slug"
    Keys,        \* write-tier API keys
    Slots,       \* requests the API can be serving at one time
    Seeds,       \* blobs the record may hold before the first request
    Patches,     \* patches callers send
    Puts,        \* whole records callers PUT
    Deletes,     \* whether callers send DELETE
    Verdicts,    \* review actions moderators use
    Reviewable,  \* statuses a mutation has when a moderator picks it
    Window,      \* newest mutations the revert check looks at (10 in the code)
    MaxEdits,    \* bound: PATCHes that may reach the log
    MaxFaults    \* bound: failed database calls and restarts

(***************************************************************************)
(* A JSON object over Fields.  Serialisation drops undefined members, so   *)
(* "undefined" and "no such key" are the same value, Absent.               *)
(***************************************************************************)
Blob == [Fields -> Values \cup {Absent}]

Statuses == {"pending_review", "approved", "rejected", "reverted"}
Actions == {"approve", "reject", "revert"}

ASSUME ConstantsOK ==
    /\ Absent \notin Values
    /\ NoRecord \notin Blob
    /\ Keys # {} /\ IsFiniteSet(Slots)
    /\ Seeds \subseteq Blob /\ Patches \subseteq Blob /\ Puts \subseteq Blob
    /\ Deletes \in BOOLEAN
    /\ Verdicts \subseteq Actions /\ Reviewable \subseteq Statuses
    /\ Window \in Nat /\ MaxEdits \in Nat /\ MaxFaults \in Nat

VARIABLES
    live,        \* the row's data blob, or NoRecord
    log,         \* the mutations table of this record, in id order
    revoked,     \* keys with revoked_at set
    job,         \* what each request slot is doing
    faults,      \* faults so far
    (* history, read by no action *)
    seed,        \* the blob the record started with
    unlogged,    \* per field: values written by anything but a logged PATCH
    undone,      \* ids whose old_values a review has put back
    swept,       \* keys whose revocation finished its cascade
    stragglers   \* per key: its PATCHes in flight when it was revoked

ghosts == <<seed, unlogged, undone, swept, stragglers>>
vars == <<live, log, revoked, job, faults, ghosts>>

-----------------------------------------------------------------------------
(* Objects *)

EmptyBlob == [f \in Fields |-> Absent]

(* { ...r, ...p } *)
Merge(r, p) == [f \in Fields |-> IF p[f] = Absent THEN r[f] ELSE p[f]]

(* the members of r named by F *)
Pick(r, F) == [f \in Fields |-> IF f \in F THEN r[f] ELSE Absent]

(* keys of the patch whose value differs from the current one *)
Changed(r, p) == {f \in Fields : p[f] # Absent /\ p[f] # r[f]}

Mutation == [fields: SUBSET Fields, old: Blob, new: Blob, actor: Keys,
             status: Statuses, by: {"nobody", "moderator", "key-revoked"}]

(***************************************************************************)
(* A request slot: the handler it runs (kind), the await it is at, the key *)
(* that authenticated it, and the handler's local variables.               *)
(***************************************************************************)
Kinds == {"none", "patch", "put", "delete", "review", "revoke"}
Steps == {"idle", "diff", "merge", "store", "log", "put", "delete",
          "check", "flip", "revoke", "cascade"}

Job == [kind: Kinds, at: Steps, key: Keys, patch: Blob, fields: SUBSET Fields,
        old: Blob, merged: Blob, id: Nat, action: Actions]

AnyKey == CHOOSE k \in Keys : TRUE

Task(kind, step, k, p, i, a) ==
    [kind |-> kind, at |-> step, key |-> k, patch |-> p, id |-> i, action |-> a,
     fields |-> {}, old |-> EmptyBlob, merged |-> EmptyBlob]

(* job j at its next await, with the locals it keeps across it *)
Holding(j, step, F, old, merged) ==
    [kind |-> j.kind, at |-> step, key |-> j.key, patch |-> j.patch,
     id |-> j.id, action |-> j.action,
     fields |-> F, old |-> old, merged |-> merged]

Idle == Task("none", "idle", AnyKey, EmptyBlob, 0, "approve")

Begin(s, j) == job' = [job EXCEPT ![s] = j]
Goto(s, step) == Begin(s, [job[s] EXCEPT !.at = step])
Finish(s) == job' = [job EXCEPT ![s] = Idle]

(* seeded fault: revoked_at is not looked at *)
AuthenticatedAnyKey(s, k) == job[s].at = "idle"

(* apiKeyMiddleware and requireWriteTier: read the key row, once, up front *)
Authenticated(s, k) == job[s].at = "idle" /\ k \notin revoked

-----------------------------------------------------------------------------
(* PATCH /v1/write/:table/:slug *)

Editing(s) == job[s].kind = "patch"

StartPatch(s, k, p) ==
    /\ Authenticated(s, k)
    /\ Len(log) + Cardinality({t \in Slots : Editing(t)}) < MaxEdits
    /\ Begin(s, Task("patch", "diff", k, p, 0, "approve"))
    /\ UNCHANGED <<live, log, revoked, faults, ghosts>>

(* 404, or 200 no_op: nothing is written *)
PatchNothing(s) ==
    /\ job[s].at = "diff"
    /\ \/ live = NoRecord
       \/ live # NoRecord /\ Changed(live, job[s].patch) = {}
    /\ Finish(s)
    /\ UNCHANGED <<live, log, revoked, faults, ghosts>>

DiffPatch(s) ==
    /\ job[s].at = "diff"
    /\ live # NoRecord
    /\ LET F == Changed(live, job[s].patch)
       IN  /\ F # {}
           /\ Begin(s, Holding(job[s], "merge", F, Pick(live, F), EmptyBlob))
    /\ UNCHANGED <<live, log, revoked, faults, ghosts>>

(***************************************************************************)
(* patchBySlug, shared by PATCH and by a review's restore: read the row,   *)
(* merge in memory, write the whole blob back.                             *)
(***************************************************************************)
AfterPatchBySlug(s) == IF Editing(s) THEN "log" ELSE "flip"

MarkUndone(s) ==
    undone' = IF Editing(s) THEN undone ELSE undone \cup {job[s].id}

ReadForMerge(s) ==
    /\ job[s].at = "merge"
    /\ live # NoRecord
    /\ Begin(s, Holding(job[s], "store", job[s].fields, job[s].old,
                        Merge(live, job[s].patch)))
    /\ UNCHANGED <<live, log, revoked, faults, ghosts>>

(* the row is gone: patchBySlug returns null, which no caller looks at *)
NothingToMerge(s) ==
    /\ job[s].at = "merge"
    /\ live = NoRecord
    /\ Goto(s, AfterPatchBySlug(s))
    /\ MarkUndone(s)
    /\ UNCHANGED <<live, log, revoked, faults, seed, unlogged, swept, stragglers>>

(* seeded fault: the merged blob is written with upsert, not update *)
WriteMergedUpserts(s) ==
    /\ job[s].at = "store"
    /\ live' = job[s].merged
    /\ Goto(s, AfterPatchBySlug(s))
    /\ MarkUndone(s)
    /\ UNCHANGED <<log, revoked, faults, seed, unlogged, swept, stragglers>>

WriteMerged(s) ==
    /\ job[s].at = "store"
    /\ live # NoRecord
    /\ live' = job[s].merged
    /\ Goto(s, AfterPatchBySlug(s))
    /\ MarkUndone(s)
    /\ UNCHANGED <<log, revoked, faults, seed, unlogged, swept, stragglers>>

(* update() on a deleted row throws: the request ends with a 500 *)
RowVanished(s) ==
    /\ job[s].at = "store"
    /\ live = NoRecord
    /\ Finish(s)
    /\ UNCHANGED <<live, log, revoked, faults, ghosts>>

(* seeded fault: old_values and new_values swapped *)
NewMutationSwapped(j) ==
    [fields |-> j.fields, old |-> Pick(j.patch, j.fields), new |-> j.old,
     actor |-> j.key, status |-> "pending_review", by |-> "nobody"]

NewMutation(j) ==
    [fields |-> j.fields, old |-> j.old, new |-> Pick(j.patch, j.fields),
     actor |-> j.key, status |-> "pending_review", by |-> "nobody"]

LogMutation(s) ==
    /\ job[s].at = "log"
    /\ log' = Append(log, NewMutation(job[s]))
    /\ Finish(s)
    /\ UNCHANGED <<live, revoked, faults, ghosts>>

-----------------------------------------------------------------------------
(* PUT and DELETE /v1/write/:table/:slug: one statement, no mutation row *)

StartPut(s, k, b) ==
    /\ Authenticated(s, k)
    /\ Begin(s, Task("put", "put", k, b, 0, "approve"))
    /\ UNCHANGED <<live, log, revoked, faults, ghosts>>

FinishPut(s) ==
    /\ job[s].at = "put"
    /\ live' = job[s].patch
    /\ unlogged' = [f \in Fields |-> unlogged[f] \cup {job[s].patch[f]}]
    /\ Finish(s)
    /\ UNCHANGED <<log, revoked, faults, seed, undone, swept, stragglers>>

StartDelete(s, k) ==
    /\ Deletes
    /\ Authenticated(s, k)
    /\ Begin(s, Task("delete", "delete", k, EmptyBlob, 0, "approve"))
    /\ UNCHANGED <<live, log, revoked, faults, ghosts>>

FinishDelete(s) ==
    /\ job[s].at = "delete"
    /\ live' = NoRecord
    /\ Finish(s)
    /\ UNCHANGED <<log, revoked, faults, ghosts>>

-----------------------------------------------------------------------------
(* POST /v1/mutations/:id/review *)

Overlaps(i, j) == log[i].fields \cap log[j].fields # {}

(* the newest Window rows of the record, whatever their status *)
Recent == {i \in DOMAIN log : i + Window > Len(log)}

(* seeded fault: revert skips the newer-edit check *)
NewerEditUnchecked(i) == FALSE

NewerEdit(i) == \E j \in Recent : j > i /\ Overlaps(i, j)

(***************************************************************************)
(* reviewMutation reads old_values, which never change, so its first read  *)
(* is part of the step before it.  No status is looked at: Reviewable says *)
(* which rows the moderators pick, not what the handler accepts.           *)
(***************************************************************************)
(* seeded fault: reject flips the status and restores nothing *)
FirstStepNoRestore(a) == IF a = "revert" THEN "check" ELSE "flip"

FirstStep(a) == CASE a = "approve" -> "flip"
                  [] a = "reject"  -> "merge"
                  [] a = "revert"  -> "check"

StartReview(s, k, i, a) ==
    /\ Authenticated(s, k)
    /\ log[i].status \in Reviewable
    /\ LET restore == IF a = "approve" THEN EmptyBlob ELSE log[i].old
       IN  Begin(s, Task("review", FirstStep(a), k, restore, i, a))
    /\ UNCHANGED <<live, log, revoked, faults, ghosts>>

(* 409 newer_edit_exists *)
RefuseRevert(s) ==
    /\ job[s].at = "check"
    /\ NewerEdit(job[s].id)
    /\ Finish(s)
    /\ UNCHANGED <<live, log, revoked, faults, ghosts>>

AllowRevert(s) ==
    /\ job[s].at = "check"
    /\ ~NewerEdit(job[s].id)
    /\ Goto(s, "merge")
    /\ UNCHANGED <<live, log, revoked, faults, ghosts>>

(* seeded fault: the action's name is stored as the status *)
StatusOfUnmapped(a) == a

StatusOf(a) == CASE a = "approve" -> "approved"
                 [] a = "reject"  -> "rejected"
                 [] a = "revert"  -> "reverted"

Decided(m, st, who) ==
    [fields |-> m.fields, old |-> m.old, new |-> m.new, actor |-> m.actor,
     status |-> st, by |-> who]

FlipStatus(s) ==
    /\ job[s].at = "flip"
    /\ LET i == job[s].id
       IN  log' = [log EXCEPT ![i] =
                     Decided(log[i], StatusOf(job[s].action), "moderator")]
    /\ Finish(s)
    /\ UNCHANGED <<live, revoked, faults, ghosts>>

-----------------------------------------------------------------------------
(* DELETE /v1/internal/api-keys/:id *)

StartRevoke(s, k) ==
    /\ job[s].at = "idle"
    /\ k \notin revoked
    /\ Begin(s, Task("revoke", "revoke", k, EmptyBlob, 0, "approve"))
    /\ UNCHANGED <<live, log, revoked, faults, ghosts>>

RevokeKey(s) ==
    /\ job[s].at = "revoke"
    /\ LET k == job[s].key
       IN  /\ revoked' = revoked \cup {k}
           /\ stragglers' =
                IF k \in revoked THEN stragglers
                ELSE [stragglers EXCEPT ![k] =
                        Cardinality({t \in Slots : Editing(t) /\ job[t].key = k})]
    /\ Goto(s, "cascade")
    /\ UNCHANGED <<live, log, faults, seed, unlogged, undone, swept>>

(* seeded fault: the cascade closes decided rows too *)
AutoRejectedAll(m, k) ==
    IF m.actor = k THEN Decided(m, "rejected", "key-revoked") ELSE m

AutoRejected(m, k) ==
    IF m.actor = k /\ m.status = "pending_review"
    THEN Decided(m, "rejected", "key-revoked") ELSE m

(* pending mutations of the key are closed; the live row is not touched *)
CascadeRevoke(s) ==
    /\ job[s].at = "cascade"
    /\ log' = [i \in 1..Len(log) |-> AutoRejected(log[i], job[s].key)]
    /\ swept' = swept \cup {job[s].key}
    /\ Finish(s)
    /\ UNCHANGED <<live, revoked, faults, seed, unlogged, undone, stragglers>>

-----------------------------------------------------------------------------
(* Faults: a database call rejects (next(err), 500), or the API restarts *)

(* what the requests in T have written to the record and not yet logged *)
Written(T, f) ==
    {job[t].patch[f] : t \in {u \in T : /\ Editing(u) /\ job[u].at = "log"
                                        /\ f \in job[u].fields}}

Die(T) ==
    /\ faults < MaxFaults
    /\ \E t \in T : job[t].at # "idle"
    /\ faults' = faults + 1
    /\ job' = [t \in Slots |-> IF t \in T THEN Idle ELSE job[t]]
    /\ unlogged' = [f \in Fields |-> unlogged[f] \cup Written(T, f)]
    /\ UNCHANGED <<live, log, revoked, seed, undone, swept, stragglers>>

RequestFails(s) == Die({s})
Restart == Die(Slots)

-----------------------------------------------------------------------------

Init ==
    /\ seed \in Seeds
    /\ live = seed
    /\ log = <<>>
    /\ revoked = {}
    /\ job = [s \in Slots |-> Idle]
    /\ faults = 0
    /\ unlogged = [f \in Fields |-> {seed[f]}]
    /\ undone = {}
    /\ swept = {}
    /\ stragglers = [k \in Keys |-> 0]

Request(s) ==
    \/ \E k \in Keys, p \in Patches : StartPatch(s, k, p)
    \/ \E k \in Keys, b \in Puts : StartPut(s, k, b)
    \/ \E k \in Keys : StartDelete(s, k)
    \/ \E k \in Keys, i \in DOMAIN log, a \in Verdicts : StartReview(s, k, i, a)
    \/ \E k \in Keys : StartRevoke(s, k)

Handler(s) ==
    \/ PatchNothing(s) \/ DiffPatch(s)
    \/ ReadForMerge(s) \/ NothingToMerge(s)
    \/ WriteMerged(s) \/ RowVanished(s)
    \/ LogMutation(s)
    \/ FinishPut(s) \/ FinishDelete(s)
    \/ RefuseRevert(s) \/ AllowRevert(s) \/ FlipStatus(s)
    \/ RevokeKey(s) \/ CascadeRevoke(s)

Next ==
    \/ \E s \in Slots : Request(s) \/ Handler(s) \/ RequestFails(s)
    \/ Restart

Spec == Init /\ [][Next]_vars
-----------------------------------------------------------------------------
(* Properties *)

TypeOK ==
    /\ live \in Blob \cup {NoRecord}
    /\ log \in Seq(Mutation)
    /\ revoked \subseteq Keys
    /\ job \in [Slots -> Job]
    /\ \A s \in Slots : job[s].at = "flip" => job[s].id \in DOMAIN log
    /\ faults \in 0..MaxFaults
    /\ seed \in Seeds
    /\ unlogged \in [Fields -> SUBSET (Values \cup {Absent})]
    /\ undone \subseteq Nat
    /\ swept \subseteq revoked
    /\ stragglers \in [Keys -> Nat]

(* Values of field f the audit trail answers for: values nobody PATCHed,   *)
(* new_values of the log, and writes about to be logged.                   *)
Accounted(f) ==
    unlogged[f] \cup {log[i].new[f] : i \in {n \in DOMAIN log : f \in log[n].fields}}
                \cup Written(Slots, f)

(* However requests interleave, fail and restart, each value the live      *)
(* record shows is its seed's, was PUT, is the new value of a mutation     *)
(* row, or was written by a PATCH that is about to log it or died between  *)
(* patchBySlug and createMutation (write.ts 188-190).  Stale reads and     *)
(* restores mix fields of different ages but bring in no other value.      *)
AuditComplete == live # NoRecord => \A f \in Fields : live[f] \in Accounted(f)

(* A deleted record comes back only by a PUT: a PATCH or a restore that    *)
(* read it before the DELETE fails instead of writing it back.             *)
OnlyPutResurrects ==
    [][live = NoRecord /\ live' # NoRecord
          => \E s \in Slots : job[s].at = "put" /\ live' = job[s].patch]_vars

(* A row says rejected or reverted by a moderator only after its           *)
(* old_values were put back (or the record was gone), whatever fails in    *)
(* between: reviewMutation restores first and flips the status second.     *)
UndoBeforeVerdict ==
    \A i \in DOMAIN log :
        log[i].by = "moderator" /\ log[i].status \in {"rejected", "reverted"}
            => i \in undone

Pending(k) == {i \in DOMAIN log : log[i].actor = k /\ log[i].status = "pending_review"}

(* Once a key is revoked and its pending rows are closed, at most as many  *)
(* of its rows are pending as it had PATCHes in flight when revoked_at was *)
(* set: those PATCHes still log, and nothing new gets past the key check.  *)
OnlyStragglersSurvive ==
    \A k \in swept : Cardinality(Pending(k)) <= stragglers[k]

Edits == [fields: SUBSET Fields, old: Blob, new: Blob, actor: Keys]

Audit == INSTANCE AuditLog WITH entries <- log

(* Every step of every handler keeps the audit trail's contract: rows are  *)
(* append-only, their content is immutable, a decided row is never pending *)
(* again and the revocation cascade leaves decided rows alone.             *)
KeepsAuditTrail == Audit!Spec

(* What the log says field f should show: the new value of the newest row  *)
(* no moderator has withdrawn, or the seed's.  A row closed by a key       *)
(* revocation is still in force, since the cascade restores nothing.       *)
InForce(f) ==
    {i \in DOMAIN log : /\ f \in log[i].fields
                        /\ ~ /\ log[i].by = "moderator"
                             /\ log[i].status \in {"rejected", "reverted"}}

Newest(S) == CHOOSE i \in S : \A j \in S : j <= i

FromLog(f) == IF InForce(f) = {} THEN seed[f] ELSE log[Newest(InForce(f))].new[f]

(* Between requests the record is exactly what its log says.  It holds for *)
(* one request at a time, without PUT, when undone edits go through the    *)
(* newer-edit check of "revert" and a verdict is not given on a row that   *)
(* was already withdrawn.                                                  *)
LiveMatchesLog ==
    (\A s \in Slots : job[s] = Idle) /\ live # NoRecord
        => \A f \in Fields : live[f] = FromLog(f)
=============================================================================
