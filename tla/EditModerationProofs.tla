------------------------ MODULE EditModerationProofs ------------------------
(***************************************************************************)
(* Safety of EditModeration for every number of fields, values, keys,      *)
(* request slots, edits and faults.                                        *)
(***************************************************************************)
EXTENDS EditModeration, SequenceTheorems, FiniteSetTheorems, TLAPS

(***************************************************************************)
(* The inductive invariant.  TypeOK alone is not inductive: that a verdict *)
(* is about to be given on a row that exists, and that a finished cascade  *)
(* was for a revoked key, rests on which handler may be at which await.    *)
(***************************************************************************)
InOrder(j) ==
    /\ j.at \in {"diff", "log"} => j.kind = "patch"
    /\ j.at \in {"check", "flip"} => j.kind = "review"
    /\ j.at \in {"merge", "store"} => j.kind \in {"patch", "review"}

JobsInOrder ==
    \A s \in Slots : /\ InOrder(job[s])
                     /\ job[s].kind = "review" => job[s].id \in DOMAIN log
                     /\ job[s].at = "cascade" => job[s].key \in revoked

TypeInv == TypeOK /\ JobsInOrder

-----------------------------------------------------------------------------
(* Objects, jobs and rows *)

LEMMA BlobFacts ==
    ASSUME NEW r \in Blob, NEW p \in Blob, NEW F \in SUBSET Fields
    PROVE  /\ EmptyBlob \in Blob
           /\ Merge(r, p) \in Blob
           /\ Pick(r, F) \in Blob
           /\ Changed(r, p) \in SUBSET Fields
  BY DEF Blob, EmptyBlob, Merge, Pick, Changed

LEMMA TaskFacts ==
    ASSUME NEW kind \in Kinds, NEW step \in Steps, NEW k \in Keys,
           NEW p \in Blob, NEW i \in Nat, NEW a \in Actions
    PROVE  Task(kind, step, k, p, i, a) \in Job
  BY DEF Task, Job, Blob, EmptyBlob

LEMMA IdleFacts == Idle \in Job /\ Idle.at = "idle" /\ Idle.kind = "none"
  <1>1. AnyKey \in Keys
    BY ConstantsOK DEF AnyKey
  <1>2. EmptyBlob \in Blob
    BY DEF EmptyBlob, Blob
  <1> QED
    BY <1>1, <1>2, TaskFacts DEF Idle, Task, Kinds, Steps, Actions

LEMMA HoldingFacts ==
    ASSUME NEW j \in Job, NEW step \in Steps, NEW F \in SUBSET Fields,
           NEW old \in Blob, NEW merged \in Blob
    PROVE  Holding(j, step, F, old, merged) \in Job
  BY DEF Holding, Job

LEMMA GotoFacts ==
    ASSUME NEW j \in Job, NEW step \in Steps
    PROVE  LET g == [j EXCEPT !.at = step]
           IN  /\ g \in Job
               /\ g.at = step
               /\ g.kind = j.kind /\ g.key = j.key /\ g.patch = j.patch
               /\ g.fields = j.fields /\ g.old = j.old /\ g.merged = j.merged
               /\ g.id = j.id /\ g.action = j.action
  BY DEF Job

LEMMA RowFacts ==
    ASSUME NEW m \in Mutation, NEW st \in Statuses,
           NEW who \in {"nobody", "moderator", "key-revoked"}
    PROVE  Decided(m, st, who) \in Mutation
  BY DEF Decided, Mutation

LEMMA StatusFacts == ASSUME NEW a \in Actions PROVE StatusOf(a) \in Statuses
  BY DEF Actions, StatusOf, Statuses

LEMMA NewRowFacts == ASSUME NEW j \in Job PROVE NewMutation(j) \in Mutation
  <1>1. j.patch \in Blob /\ j.fields \in SUBSET Fields
    BY DEF Job
  <1>2. Pick(j.patch, j.fields) \in Blob
    BY <1>1, BlobFacts
  <1> QED
    BY <1>2 DEF NewMutation, Mutation, Job, Statuses

(* the slot a handler runs in, and the slots it leaves alone *)
LEMMA SlotUpdate ==
    ASSUME NEW f \in [Slots -> Job], NEW s \in Slots, NEW j \in Job
    PROVE  /\ [f EXCEPT ![s] = j] \in [Slots -> Job]
           /\ \A t \in Slots : [f EXCEPT ![s] = j][t] = IF t = s THEN j ELSE f[t]
  OBVIOUS

-----------------------------------------------------------------------------
(* Sequences the handlers build from the log *)

LEMMA UpdateRow ==
    ASSUME NEW S, NEW q \in Seq(S), NEW i \in DOMAIN q, NEW e \in S
    PROVE  /\ [q EXCEPT ![i] = e] \in Seq(S)
           /\ Len([q EXCEPT ![i] = e]) = Len(q)
           /\ DOMAIN [q EXCEPT ![i] = e] = DOMAIN q
           /\ \A n \in DOMAIN q : [q EXCEPT ![i] = e][n] = IF n = i THEN e ELSE q[n]
  BY ExceptSeq, LenProperties

LEMMA AddRow ==
    ASSUME NEW S, NEW q \in Seq(S), NEW e \in S
    PROVE  /\ Append(q, e) \in Seq(S)
           /\ DOMAIN q \subseteq DOMAIN Append(q, e)
           /\ DOMAIN Append(q, e) = DOMAIN q \cup {Len(q) + 1}
           /\ \A n \in DOMAIN q : Append(q, e)[n] = q[n]
           /\ Append(q, e)[Len(q) + 1] = e
  BY AppendProperties, LenProperties

LEMMA SweepRows ==
    ASSUME NEW q \in Seq(Mutation), NEW k \in Keys
    PROVE  LET r == [i \in 1..Len(q) |-> AutoRejected(q[i], k)]
           IN  /\ r \in Seq(Mutation)
               /\ DOMAIN r = DOMAIN q
               /\ \A n \in DOMAIN q : r[n] = AutoRejected(q[n], k)
  <1>1. Len(q) \in Nat /\ DOMAIN q = 1..Len(q)
    BY LenProperties
  <1>2. \A n \in 1..Len(q) : AutoRejected(q[n], k) \in Mutation
    <2> TAKE n \in 1..Len(q)
    <2>1. q[n] \in Mutation
      BY ElementOfSeq
    <2> QED
      BY <2>1, RowFacts DEF AutoRejected, Statuses
  <1> DEFINE r == [i \in 1..Len(q) |-> AutoRejected(q[i], k)]
  <1>3. r \in [1..Len(q) -> Mutation]
    BY <1>2
  <1>4. r \in Seq(Mutation)
    BY <1>1, <1>3, SeqDef
  <1> QED
    BY <1>1, <1>4

-----------------------------------------------------------------------------
(* Type correctness *)

(* a step that changes nothing but the running handler's job *)
LEMMA JobStep ==
    ASSUME TypeInv, NEW s \in Slots, NEW j \in Job, Begin(s, j), InOrder(j),
           j.kind = "review" => j.id \in DOMAIN log, j.at # "cascade",
           UNCHANGED <<live, log, revoked, faults, ghosts>>
    PROVE  TypeInv'
  <1>1. /\ job' \in [Slots -> Job]
        /\ \A t \in Slots : job'[t] = IF t = s THEN j ELSE job[t]
    BY SlotUpdate DEF Begin, TypeInv, TypeOK
  <1>2. JobsInOrder'
    BY <1>1 DEF TypeInv, JobsInOrder, InOrder, ghosts
  <1>3. \A t \in Slots : job'[t].at = "flip" => job'[t].id \in DOMAIN log'
    BY <1>2 DEF JobsInOrder, InOrder
  <1> QED
    BY <1>1, <1>2, <1>3 DEF TypeInv, TypeOK, ghosts

(* a step after which the running handler is at a new await, or idle, *)
(* and the log has the same rows or more                              *)
LEMMA JobsAdvance ==
    ASSUME TypeInv, NEW s \in Slots, NEW j \in Job, Begin(s, j), InOrder(j),
           DOMAIN log \subseteq DOMAIN log', revoked \subseteq revoked',
           j.kind = "review" => j.id \in DOMAIN log,
           j.at = "cascade" => j.key \in revoked'
    PROVE  /\ job' \in [Slots -> Job]
           /\ JobsInOrder'
           /\ \A t \in Slots : job'[t].at = "flip" => job'[t].id \in DOMAIN log'
  <1>1. /\ job' \in [Slots -> Job]
        /\ \A t \in Slots : job'[t] = IF t = s THEN j ELSE job[t]
    BY SlotUpdate DEF Begin, TypeInv, TypeOK
  <1>2. JobsInOrder'
    BY <1>1 DEF TypeInv, JobsInOrder, InOrder
  <1> QED
    BY <1>1, <1>2 DEF JobsInOrder, InOrder

LEMMA FinishFacts ==
    ASSUME NEW s \in Slots, Finish(s)
    PROVE  Begin(s, Idle) /\ Idle \in Job /\ InOrder(Idle) /\ Idle.kind # "review" /\ Idle.at # "cascade"
  BY IdleFacts DEF Finish, Begin, InOrder

(* what every request starts with *)
Started(j) ==
    /\ InOrder(j)
    /\ j.at \in {"diff", "put", "delete", "check", "merge", "flip", "revoke"}
    /\ j.old = EmptyBlob
    /\ j.kind = "patch" => j.at = "diff" /\ j.key \notin revoked
    /\ j.kind = "review" => /\ j.id \in DOMAIN log
                            /\ j.patch \in {EmptyBlob, log[j.id].old}
                            /\ j.at = "flip" => j.action = "approve"

LEMMA RequestFacts ==
    ASSUME TypeInv, NEW s \in Slots, Request(s)
    PROVE  /\ job[s].at = "idle"
           /\ UNCHANGED <<live, log, revoked, faults, ghosts>>
           /\ \E j \in Job : Begin(s, j) /\ Started(j)
  <1> USE DEF Kinds, Steps, Actions
  <1>0. EmptyBlob \in Blob /\ Patches \subseteq Blob /\ Puts \subseteq Blob
    BY ConstantsOK DEF EmptyBlob, Blob
  <1>1. ASSUME NEW k \in Keys, NEW p \in Patches, StartPatch(s, k, p)
        PROVE  \E j \in Job : Begin(s, j) /\ Started(j)
    <2>1. Task("patch", "diff", k, p, 0, "approve") \in Job
      BY <1>0, TaskFacts
    <2>2. Started(Task("patch", "diff", k, p, 0, "approve"))
      BY <1>1 DEF Task, Started, InOrder, StartPatch, Authenticated
    <2> QED
      BY <1>1, <2>1, <2>2 DEF StartPatch
  <1>2. ASSUME NEW k \in Keys, NEW b \in Puts, StartPut(s, k, b)
        PROVE  \E j \in Job : Begin(s, j) /\ Started(j)
    <2>1. Task("put", "put", k, b, 0, "approve") \in Job
      BY <1>0, TaskFacts
    <2>2. Started(Task("put", "put", k, b, 0, "approve"))
      BY DEF Task, Started, InOrder
    <2> QED
      BY <1>2, <2>1, <2>2 DEF StartPut
  <1>3. ASSUME NEW k \in Keys, StartDelete(s, k)
        PROVE  \E j \in Job : Begin(s, j) /\ Started(j)
    <2>1. Task("delete", "delete", k, EmptyBlob, 0, "approve") \in Job
      BY <1>0, TaskFacts
    <2>2. Started(Task("delete", "delete", k, EmptyBlob, 0, "approve"))
      BY DEF Task, Started, InOrder
    <2> QED
      BY <1>3, <2>1, <2>2 DEF StartDelete
  <1>4. ASSUME NEW k \in Keys, NEW i \in DOMAIN log, NEW a \in Verdicts,
               StartReview(s, k, i, a)
        PROVE  \E j \in Job : Begin(s, j) /\ Started(j)
    <2> DEFINE restore == IF a = "approve" THEN EmptyBlob ELSE log[i].old
               j == Task("review", FirstStep(a), k, restore, i, a)
    <2>1. a \in Actions
      BY ConstantsOK
    <2>2. log[i] \in Mutation /\ i \in Nat
      BY ElementOfSeq, LenProperties DEF TypeInv, TypeOK
    <2>3. restore \in Blob
      BY <1>0, <2>2 DEF Mutation
    <2>4. /\ FirstStep(a) \in {"flip", "merge", "check"}
          /\ FirstStep(a) = "flip" => a = "approve"
      BY <2>1 DEF FirstStep
    <2>5. j \in Job
      BY <2>1, <2>2, <2>3, <2>4, TaskFacts
    <2>6. Started(j)
      BY <2>4 DEF Task, Started, InOrder
    <2> QED
      BY <1>4, <2>5, <2>6 DEF StartReview
  <1>5. ASSUME NEW k \in Keys, StartRevoke(s, k)
        PROVE  \E j \in Job : Begin(s, j) /\ Started(j)
    <2>1. Task("revoke", "revoke", k, EmptyBlob, 0, "approve") \in Job
      BY <1>0, TaskFacts
    <2>2. Started(Task("revoke", "revoke", k, EmptyBlob, 0, "approve"))
      BY DEF Task, Started, InOrder
    <2> QED
      BY <1>5, <2>1, <2>2 DEF StartRevoke
  <1>6. job[s].at = "idle" /\ UNCHANGED <<live, log, revoked, faults, ghosts>>
    BY DEF Request, StartPatch, StartPut, StartDelete, StartReview, StartRevoke,
           Authenticated
  <1> QED
    BY <1>1, <1>2, <1>3, <1>4, <1>5, <1>6 DEF Request

LEMMA RequestTypes ==
    ASSUME TypeInv, NEW s \in Slots, Request(s)
    PROVE  TypeInv'
  <1>1. PICK j \in Job : Begin(s, j) /\ Started(j)
    BY RequestFacts
  <1> QED
    BY <1>1, RequestFacts, JobStep DEF Started

LEMMA HandlerTypes ==
    ASSUME TypeInv, NEW s \in Slots, Handler(s)
    PROVE  TypeInv'
  <1>0. /\ job[s] \in Job /\ job \in [Slots -> Job]
        /\ InOrder(job[s])
        /\ job[s].kind = "review" => job[s].id \in DOMAIN log
        /\ job[s].at = "cascade" => job[s].key \in revoked
        /\ log \in Seq(Mutation)
    BY DEF TypeInv, TypeOK, JobsInOrder
  <1>a. ASSUME Finish(s), UNCHANGED <<live, log, revoked, faults, ghosts>>
        PROVE  TypeInv'
    BY <1>a, FinishFacts, JobStep
  <1>b. ASSUME Finish(s), DOMAIN log \subseteq DOMAIN log', UNCHANGED revoked
        PROVE  /\ job' \in [Slots -> Job]
               /\ JobsInOrder'
               /\ \A t \in Slots : job'[t].at = "flip" => job'[t].id \in DOMAIN log'
    BY <1>b, FinishFacts, JobsAdvance
  <1>1. CASE PatchNothing(s)
    BY <1>1, <1>a DEF PatchNothing
  <1>2. CASE DiffPatch(s)
    <2> DEFINE F == Changed(live, job[s].patch)
               j == Holding(job[s], "merge", F, Pick(live, F), EmptyBlob)
    <2>1. live \in Blob /\ job[s].patch \in Blob
      BY <1>0, <1>2 DEF DiffPatch, TypeInv, TypeOK, Job
    <2>2. j \in Job
      BY <1>0, <2>1, BlobFacts, HoldingFacts DEF Steps
    <2>3. InOrder(j) /\ j.kind # "review" /\ j.at # "cascade"
      BY <1>0, <1>2 DEF DiffPatch, Holding, InOrder
    <2> QED
      BY <1>2, <2>2, <2>3, JobStep DEF DiffPatch
  <1>3. CASE ReadForMerge(s)
    <2> DEFINE j == Holding(job[s], "store", job[s].fields, job[s].old,
                            Merge(live, job[s].patch))
    <2>1. live \in Blob /\ job[s].patch \in Blob
      BY <1>0, <1>3 DEF ReadForMerge, TypeInv, TypeOK, Job
    <2>2. Merge(live, job[s].patch) \in Blob
      BY <2>1, BlobFacts
    <2>3. j \in Job
      BY <1>0, <2>2, HoldingFacts DEF Job, Steps
    <2>4. InOrder(j) /\ j.at # "cascade" /\ (j.kind = "review" => j.id \in DOMAIN log)
      BY <1>0, <1>3 DEF ReadForMerge, Holding, InOrder
    <2> QED
      BY <1>3, <2>3, <2>4, JobStep DEF ReadForMerge
  <1>c. ASSUME job[s].at \in {"merge", "store"}, Goto(s, AfterPatchBySlug(s)),
               UNCHANGED <<log, revoked>>
        PROVE  /\ job' \in [Slots -> Job]
               /\ JobsInOrder'
               /\ \A t \in Slots : job'[t].at = "flip" => job'[t].id \in DOMAIN log'
    <2>1. PICK step \in Steps : step = AfterPatchBySlug(s)
      BY DEF AfterPatchBySlug, Steps
    <2> DEFINE j == [job[s] EXCEPT !.at = step]
    <2>2. j \in Job /\ j.at = step /\ j.kind = job[s].kind /\ j.id = job[s].id
      BY <1>0, GotoFacts
    <2>3. InOrder(j) /\ j.at # "cascade"
      BY <1>0, <1>c, <2>1, <2>2 DEF InOrder, AfterPatchBySlug, Editing
    <2> HIDE DEF j
    <2> QED
      BY <1>0, <1>c, <2>1, <2>2, <2>3, JobsAdvance DEF Goto, j
  <1>d. ASSUME MarkUndone(s) PROVE undone' \subseteq Nat
    BY <1>0, <1>d DEF MarkUndone, TypeInv, TypeOK, Job
  <1>4. CASE NothingToMerge(s)
    <2>1. job[s].at \in {"merge", "store"} /\ undone' \subseteq Nat
      BY <1>4, <1>d DEF NothingToMerge
    <2> QED
      BY <1>4, <1>c, <2>1 DEF NothingToMerge, TypeInv, TypeOK
  <1>5. CASE WriteMerged(s)
    <2>1. job[s].at \in {"merge", "store"} /\ undone' \subseteq Nat
      BY <1>5, <1>d DEF WriteMerged
    <2>2. live' \in Blob
      BY <1>0, <1>5 DEF WriteMerged, Job
    <2> QED
      BY <1>5, <1>c, <2>1, <2>2 DEF WriteMerged, TypeInv, TypeOK
  <1>6. CASE RowVanished(s)
    BY <1>6, <1>a DEF RowVanished
  <1>7. CASE LogMutation(s)
    <2>1. log' \in Seq(Mutation) /\ DOMAIN log \subseteq DOMAIN log'
      BY <1>0, <1>7, NewRowFacts, AddRow DEF LogMutation
    <2> QED
      BY <1>7, <1>b, <2>1 DEF LogMutation, TypeInv, TypeOK, ghosts
  <1>8. CASE FinishPut(s)
    <2>1. live' \in Blob
      BY <1>0, <1>8 DEF FinishPut, Job
    <2>2. unlogged' \in [Fields -> SUBSET (Values \cup {Absent})]
      BY <1>0, <1>8 DEF FinishPut, Job, Blob, TypeInv, TypeOK
    <2> QED
      BY <1>8, <1>b, <2>1, <2>2 DEF FinishPut, TypeInv, TypeOK
  <1>9. CASE FinishDelete(s)
    BY <1>9, <1>b DEF FinishDelete, TypeInv, TypeOK, ghosts
  <1>10. CASE RefuseRevert(s)
    BY <1>10, <1>a DEF RefuseRevert
  <1>11. CASE AllowRevert(s)
    <2> DEFINE j == [job[s] EXCEPT !.at = "merge"]
    <2>0. "merge" \in Steps
      BY DEF Steps
    <2>1. j \in Job /\ j.at = "merge" /\ j.kind = job[s].kind /\ j.id = job[s].id
      BY <1>0, <2>0, GotoFacts
    <2>2. InOrder(j)
      BY <1>0, <1>11, <2>1 DEF AllowRevert, InOrder
    <2> HIDE DEF j
    <2> QED
      BY <1>0, <1>11, <2>1, <2>2, JobStep DEF AllowRevert, Goto, j
  <1>12. CASE FlipStatus(s)
    <2> DEFINE i == job[s].id
    <2>1. i \in DOMAIN log /\ log[i] \in Mutation
      BY <1>0, <1>12, ElementOfSeq, LenProperties DEF FlipStatus, InOrder
    <2>2. StatusOf(job[s].action) \in Statuses
      BY <1>0, StatusFacts DEF Job
    <2>3. log' \in Seq(Mutation) /\ DOMAIN log' = DOMAIN log
      BY <1>0, <1>12, <2>1, <2>2, RowFacts, UpdateRow DEF FlipStatus
    <2> QED
      BY <1>12, <1>b, <2>3 DEF FlipStatus, TypeInv, TypeOK, ghosts
  <1>13. CASE RevokeKey(s)
    <2> DEFINE k == job[s].key
               mine == {t \in Slots : Editing(t) /\ job[t].key = k}
               j == [job[s] EXCEPT !.at = "cascade"]
    <2>1. k \in Keys
      BY <1>0 DEF Job
    <2>2. Cardinality(mine) \in Nat
      BY ConstantsOK, FS_Subset, FS_CardinalityType
    <2>3. stragglers' \in [Keys -> Nat]
      BY <1>13, <2>1, <2>2 DEF RevokeKey, TypeInv, TypeOK
    <2>0. "cascade" \in Steps
      BY DEF Steps
    <2>4. /\ j \in Job /\ j.at = "cascade"
          /\ j.kind = job[s].kind /\ j.id = job[s].id /\ j.key = k
      BY <1>0, <2>0, GotoFacts
    <2>5. /\ job' \in [Slots -> Job]
          /\ JobsInOrder'
          /\ \A t \in Slots : job'[t].at = "flip" => job'[t].id \in DOMAIN log'
      <3>1. k \in revoked' /\ revoked \subseteq revoked'
        BY <1>13 DEF RevokeKey
      <3> HIDE DEF j
      <3> QED
        BY <1>0, <1>13, <3>1, <2>4, JobsAdvance DEF RevokeKey, Goto, InOrder, j
    <2> QED
      BY <1>13, <2>1, <2>3, <2>5 DEF RevokeKey, TypeInv, TypeOK
  <1>14. CASE CascadeRevoke(s)
    <2>1. job[s].key \in Keys
      BY <1>0 DEF Job
    <2>2. log' \in Seq(Mutation) /\ DOMAIN log' = DOMAIN log
      BY <1>0, <1>14, <2>1, SweepRows DEF CascadeRevoke
    <2>3. job[s].key \in revoked
      BY <1>0, <1>14 DEF CascadeRevoke
    <2> QED
      BY <1>14, <1>b, <2>1, <2>2, <2>3 DEF CascadeRevoke, TypeInv, TypeOK
  <1> QED
    BY <1>1, <1>2, <1>3, <1>4, <1>5, <1>6, <1>7, <1>8, <1>9, <1>10, <1>11,
       <1>12, <1>13, <1>14 DEF Handler

LEMMA WrittenFacts ==
    ASSUME job \in [Slots -> Job], NEW T \in SUBSET Slots, NEW f \in Fields
    PROVE  Written(T, f) \subseteq Values \cup {Absent}
  BY DEF Written, Job, Blob

LEMMA FaultTypes ==
    ASSUME TypeInv, NEW T \in SUBSET Slots, Die(T)
    PROVE  TypeInv'
  <1>1. /\ job' \in [Slots -> Job]
        /\ \A t \in Slots : job'[t] = IF t \in T THEN Idle ELSE job[t]
    BY IdleFacts DEF Die, TypeInv, TypeOK
  <1>2. JobsInOrder'
    BY <1>1, FinishFacts, IdleFacts DEF Die, TypeInv, JobsInOrder, InOrder
  <1>3. \A t \in Slots : job'[t].at = "flip" => job'[t].id \in DOMAIN log'
    BY <1>2 DEF JobsInOrder, InOrder
  <1>4. unlogged' \in [Fields -> SUBSET (Values \cup {Absent})]
    BY WrittenFacts DEF Die, TypeInv, TypeOK
  <1>5. faults' \in 0..MaxFaults
    BY ConstantsOK DEF Die, TypeInv, TypeOK
  <1> QED
    BY <1>1, <1>2, <1>3, <1>4, <1>5 DEF Die, TypeInv, TypeOK

LEMMA TypeInit == Init => TypeInv
  <1> SUFFICES ASSUME Init PROVE TypeInv
    OBVIOUS
  <1>1. job \in [Slots -> Job] /\ \A s \in Slots : job[s] = Idle
    BY IdleFacts DEF Init
  <1>2. JobsInOrder
    BY <1>1, IdleFacts DEF JobsInOrder, InOrder
  <1>3. seed \in Blob
    BY ConstantsOK DEF Init
  <1>4. unlogged \in [Fields -> SUBSET (Values \cup {Absent})]
    BY <1>3 DEF Init, Blob
  <1>5. 0 \in 0..MaxFaults
    BY ConstantsOK
  <1> QED
    BY <1>1, <1>2, <1>3, <1>4, <1>5, IdleFacts, EmptySeq DEF Init, TypeInv, TypeOK

LEMMA TypeStep == TypeInv /\ [Next]_vars => TypeInv'
  <1> SUFFICES ASSUME TypeInv, [Next]_vars PROVE TypeInv'
    OBVIOUS
  <1>1. ASSUME NEW s \in Slots, Request(s) \/ Handler(s)
        PROVE  TypeInv'
    BY <1>1, RequestTypes, HandlerTypes
  <1>2. ASSUME NEW s \in Slots, RequestFails(s)
        PROVE  TypeInv'
    BY <1>2, FaultTypes DEF RequestFails
  <1>3. CASE Restart
    BY <1>3, FaultTypes DEF Restart
  <1>4. CASE UNCHANGED vars
    BY <1>4 DEF vars, ghosts, TypeInv, TypeOK, JobsInOrder, InOrder
  <1> QED
    BY <1>1, <1>2, <1>3, <1>4 DEF Next

LEMMA AlwaysTypeInv == Spec => []TypeInv
  BY TypeInit, TypeStep, PTL DEF Spec

(* Every request is at an await its handler has, and every variable has    *)
(* the type its comment gives it, in every reachable state.                *)
THEOREM TypeCorrect == Spec => []TypeOK
  <1>1. TypeInv => TypeOK
    BY DEF TypeInv
  <1> QED
    BY <1>1, AlwaysTypeInv, PTL

-----------------------------------------------------------------------------
(* Deleted records *)

(* Of all the steps a handler, a request or a fault can take, only the     *)
(* upsert of a PUT turns "no such row" into a row.                         *)
THEOREM DeletedStaysDeleted == Spec => OnlyPutResurrects
  <1>1. ASSUME [Next]_vars, live = NoRecord, live' # NoRecord
        PROVE  \E s \in Slots : job[s].at = "put" /\ live' = job[s].patch
    <2>1. live' # live
      BY <1>1
    <2>2. PICK s \in Slots : Handler(s)
      BY <1>1, <2>1 DEF Next, vars, Request, RequestFails, Restart, Die, StartPatch,
            StartPut, StartDelete, StartReview, StartRevoke
    <2>3. FinishPut(s)
      BY <1>1, <2>1, <2>2 DEF Handler, PatchNothing, DiffPatch, ReadForMerge,
            NothingToMerge, WriteMerged, RowVanished, LogMutation, FinishDelete,
            RefuseRevert, AllowRevert, FlipStatus, RevokeKey, CascadeRevoke
    <2> QED
      BY <2>3 DEF FinishPut
  <1> QED
    BY <1>1, PTL DEF Spec, OnlyPutResurrects

-----------------------------------------------------------------------------
(* Verdicts *)

(* the restore behind a verdict that is about to be given has happened *)
RestoredBeforeFlip ==
    \A s \in Slots :
        job[s].at = "flip" /\ job[s].action # "approve" => job[s].id \in undone

VerdictInv == UndoBeforeVerdict /\ RestoredBeforeFlip

(* what every step leaves alone but the two that the invariant is about *)
LEMMA VerdictKept ==
    ASSUME TypeInv, VerdictInv, NEW s \in Slots, NEW j \in Job, Begin(s, j),
           undone \subseteq undone',
           j.at = "flip" /\ j.action # "approve" => j.id \in undone',
           \A i \in DOMAIN log' :
               \/ log'[i].by # "moderator"
               \/ log'[i].status = "approved"
               \/ i \in undone'
               \/ i \in DOMAIN log /\ log'[i] = log[i]
    PROVE  VerdictInv'
  <1>1. \A t \in Slots : job'[t] = IF t = s THEN j ELSE job[t]
    BY SlotUpdate DEF Begin, TypeInv, TypeOK
  <1>2. RestoredBeforeFlip'
    BY <1>1 DEF VerdictInv, RestoredBeforeFlip
  <1>3. UndoBeforeVerdict'
    BY DEF VerdictInv, UndoBeforeVerdict
  <1> QED
    BY <1>2, <1>3 DEF VerdictInv

LEMMA VerdictStep == TypeInv /\ VerdictInv /\ [Next]_vars => VerdictInv'
  <1> SUFFICES ASSUME TypeInv, VerdictInv, [Next]_vars PROVE VerdictInv'
    OBVIOUS
  <1>0. job \in [Slots -> Job] /\ log \in Seq(Mutation)
    BY DEF TypeInv, TypeOK
  <1>1. ASSUME NEW s \in Slots, Request(s)
        PROVE  VerdictInv'
    <2>1. PICK j \in Job : Begin(s, j) /\ Started(j)
      BY <1>1, RequestFacts
    <2>2. UNCHANGED <<log, undone>>
      BY <1>1, RequestFacts DEF ghosts
    <2> QED
      BY <2>1, <2>2, VerdictKept DEF Started, InOrder
  <1>2. ASSUME NEW s \in Slots, Handler(s)
        PROVE  VerdictInv'
    <2>0. job[s] \in Job /\ InOrder(job[s])
      BY <1>0 DEF TypeInv, JobsInOrder
    <2>a. ASSUME Finish(s), UNCHANGED <<log, undone>>
          PROVE  VerdictInv'
      BY <2>a, FinishFacts, IdleFacts, VerdictKept
    <2>1. CASE PatchNothing(s)
      BY <2>1, <2>a DEF PatchNothing, ghosts
    <2>2. CASE DiffPatch(s)
      <3> DEFINE F == Changed(live, job[s].patch)
                 j == Holding(job[s], "merge", F, Pick(live, F), EmptyBlob)
      <3>1. live \in Blob /\ job[s].patch \in Blob
        BY <2>0, <2>2 DEF DiffPatch, TypeInv, TypeOK, Job
      <3>2. j \in Job
        BY <2>0, <3>1, BlobFacts, HoldingFacts DEF Steps
      <3>3. j.at # "flip"
        BY DEF Holding
      <3> QED
        BY <2>2, <3>2, <3>3, VerdictKept DEF DiffPatch, ghosts
    <2>3. CASE ReadForMerge(s)
      <3> DEFINE j == Holding(job[s], "store", job[s].fields, job[s].old,
                              Merge(live, job[s].patch))
      <3>1. live \in Blob /\ job[s].patch \in Blob
        BY <2>0, <2>3 DEF ReadForMerge, TypeInv, TypeOK, Job
      <3>2. Merge(live, job[s].patch) \in Blob
        BY <3>1, BlobFacts
      <3>3. j \in Job /\ j.at # "flip"
        BY <2>0, <3>2, HoldingFacts DEF Job, Steps, Holding
      <3> QED
        BY <2>3, <3>3, VerdictKept DEF ReadForMerge, ghosts
    <2>b. ASSUME Goto(s, AfterPatchBySlug(s)), MarkUndone(s), UNCHANGED log
          PROVE  VerdictInv'
      <3>1. PICK step \in Steps : step = AfterPatchBySlug(s)
        BY DEF AfterPatchBySlug, Steps
      <3> DEFINE j == [job[s] EXCEPT !.at = step]
      <3>2. j \in Job /\ j.at = step /\ j.kind = job[s].kind /\ j.id = job[s].id
        BY <2>0, GotoFacts
      <3>3. j.at = "flip" => j.id \in undone'
        BY <2>b, <3>1, <3>2 DEF AfterPatchBySlug, MarkUndone, Editing
      <3>4. undone \subseteq undone' /\ UNCHANGED log
        BY <2>b DEF MarkUndone
      <3> HIDE DEF j
      <3> QED
        BY <2>b, <3>1, <3>2, <3>3, <3>4, VerdictKept DEF Goto, j
    <2>4. CASE NothingToMerge(s)
      BY <2>4, <2>b DEF NothingToMerge
    <2>5. CASE WriteMerged(s)
      BY <2>5, <2>b DEF WriteMerged
    <2>6. CASE RowVanished(s)
      BY <2>6, <2>a DEF RowVanished, ghosts
    <2>7. CASE LogMutation(s)
      <3>1. \A i \in DOMAIN log' : \/ log'[i].by # "moderator"
                                   \/ i \in DOMAIN log /\ log'[i] = log[i]
        BY <1>0, <2>0, <2>7, NewRowFacts, AddRow DEF LogMutation, NewMutation
      <3> QED
        BY <2>7, <3>1, FinishFacts, IdleFacts, VerdictKept DEF LogMutation, ghosts
    <2>8. CASE FinishPut(s)
      BY <2>8, <2>a DEF FinishPut
    <2>9. CASE FinishDelete(s)
      BY <2>9, <2>a DEF FinishDelete, ghosts
    <2>10. CASE RefuseRevert(s)
      BY <2>10, <2>a DEF RefuseRevert, ghosts
    <2>11. CASE AllowRevert(s)
      <3>0. "merge" \in Steps
        BY DEF Steps
      <3> DEFINE j == [job[s] EXCEPT !.at = "merge"]
      <3>1. j \in Job /\ j.at = "merge"
        BY <2>0, <3>0, GotoFacts
      <3> HIDE DEF j
      <3> QED
        BY <2>11, <3>1, VerdictKept DEF AllowRevert, Goto, ghosts, j
    <2>12. CASE FlipStatus(s)
      <3> DEFINE i == job[s].id
                 st == StatusOf(job[s].action)
      <3>1. i \in DOMAIN log /\ log[i] \in Mutation
        BY <1>0, <2>0, <2>12, ElementOfSeq, LenProperties
           DEF FlipStatus, InOrder, TypeInv, JobsInOrder
      <3>2. st \in Statuses /\ (job[s].action = "approve" => st = "approved")
        BY <2>0, StatusFacts DEF Job, StatusOf
      <3>3. /\ DOMAIN log' = DOMAIN log
            /\ \A n \in DOMAIN log :
                  log'[n] = IF n = i THEN Decided(log[i], st, "moderator") ELSE log[n]
        BY <1>0, <2>12, <3>1, <3>2, RowFacts, UpdateRow DEF FlipStatus
      <3>4. i \in undone \/ st = "approved"
        BY <2>12, <3>2 DEF FlipStatus, VerdictInv, RestoredBeforeFlip
      <3>5. \A n \in DOMAIN log' : \/ log'[n].status = "approved"
                                   \/ n \in undone'
                                   \/ n \in DOMAIN log /\ log'[n] = log[n]
        BY <2>12, <3>3, <3>4 DEF FlipStatus, ghosts, Decided
      <3> QED
        BY <2>12, <3>5, FinishFacts, IdleFacts, VerdictKept DEF FlipStatus, ghosts
    <2>13. CASE RevokeKey(s)
      <3>0. "cascade" \in Steps
        BY DEF Steps
      <3> DEFINE j == [job[s] EXCEPT !.at = "cascade"]
      <3>1. j \in Job /\ j.at = "cascade"
        BY <2>0, <3>0, GotoFacts
      <3> HIDE DEF j
      <3> QED
        BY <2>13, <3>1, VerdictKept DEF RevokeKey, Goto, j
    <2>14. CASE CascadeRevoke(s)
      <3>1. job[s].key \in Keys
        BY <2>0 DEF Job
      <3>2. \A n \in DOMAIN log' : \/ log'[n].by # "moderator"
                                   \/ n \in DOMAIN log /\ log'[n] = log[n]
        BY <1>0, <2>14, <3>1, SweepRows DEF CascadeRevoke, AutoRejected, Decided
      <3> QED
        BY <2>14, <3>2, FinishFacts, IdleFacts, VerdictKept DEF CascadeRevoke
    <2> QED
      BY <1>2, <2>1, <2>2, <2>3, <2>4, <2>5, <2>6, <2>7, <2>8, <2>9, <2>10,
         <2>11, <2>12, <2>13, <2>14 DEF Handler
  <1>3. ASSUME NEW T \in SUBSET Slots, Die(T)
        PROVE  VerdictInv'
    BY <1>0, <1>3, IdleFacts
       DEF Die, VerdictInv, UndoBeforeVerdict, RestoredBeforeFlip
  <1>4. CASE UNCHANGED vars
    BY <1>4 DEF vars, ghosts, VerdictInv, UndoBeforeVerdict, RestoredBeforeFlip
  <1> QED
    BY <1>1, <1>2, <1>3, <1>4 DEF Next, RequestFails, Restart

(* reviewMutation restores before it decides: whatever requests interleave *)
(* and wherever they fail, no row says "rejected" or "reverted" by a       *)
(* moderator while its undo has not run.                                   *)
THEOREM UndoPrecedesVerdict == Spec => []UndoBeforeVerdict
  <1>1. Init => VerdictInv
    BY IdleFacts DEF Init, VerdictInv, UndoBeforeVerdict, RestoredBeforeFlip
  <1>2. VerdictInv => UndoBeforeVerdict
    BY DEF VerdictInv
  <1> QED
    BY <1>1, <1>2, VerdictStep, AlwaysTypeInv, PTL DEF Spec

-----------------------------------------------------------------------------
(* The audit trail accounts for every live value                           *)
(*                                                                         *)
(* A value on its way to the record is held by a job: the blob it is about *)
(* to store, the old value it will log, the old value it will restore, or  *)
(* the part of a patch that its diff found already there.  Each is one the *)
(* trail accounts for, unless it is the PATCH's own and about to be logged.*)

Known(v, f) == v = Absent \/ v \in Accounted(f)

Carries(j, f) ==
    /\ j.kind = "patch" /\ j.at \in {"merge", "store"} /\ f \notin j.fields
           => Known(j.patch[f], f)
    /\ j.kind = "review" => Known(j.patch[f], f)
    /\ Known(j.old[f], f)
    /\ j.at = "store" => \/ j.merged[f] \in Accounted(f)
                         \/ /\ j.kind = "patch" /\ f \in j.fields
                            /\ j.merged[f] = j.patch[f]

AuditInv ==
    /\ AuditComplete
    /\ \A s \in Slots, f \in Fields : Carries(job[s], f)
    /\ \A i \in DOMAIN log, f \in Fields : Known(log[i].old[f], f)

LEMMA AccountedFacts ==
    ASSUME NEW f \in Fields, NEW v
    PROVE  v \in Accounted(f) <=>
             \/ v \in unlogged[f]
             \/ \E i \in DOMAIN log : f \in log[i].fields /\ v = log[i].new[f]
             \/ \E t \in Slots : /\ job[t].kind = "patch" /\ job[t].at = "log"
                                 /\ f \in job[t].fields /\ v = job[t].patch[f]
  BY DEF Accounted, Written, Editing

(* a row's content never changes and no row disappears *)
RowsKept ==
    \A i \in DOMAIN log : /\ i \in DOMAIN log'
                          /\ log'[i].fields = log[i].fields
                          /\ log'[i].old = log[i].old
                          /\ log'[i].new = log[i].new

(* what the trail accounts for only grows in a handler's step *)
LEMMA AccountGrows ==
    ASSUME TypeInv, NEW s \in Slots, NEW j \in Job, Begin(s, j), RowsKept,
           NEW f \in Fields, unlogged[f] \subseteq unlogged'[f],
           \/ job[s].at # "log"
           \/ \E i \in DOMAIN log' : /\ log'[i].fields = job[s].fields
                                     /\ f \in job[s].fields => log'[i].new[f] = job[s].patch[f]
    PROVE  Accounted(f) \subseteq Accounted(f)'
  <1>1. \A t \in Slots : job'[t] = IF t = s THEN j ELSE job[t]
    BY SlotUpdate DEF Begin, TypeInv, TypeOK
  <1> SUFFICES ASSUME NEW v \in Accounted(f)
               PROVE  v \in Accounted(f)'
    OBVIOUS
  <1>2. CASE v \in unlogged[f]
    BY <1>2 DEF Accounted
  <1>3. CASE \E i \in DOMAIN log : f \in log[i].fields /\ v = log[i].new[f]
    BY <1>3 DEF Accounted, RowsKept
  <1>4. CASE \E t \in Slots : /\ job[t].kind = "patch" /\ job[t].at = "log"
                              /\ f \in job[t].fields /\ v = job[t].patch[f]
    <2>1. PICK t \in Slots : /\ job[t].kind = "patch" /\ job[t].at = "log"
                             /\ f \in job[t].fields /\ v = job[t].patch[f]
      BY <1>4
    <2>2. CASE t = s
      BY <2>1, <2>2 DEF Accounted
    <2>3. CASE t # s
      <3>1. job'[t] = job[t]
        BY <1>1, <2>3
      <3> QED
        BY <2>1, <3>1 DEF Accounted, Written, Editing
    <2> QED
      BY <2>2, <2>3
  <1> QED
    BY <1>2, <1>3, <1>4, AccountedFacts

(* the obligations of a handler's step *)
LEMMA AuditKept ==
    ASSUME TypeInv, AuditInv, NEW s \in Slots, NEW j \in Job, Begin(s, j), RowsKept,
           \A f \in Fields : Accounted(f) \subseteq Accounted(f)',
           \A f \in Fields : Carries(j, f)',
           live' # live /\ live' # NoRecord
               => \A f \in Fields : live'[f] \in Accounted(f)',
           \A i \in DOMAIN log' : \/ i \in DOMAIN log
                                  \/ \A f \in Fields : Known(log[i].old[f], f)'
    PROVE  AuditInv'
  <1>1. \A t \in Slots : job'[t] = IF t = s THEN j ELSE job[t]
    BY SlotUpdate DEF Begin, TypeInv, TypeOK
  <1>2. AuditComplete'
    <2>1. CASE live' = live
      BY <2>1 DEF AuditInv, AuditComplete
    <2>2. CASE live' # live
      BY <2>2 DEF AuditComplete
    <2> QED
      BY <2>1, <2>2
  <1>3. ASSUME NEW t \in Slots, NEW f \in Fields
        PROVE  Carries(job[t], f)'
    <2>1. CASE t = s
      <3>1. job'[t] = j
        BY <1>1, <2>1
      <3> QED
        BY <3>1 DEF Carries, Known
    <2>2. CASE t # s
      <3>1. job'[t] = job[t] /\ Carries(job[t], f)
        BY <1>1, <2>2 DEF AuditInv
      <3> QED
        BY <3>1 DEF Carries, Known
    <2> QED
      BY <2>1, <2>2
  <1>4. ASSUME NEW i \in DOMAIN log', NEW f \in Fields
        PROVE  Known(log[i].old[f], f)'
    <2>1. CASE i \in DOMAIN log
      <3>1. log'[i].old = log[i].old /\ Known(log[i].old[f], f)
        BY <2>1 DEF AuditInv, RowsKept
      <3> QED
        BY <3>1 DEF Known
    <2> QED
      BY <2>1
  <1> QED
    BY <1>2, <1>3, <1>4 DEF AuditInv

LEMMA RowsKeptFacts ==
    ASSUME UNCHANGED log
    PROVE  /\ RowsKept
           /\ \A i \in DOMAIN log' : i \in DOMAIN log
  BY DEF RowsKept

LEMMA IdleCarries == ASSUME NEW f \in Fields PROVE Carries(Idle, f)'
  BY DEF Carries, Known, Idle, Task, EmptyBlob

LEMMA AuditRequest ==
    ASSUME TypeInv, AuditInv, NEW s \in Slots, Request(s)
    PROVE  AuditInv'
  <1>1. PICK j \in Job : Begin(s, j) /\ Started(j)
    BY RequestFacts
  <1>2. job[s].at = "idle" /\ UNCHANGED <<live, log, unlogged>>
    BY RequestFacts DEF ghosts
  <1>3. \A f \in Fields : Accounted(f) \subseteq Accounted(f)'
    BY <1>1, <1>2, RowsKeptFacts, AccountGrows
  <1>4. ASSUME NEW f \in Fields
        PROVE  Carries(j, f)'
    <2>1. \A v : Known(v, f) => Known(v, f)'
      BY <1>3 DEF Known
    <2>2. Known(EmptyBlob[f], f)
      BY DEF Known, EmptyBlob
    <2>3. j.kind = "review" => Known(j.patch[f], f)
      BY <1>1, <2>2 DEF Started, AuditInv
    <2> QED
      BY <1>1, <2>1, <2>2, <2>3 DEF Carries, Started
  <1> QED
    BY <1>1, <1>2, <1>3, <1>4, RowsKeptFacts, AuditKept

LEMMA AuditHandler ==
    ASSUME TypeInv, AuditInv, NEW s \in Slots, Handler(s)
    PROVE  AuditInv'
  <1>0. /\ job \in [Slots -> Job] /\ job[s] \in Job /\ InOrder(job[s])
        /\ log \in Seq(Mutation)
        /\ \A f \in Fields : Carries(job[s], f)
    BY DEF TypeInv, TypeOK, JobsInOrder, AuditInv
  <1>a. ASSUME NEW j \in Job, Begin(s, j), job[s].at # "log", UNCHANGED <<log, unlogged>>
        PROVE  /\ RowsKept
               /\ \A f \in Fields : Accounted(f) \subseteq Accounted(f)'
               /\ \A f \in Fields : \A v : Known(v, f) => Known(v, f)'
    <2>1. \A f \in Fields : Accounted(f) \subseteq Accounted(f)'
      BY <1>a, RowsKeptFacts, AccountGrows
    <2> QED
      BY <1>a, <2>1, RowsKeptFacts DEF Known
  <1>b. ASSUME Finish(s), job[s].at # "log", UNCHANGED <<log, unlogged>>,
               live' \in {live, NoRecord}
        PROVE  AuditInv'
    <2>1. Begin(s, Idle) /\ Idle \in Job
      BY <1>b, FinishFacts
    <2> QED
      BY <1>a, <1>b, <2>1, IdleCarries, RowsKeptFacts, AuditKept
  <1>1. CASE PatchNothing(s)
    BY <1>1, <1>b DEF PatchNothing, ghosts
  <1>2. CASE DiffPatch(s)
    <2> DEFINE F == Changed(live, job[s].patch)
               h == Holding(job[s], "merge", F, Pick(live, F), EmptyBlob)
    <2>1. live \in Blob /\ job[s].patch \in Blob /\ live # NoRecord
      BY <1>0, <1>2 DEF DiffPatch, TypeInv, TypeOK, Job
    <2>2. PICK j \in Job : j = h
      BY <1>0, <2>1, BlobFacts, HoldingFacts DEF Steps
    <2>3. Begin(s, j) /\ job[s].at = "diff" /\ UNCHANGED <<live, log, unlogged>>
      BY <1>2, <2>2 DEF DiffPatch, ghosts
    <2>4. /\ RowsKept
          /\ \A f \in Fields : Accounted(f) \subseteq Accounted(f)'
          /\ \A f \in Fields : \A v : Known(v, f) => Known(v, f)'
      BY <1>a, <2>2, <2>3
    <2>5. \A f \in Fields : live[f] \in Accounted(f)
      BY <2>1 DEF AuditInv, AuditComplete
    <2>6. ASSUME NEW f \in Fields
          PROVE  Carries(j, f)'
      <3>1. Known(Pick(live, F)[f], f)
        BY <2>5 DEF Pick, Known
      <3>2. f \notin F => Known(job[s].patch[f], f)
        BY <2>5 DEF Changed, Known
      <3>3. /\ j.kind = "patch" /\ j.at = "merge" /\ j.fields = F
            /\ j.patch = job[s].patch /\ j.old = Pick(live, F)
        BY <1>0, <2>2, <2>3 DEF Holding, InOrder
      <3> QED
        BY <2>4, <3>1, <3>2, <3>3 DEF Carries
    <2> QED
      BY <2>2, <2>3, <2>4, <2>6, RowsKeptFacts, AuditKept
  <1>3. CASE ReadForMerge(s)
    <2> DEFINE m == Merge(live, job[s].patch)
               h == Holding(job[s], "store", job[s].fields, job[s].old, m)
    <2>1. live \in Blob /\ job[s].patch \in Blob /\ live # NoRecord
      BY <1>0, <1>3 DEF ReadForMerge, TypeInv, TypeOK, Job
    <2>2. m \in Blob
      BY <2>1, BlobFacts
    <2>3. PICK j \in Job : j = h
      BY <1>0, <2>2, HoldingFacts DEF Job, Steps
    <2>4. Begin(s, j) /\ job[s].at = "merge" /\ UNCHANGED <<live, log, unlogged>>
      BY <1>3, <2>3 DEF ReadForMerge, ghosts
    <2>5. /\ RowsKept
          /\ \A f \in Fields : Accounted(f) \subseteq Accounted(f)'
          /\ \A f \in Fields : \A v : Known(v, f) => Known(v, f)'
      BY <1>a, <2>3, <2>4
    <2>6. ASSUME NEW f \in Fields
          PROVE  Carries(j, f)'
      <3>1. live[f] \in Accounted(f)
        BY <2>1 DEF AuditInv, AuditComplete
      <3>2. m[f] = IF job[s].patch[f] = Absent THEN live[f] ELSE job[s].patch[f]
        BY DEF Merge
      <3>3. /\ job[s].kind = "patch" /\ f \notin job[s].fields
                  => Known(job[s].patch[f], f)
            /\ job[s].kind = "review" => Known(job[s].patch[f], f)
            /\ Known(job[s].old[f], f)
            /\ job[s].kind \in {"patch", "review"}
        BY <1>0, <2>4 DEF Carries, InOrder
      <3>4. \/ m[f] \in Accounted(f)
            \/ job[s].kind = "patch" /\ f \in job[s].fields /\ m[f] = job[s].patch[f]
        BY <3>1, <3>2, <3>3 DEF Known
      <3>5. /\ j.kind = job[s].kind /\ j.at = "store" /\ j.fields = job[s].fields
            /\ j.patch = job[s].patch /\ j.old = job[s].old /\ j.merged = m
        BY <2>3 DEF Holding
      <3> HIDE DEF m
      <3> QED
        BY <2>5, <3>3, <3>4, <3>5 DEF Carries
    <2> QED
      BY <2>3, <2>4, <2>5, <2>6, RowsKeptFacts, AuditKept
  <1>c. ASSUME NEW step \in Steps, step # "store", job[s].at # "log",
               Goto(s, step), UNCHANGED <<log, unlogged>>,
               step = "merge" => job[s].kind = "review",
               live' # live
                 => /\ job[s].at = "store" /\ live' = job[s].merged
                    /\ job[s].kind = "patch" => step = "log"
        PROVE  AuditInv'
    <2>0. PICK j \in Job : j = [job[s] EXCEPT !.at = step]
      BY <1>0, GotoFacts
    <2>1. /\ j.at = step /\ j.kind = job[s].kind /\ j.old = job[s].old
          /\ j.patch = job[s].patch /\ j.fields = job[s].fields
      BY <1>0, <2>0, GotoFacts
    <2>2. Begin(s, j)
      BY <1>c, <2>0 DEF Goto
    <2>3. /\ RowsKept
          /\ \A f \in Fields : Accounted(f) \subseteq Accounted(f)'
          /\ \A f \in Fields : \A v : Known(v, f) => Known(v, f)'
      BY <1>a, <1>c, <2>1, <2>2
    <2>4. ASSUME NEW f \in Fields
          PROVE  Carries(j, f)'
      <3>1. Carries(job[s], f)
        BY <1>0
      <3> QED
        BY <1>c, <2>1, <2>3, <3>1 DEF Carries
    <2>5. ASSUME live' # live, NEW f \in Fields
          PROVE  live'[f] \in Accounted(f)'
      <3>1. \/ job[s].merged[f] \in Accounted(f)
            \/ /\ job[s].kind = "patch" /\ f \in job[s].fields
               /\ job[s].merged[f] = job[s].patch[f]
        BY <1>0, <1>c, <2>5 DEF Carries
      <3>2. CASE job[s].merged[f] \in Accounted(f)
        BY <1>c, <2>3, <2>5, <3>2
      <3>3. CASE /\ job[s].kind = "patch" /\ f \in job[s].fields
                 /\ job[s].merged[f] = job[s].patch[f]
        <4>1. job'[s] = j
          BY <1>0, <2>1, <2>2, SlotUpdate DEF Begin
        <4> QED
          BY <1>c, <2>1, <2>5, <3>3, <4>1 DEF Accounted, Written, Editing
      <3> QED
        BY <3>1, <3>2, <3>3
    <2> QED
      BY <1>c, <2>1, <2>2, <2>3, <2>4, <2>5, RowsKeptFacts, AuditKept
  <1>4. CASE NothingToMerge(s)
    <2>1. PICK step \in Steps : step = AfterPatchBySlug(s) /\ step \in {"log", "flip"}
      BY DEF AfterPatchBySlug, Steps
    <2> QED
      BY <1>4, <1>c, <2>1 DEF NothingToMerge
  <1>5. CASE WriteMerged(s)
    <2>1. PICK step \in Steps : step = AfterPatchBySlug(s) /\ step \in {"log", "flip"}
      BY DEF AfterPatchBySlug, Steps
    <2>2. job[s].kind = "patch" => step = "log"
      BY <2>1 DEF AfterPatchBySlug, Editing
    <2> QED
      BY <1>5, <1>c, <2>1, <2>2 DEF WriteMerged
  <1>6. CASE RowVanished(s)
    BY <1>6, <1>b DEF RowVanished, ghosts
  <1>9. CASE FinishDelete(s)
    BY <1>9, <1>b DEF FinishDelete, ghosts
  <1>10. CASE RefuseRevert(s)
    BY <1>10, <1>b DEF RefuseRevert, ghosts
  <1>11. CASE AllowRevert(s)
    <2>1. "merge" \in Steps
      BY DEF Steps
    <2> QED
      BY <1>0, <1>11, <1>c, <2>1 DEF AllowRevert, ghosts, InOrder
  <1>13. CASE RevokeKey(s)
    <2>1. "cascade" \in Steps
      BY DEF Steps
    <2> QED
      BY <1>13, <1>c, <2>1 DEF RevokeKey
  <1>d. ASSUME Finish(s), RowsKept, \A f \in Fields : unlogged[f] \subseteq unlogged'[f],
               \A f \in Fields :
                   \/ job[s].at # "log"
                   \/ \E i \in DOMAIN log' :
                         /\ log'[i].fields = job[s].fields
                         /\ f \in job[s].fields => log'[i].new[f] = job[s].patch[f]
        PROVE  /\ Begin(s, Idle) /\ Idle \in Job
               /\ \A f \in Fields : Accounted(f) \subseteq Accounted(f)'
               /\ \A f \in Fields : \A v : Known(v, f) => Known(v, f)'
    <2>1. Begin(s, Idle) /\ Idle \in Job
      BY <1>d, FinishFacts
    <2>2. \A f \in Fields : Accounted(f) \subseteq Accounted(f)'
      BY <1>d, <2>1, AccountGrows
    <2> QED
      BY <2>1, <2>2 DEF Known
  <1>7. CASE LogMutation(s)
    <2> DEFINE m == NewMutation(job[s])
               n == Len(log) + 1
    <2>1. m \in Mutation
      BY <1>0, NewRowFacts
    <2>2. /\ \A i \in DOMAIN log : i \in DOMAIN log' /\ log'[i] = log[i]
          /\ DOMAIN log' = DOMAIN log \cup {n}
          /\ log'[n] = m
      BY <1>0, <1>7, <2>1, AddRow DEF LogMutation
    <2>3. /\ m.fields = job[s].fields /\ m.old = job[s].old
          /\ \A f \in job[s].fields \cap Fields : m.new[f] = job[s].patch[f]
      BY DEF NewMutation, Pick
    <2>4. RowsKept /\ UNCHANGED <<unlogged, live>> /\ Finish(s)
      BY <1>7, <2>2 DEF RowsKept, LogMutation, ghosts
    <2> HIDE DEF m, n
    <2>5. \A f \in Fields : \E i \in DOMAIN log' :
              /\ log'[i].fields = job[s].fields
              /\ f \in job[s].fields => log'[i].new[f] = job[s].patch[f]
      BY <2>2, <2>3
    <2>6. /\ Begin(s, Idle) /\ Idle \in Job
          /\ \A f \in Fields : Accounted(f) \subseteq Accounted(f)'
          /\ \A f \in Fields : \A v : Known(v, f) => Known(v, f)'
      BY <1>d, <2>4, <2>5
    <2>7. ASSUME NEW i \in DOMAIN log', i \notin DOMAIN log, NEW f \in Fields
          PROVE  Known(log[i].old[f], f)'
      <3>1. log'[i].old[f] = job[s].old[f]
        BY <2>2, <2>3, <2>7
      <3>2. Known(job[s].old[f], f)
        BY <1>0 DEF Carries
      <3> QED
        BY <2>6, <3>1, <3>2 DEF Known
    <2> QED
      BY <2>4, <2>6, <2>7, IdleCarries, AuditKept
  <1>8. CASE FinishPut(s)
    <2>1. /\ Finish(s) /\ job[s].at # "log" /\ RowsKept
          /\ \A f \in Fields : unlogged'[f] = unlogged[f] \cup {job[s].patch[f]}
          /\ live' = job[s].patch
          /\ \A i \in DOMAIN log' : i \in DOMAIN log
      BY <1>8, RowsKeptFacts DEF FinishPut
    <2>2. /\ Begin(s, Idle) /\ Idle \in Job
          /\ \A f \in Fields : Accounted(f) \subseteq Accounted(f)'
      BY <1>d, <2>1
    <2>3. \A f \in Fields : live'[f] \in Accounted(f)'
      BY <2>1 DEF Accounted
    <2> QED
      BY <2>1, <2>2, <2>3, IdleCarries, AuditKept
  <1>12. CASE FlipStatus(s)
    <2> DEFINE n == job[s].id
               m == Decided(log[n], StatusOf(job[s].action), "moderator")
    <2>1. n \in DOMAIN log /\ log[n] \in Mutation
      BY <1>0, <1>12, ElementOfSeq, LenProperties
         DEF FlipStatus, InOrder, TypeInv, JobsInOrder
    <2>2. m \in Mutation
      BY <1>0, <2>1, StatusFacts, RowFacts DEF Job
    <2>3. /\ DOMAIN log' = DOMAIN log
          /\ \A i \in DOMAIN log : log'[i] = IF i = n THEN m ELSE log[i]
      BY <1>0, <1>12, <2>1, <2>2, UpdateRow DEF FlipStatus
    <2>4. m.fields = log[n].fields /\ m.old = log[n].old /\ m.new = log[n].new
      BY DEF Decided
    <2> HIDE DEF m, n
    <2>5. RowsKept
      BY <2>3, <2>4 DEF RowsKept
    <2>6. Finish(s) /\ job[s].at # "log" /\ UNCHANGED <<live, unlogged>>
      BY <1>12 DEF FlipStatus, ghosts
    <2>7. /\ Begin(s, Idle) /\ Idle \in Job
          /\ \A f \in Fields : Accounted(f) \subseteq Accounted(f)'
      BY <1>d, <2>5, <2>6
    <2> QED
      BY <2>3, <2>5, <2>6, <2>7, IdleCarries, AuditKept
  <1>14. CASE CascadeRevoke(s)
    <2>1. job[s].key \in Keys
      BY <1>0 DEF Job
    <2>2. /\ DOMAIN log' = DOMAIN log
          /\ \A i \in DOMAIN log : log'[i] = AutoRejected(log[i], job[s].key)
      BY <1>0, <1>14, <2>1, SweepRows DEF CascadeRevoke
    <2>3. RowsKept
      BY <2>2 DEF RowsKept, AutoRejected, Decided
    <2>4. Finish(s) /\ job[s].at # "log" /\ UNCHANGED <<live, unlogged>>
      BY <1>14 DEF CascadeRevoke
    <2>5. /\ Begin(s, Idle) /\ Idle \in Job
          /\ \A f \in Fields : Accounted(f) \subseteq Accounted(f)'
      BY <1>d, <2>3, <2>4
    <2> QED
      BY <2>2, <2>3, <2>4, <2>5, IdleCarries, AuditKept
  <1> QED
    BY <1>1, <1>2, <1>3, <1>4, <1>5, <1>6, <1>7, <1>8, <1>9, <1>10, <1>11,
       <1>12, <1>13, <1>14 DEF Handler

LEMMA AuditFault ==
    ASSUME TypeInv, AuditInv, NEW T \in SUBSET Slots, Die(T)
    PROVE  AuditInv'
  <1>1. \A t \in Slots : job'[t] = IF t \in T THEN Idle ELSE job[t]
    BY DEF Die
  <1>2. /\ live' = live /\ log' = log
        /\ \A f \in Fields : unlogged'[f] = unlogged[f] \cup Written(T, f)
    BY DEF Die
  <1>3. ASSUME NEW f \in Fields, NEW v \in Accounted(f)
        PROVE  v \in Accounted(f)'
    <2>1. CASE v \in unlogged[f]
      BY <1>2, <2>1 DEF Accounted
    <2>2. CASE \E i \in DOMAIN log : f \in log[i].fields /\ v = log[i].new[f]
      BY <1>2, <2>2 DEF Accounted
    <2>3. CASE \E t \in Slots : /\ job[t].kind = "patch" /\ job[t].at = "log"
                                /\ f \in job[t].fields /\ v = job[t].patch[f]
      <3>1. PICK t \in Slots : /\ job[t].kind = "patch" /\ job[t].at = "log"
                               /\ f \in job[t].fields /\ v = job[t].patch[f]
        BY <2>3
      <3>2. CASE t \in T
        <4>1. v \in Written(T, f)
          BY <3>1, <3>2 DEF Written, Editing
        <4> QED
          BY <1>2, <4>1 DEF Accounted
      <3>3. CASE t \notin T
        <4>1. job'[t] = job[t]
          BY <1>1, <3>3
        <4> QED
          BY <3>1, <4>1 DEF Accounted, Written, Editing
      <3> QED
        BY <3>2, <3>3
    <2> QED
      BY <2>1, <2>2, <2>3, AccountedFacts
  <1>4. \A f \in Fields : \A v : Known(v, f) => Known(v, f)'
    BY <1>3 DEF Known
  <1>5. AuditComplete'
    BY <1>2, <1>3 DEF AuditInv, AuditComplete
  <1>6. ASSUME NEW s \in Slots, NEW f \in Fields
        PROVE  Carries(job[s], f)'
    <2>1. CASE s \in T
      <3>1. job'[s] = Idle
        BY <1>1, <2>1
      <3> QED
        BY <3>1 DEF Carries, Known, Idle, Task, EmptyBlob
    <2>2. CASE s \notin T
      <3>1. job'[s] = job[s] /\ Carries(job[s], f)
        BY <1>1, <2>2 DEF AuditInv
      <3> QED
        BY <1>3, <1>4, <3>1 DEF Carries
    <2> QED
      BY <2>1, <2>2
  <1>7. \A i \in DOMAIN log', f \in Fields : Known(log[i].old[f], f)'
    BY <1>2, <1>4 DEF AuditInv
  <1> QED
    BY <1>5, <1>6, <1>7 DEF AuditInv

LEMMA AuditInit == Init => AuditInv
  <1> SUFFICES ASSUME Init PROVE AuditInv
    OBVIOUS
  <1>1. AuditComplete
    BY DEF Init, AuditComplete, Accounted
  <1>2. \A s \in Slots, f \in Fields : Carries(job[s], f)
    BY DEF Init, Carries, Known, Idle, Task, EmptyBlob
  <1>3. \A i \in DOMAIN log, f \in Fields : Known(log[i].old[f], f)
    BY EmptySeq, LenProperties DEF Init
  <1> QED
    BY <1>1, <1>2, <1>3 DEF AuditInv

(* Every value the live record ever shows is the seed's, a PUT's, some     *)
(* row's, or that of a PATCH between patchBySlug and createMutation (or    *)
(* that died there), for any number of concurrent edits, reviews, restores *)
(* from stale reads, revocations, failures and restarts.                   *)
THEOREM TrailAccountsForLive == Spec => []AuditComplete
  <1>1. TypeInv /\ AuditInv /\ [Next]_vars => AuditInv'
    <2> SUFFICES ASSUME TypeInv, AuditInv, [Next]_vars PROVE AuditInv'
      OBVIOUS
    <2>1. ASSUME NEW s \in Slots, Request(s) \/ Handler(s)
          PROVE  AuditInv'
      BY <2>1, AuditRequest, AuditHandler
    <2>2. ASSUME NEW T \in SUBSET Slots, Die(T)
          PROVE  AuditInv'
      BY <2>2, AuditFault
    <2>3. CASE UNCHANGED vars
      <3>1. UNCHANGED <<live, log, job, unlogged>>
        BY <2>3 DEF vars, ghosts
      <3> QED
        BY <3>1 DEF AuditInv, AuditComplete, Carries, Known, Accounted, Written, Editing
    <2> QED
      BY <2>1, <2>2, <2>3 DEF Next, RequestFails, Restart
  <1>2. AuditInv => AuditComplete
    BY DEF AuditInv
  <1> QED
    BY <1>1, <1>2, AuditInit, AlwaysTypeInv, PTL DEF Spec

-----------------------------------------------------------------------------
(* The audit trail's contract *)

(* Every step of the moderation system is a step of the abstract audit     *)
(* log, or leaves the mutations table alone.                               *)
THEOREM ImplementsAuditLog == Spec => KeepsAuditTrail
  <1>1. Init => Audit!Init
    BY DEF Init, Audit!Init
  <1>2. TypeInv /\ [Next]_vars => [Audit!Next]_log
    <2> SUFFICES ASSUME TypeInv, [Next]_vars, log' # log PROVE Audit!Next
      OBVIOUS
    <2>0. job \in [Slots -> Job] /\ log \in Seq(Mutation)
      BY DEF TypeInv, TypeOK
    <2>1. PICK s \in Slots : Handler(s)
      BY RequestFacts DEF Next, vars, RequestFails, Restart, Die
    <2>2. LogMutation(s) \/ FlipStatus(s) \/ CascadeRevoke(s)
      BY <2>1 DEF Handler, PatchNothing, DiffPatch, ReadForMerge, NothingToMerge,
            WriteMerged, RowVanished, FinishPut, FinishDelete, RefuseRevert,
            AllowRevert, RevokeKey
    <2>3. CASE LogMutation(s)
      <3> DEFINE j == job[s]
                 e == [fields |-> j.fields, old |-> j.old,
                       new |-> Pick(j.patch, j.fields), actor |-> j.key]
      <3>1. j \in Job
        BY <2>0
      <3>2. e \in Edits
        BY <3>1, BlobFacts DEF Edits, Job
      <3>3. NewMutation(j) = Audit!Row(e, "pending_review", "nobody")
        BY DEF NewMutation, Audit!Row
      <3> HIDE DEF j, e
      <3>4. log' = Append(log, NewMutation(j))
        BY <2>3 DEF LogMutation, j
      <3>5. Len(log') = Len(log) + 1
        <4>1. NewMutation(j) \in Mutation
          BY <3>2, <3>3 DEF Audit!Row, Edits, Mutation, Statuses
        <4> QED
          BY <2>0, <3>4, <4>1, AppendProperties
      <3>6. Audit!Record
        BY <3>2, <3>3, <3>4, <3>5 DEF Audit!Record
      <3> QED
        BY <3>6 DEF Audit!Next
    <2>4. CASE FlipStatus(s)
      <3> DEFINE i == job[s].id
                 verdict == StatusOf(job[s].action)
      <3>1. i \in DOMAIN log
        BY <2>0, <2>4 DEF FlipStatus, TypeInv, JobsInOrder, InOrder
      <3>2. verdict \in {"approved", "rejected", "reverted"}
        <4>1. job[s].action \in Actions
          BY <2>0 DEF Job
        <4> QED
          BY <4>1 DEF StatusOf, Actions
      <3>3. Decided(log[i], verdict, "moderator")
              = Audit!Row(log[i], verdict, "moderator")
        BY DEF Decided, Audit!Row
      <3>4. log' = [log EXCEPT ![i] = Audit!Row(log[i], verdict, "moderator")]
        BY <2>4, <3>3 DEF FlipStatus
      <3> HIDE DEF i, verdict
      <3>5. Audit!Decide
        BY <3>1, <3>2, <3>4 DEF Audit!Decide
      <3> QED
        BY <3>5 DEF Audit!Next
    <2>5. CASE CascadeRevoke(s)
      <3> DEFINE k == job[s].key
                 Due(m) == m.actor = k /\ m.status = "pending_review"
      <3>1. k \in Keys
        BY <2>0 DEF Job
      <3>2. log' = [i \in 1..Len(log) |->
                      IF Due(log[i]) THEN Audit!Row(log[i], "rejected", "key-revoked")
                      ELSE log[i]]
        BY <2>5 DEF CascadeRevoke, AutoRejected, Decided, Audit!Row
      <3>3. \E i \in DOMAIN log : Due(log[i])
        <4> SUFFICES ASSUME \A i \in DOMAIN log : ~Due(log[i])
                     PROVE  FALSE
          OBVIOUS
        <4>1. DOMAIN log = 1..Len(log) /\ log = [i \in DOMAIN log |-> log[i]]
          BY <2>0, LenProperties, SeqDef
        <4>2. log' = [i \in 1..Len(log) |-> log[i]]
          BY <3>2, <4>1
        <4> QED
          BY <4>1, <4>2
      <3>4. Audit!CloseKey
        BY <3>1, <3>2, <3>3 DEF Audit!CloseKey
      <3> QED
        BY <3>4 DEF Audit!Next
    <2> QED
      BY <2>2, <2>3, <2>4, <2>5
  <1> QED
    BY <1>1, <1>2, AlwaysTypeInv, PTL DEF Spec, KeepsAuditTrail, Audit!Spec

-----------------------------------------------------------------------------
(* Revocation                                                              *)
(*                                                                         *)
(* A PATCH in flight when its key is revoked still becomes a pending row:  *)
(* the budget of a key is spent by its PATCHes in flight, and after the    *)
(* cascade by its pending rows as well.                                    *)

InFlight(k) == {t \in Slots : Editing(t) /\ job[t].key = k}

StragglerInv ==
    /\ \A k \in revoked : Cardinality(InFlight(k)) <= stragglers[k]
    /\ \A k \in swept :
          Cardinality(Pending(k)) + Cardinality(InFlight(k)) <= stragglers[k]

LEMMA CountsFinite ==
    ASSUME TypeInv, NEW k
    PROVE  /\ IsFiniteSet(InFlight(k)) /\ Cardinality(InFlight(k)) \in Nat
           /\ IsFiniteSet(Pending(k)) /\ Cardinality(Pending(k)) \in Nat
  <1>1. IsFiniteSet(InFlight(k))
    BY ConstantsOK, FS_Subset DEF InFlight
  <1>2. IsFiniteSet(DOMAIN log)
    BY LenProperties, FS_Interval DEF TypeInv, TypeOK
  <1>3. IsFiniteSet(Pending(k))
    BY <1>2, FS_Subset DEF Pending
  <1> QED
    BY <1>1, <1>3, FS_CardinalityType

LEMMA StragglersKept ==
    ASSUME TypeInv, StragglerInv, UNCHANGED <<revoked, swept, stragglers>>,
           \A k \in revoked : InFlight(k)' \subseteq InFlight(k),
           \A k \in swept : Pending(k)' \subseteq Pending(k)
    PROVE  StragglerInv'
  <1>1. \A k \in Keys : stragglers[k] \in Nat
    BY DEF TypeInv, TypeOK
  <1>2. swept \subseteq revoked /\ revoked \subseteq Keys
    BY DEF TypeInv, TypeOK
  <1>3. ASSUME NEW k \in revoked
        PROVE  /\ Cardinality(InFlight(k)') <= Cardinality(InFlight(k))
               /\ Cardinality(InFlight(k)') \in Nat
    BY CountsFinite, FS_Subset, FS_CardinalityType
  <1>4. ASSUME NEW k \in swept
        PROVE  /\ Cardinality(Pending(k)') <= Cardinality(Pending(k))
               /\ Cardinality(Pending(k)') \in Nat
    BY CountsFinite, FS_Subset, FS_CardinalityType
  <1>5. ASSUME NEW k \in revoked'
        PROVE  Cardinality(InFlight(k)') <= stragglers'[k]
    <2>1. k \in revoked /\ k \in Keys /\ stragglers'[k] = stragglers[k]
      BY <1>2
    <2>2. Cardinality(InFlight(k)) <= stragglers[k]
      BY <2>1 DEF StragglerInv
    <2> QED
      BY <1>1, <1>3, <2>1, <2>2, CountsFinite
  <1>6. ASSUME NEW k \in swept'
        PROVE  Cardinality(Pending(k)') + Cardinality(InFlight(k)') <= stragglers'[k]
    <2>1. k \in swept /\ k \in revoked /\ k \in Keys /\ stragglers'[k] = stragglers[k]
      BY <1>2
    <2>2. Cardinality(Pending(k)) + Cardinality(InFlight(k)) <= stragglers[k]
      BY <2>1 DEF StragglerInv
    <2> QED
      BY <1>1, <1>3, <1>4, <2>1, <2>2, CountsFinite
  <1> QED
    BY <1>5, <1>6 DEF StragglerInv

LEMMA InFlightShrinks ==
    ASSUME TypeInv, NEW s \in Slots, NEW j \in Job, Begin(s, j), NEW k \in Keys,
           j.kind = "patch" /\ j.key = k
               => job[s].kind = "patch" /\ job[s].key = k
    PROVE  InFlight(k)' \subseteq InFlight(k)
  <1>1. \A t \in Slots : job'[t] = IF t = s THEN j ELSE job[t]
    BY SlotUpdate DEF Begin, TypeInv, TypeOK
  <1> QED
    BY <1>1 DEF InFlight, Editing

LEMMA StragglersRequest ==
    ASSUME TypeInv, StragglerInv, NEW s \in Slots, Request(s)
    PROVE  StragglerInv'
  <1>1. PICK j \in Job : Begin(s, j) /\ Started(j)
    BY RequestFacts
  <1>2. UNCHANGED <<log, revoked, swept, stragglers>>
    BY RequestFacts DEF ghosts
  <1>3. \A k \in revoked : InFlight(k)' \subseteq InFlight(k)
    BY <1>1, InFlightShrinks DEF Started, TypeInv, TypeOK
  <1>4. \A k \in swept : Pending(k)' \subseteq Pending(k)
    BY <1>2 DEF Pending
  <1> QED
    BY <1>2, <1>3, <1>4, StragglersKept

LEMMA FinishShrinks ==
    ASSUME TypeInv, NEW s \in Slots, Finish(s), NEW k \in Keys
    PROVE  InFlight(k)' \subseteq InFlight(k) \ {s}
  <1>1. \A t \in Slots : job'[t] = IF t = s THEN Idle ELSE job[t]
    BY FinishFacts, SlotUpdate DEF Begin, TypeInv, TypeOK
  <1> QED
    BY <1>1, IdleFacts DEF InFlight, Editing

LEMMA GotoShrinks ==
    ASSUME TypeInv, NEW s \in Slots, NEW step \in Steps, Goto(s, step), NEW k \in Keys
    PROVE  InFlight(k)' = InFlight(k)
  <1>0. job \in [Slots -> Job] /\ job[s] \in Job
    BY DEF TypeInv, TypeOK
  <1>1. PICK j \in Job : j = [job[s] EXCEPT !.at = step]
    BY <1>0, GotoFacts
  <1>2. j.kind = job[s].kind /\ j.key = job[s].key
    BY <1>0, <1>1, GotoFacts
  <1>3. \A t \in Slots : job'[t] = IF t = s THEN j ELSE job[t]
    BY <1>0, <1>1, SlotUpdate DEF Goto, Begin
  <1> QED
    BY <1>2, <1>3 DEF InFlight, Editing

(* a logged PATCH moves one unit of its key's budget to a pending row *)
LEMMA StragglersLogged ==
    ASSUME TypeInv, StragglerInv, NEW s \in Slots, LogMutation(s)
    PROVE  StragglerInv'
  <1> DEFINE m == NewMutation(job[s])
             n == Len(log) + 1
  <1>0. /\ job[s] \in Job /\ InOrder(job[s]) /\ log \in Seq(Mutation)
        /\ job[s].at = "log" /\ job[s].key \in Keys /\ job[s].kind = "patch"
    BY DEF TypeInv, TypeOK, JobsInOrder, LogMutation, InOrder, Job
  <1>1. m \in Mutation /\ m.actor = job[s].key
    BY <1>0, NewRowFacts DEF NewMutation
  <1>2. /\ DOMAIN log' = DOMAIN log \cup {n}
        /\ \A i \in DOMAIN log : log'[i] = log[i]
        /\ log'[n] = m
    BY <1>0, <1>1, AddRow DEF LogMutation
  <1> HIDE DEF m, n
  <1>3. UNCHANGED <<revoked, swept, stragglers>> /\ Finish(s)
    BY DEF LogMutation, ghosts
  <1>4. \A k \in Keys : stragglers[k] \in Nat
    BY DEF TypeInv, TypeOK
  <1>5. swept \subseteq revoked /\ revoked \subseteq Keys
    BY DEF TypeInv, TypeOK
  <1>6. ASSUME NEW k \in Keys, k # job[s].key
        PROVE  Pending(k)' \subseteq Pending(k) /\ InFlight(k)' \subseteq InFlight(k)
    BY <1>1, <1>2, <1>3, <1>6, FinishShrinks DEF Pending
  <1>7. ASSUME NEW k \in Keys, k = job[s].key
        PROVE  /\ Cardinality(InFlight(k)') \in Nat
               /\ Cardinality(InFlight(k)') <= Cardinality(InFlight(k)) - 1
               /\ Cardinality(Pending(k)') \in Nat
               /\ Cardinality(Pending(k)') <= Cardinality(Pending(k)) + 1
    <2>1. s \in InFlight(k)
      BY <1>0, <1>7 DEF InFlight, Editing
    <2>2. IsFiniteSet(InFlight(k) \ {s}) /\ Cardinality(InFlight(k) \ {s}) = Cardinality(InFlight(k)) - 1
      BY <2>1, CountsFinite, FS_RemoveElement
    <2>3. /\ Cardinality(InFlight(k)') <= Cardinality(InFlight(k) \ {s})
          /\ Cardinality(InFlight(k)') \in Nat
      BY <1>3, <2>2, FinishShrinks, FS_Subset, FS_CardinalityType
    <2>4. Pending(k)' \subseteq Pending(k) \cup {n}
      BY <1>2 DEF Pending
    <2>5. /\ IsFiniteSet(Pending(k) \cup {n})
          /\ Cardinality(Pending(k) \cup {n}) <= Cardinality(Pending(k)) + 1
          /\ Cardinality(Pending(k) \cup {n}) \in Nat
      <3> DEFINE P == Pending(k)
      <3>1. IsFiniteSet(P) /\ Cardinality(P) \in Nat
        BY CountsFinite
      <3> HIDE DEF P
      <3>2. /\ IsFiniteSet(P \cup {n})
            /\ Cardinality(P \cup {n}) = Cardinality(P)
                 \/ Cardinality(P \cup {n}) = Cardinality(P) + 1
        BY <3>1, FS_AddElement
      <3>3. Cardinality(P \cup {n}) <= Cardinality(P) + 1 /\ Cardinality(P \cup {n}) \in Nat
        BY <3>1, <3>2
      <3> QED
        BY <3>2, <3>3 DEF P
    <2>6. /\ Cardinality(Pending(k)') <= Cardinality(Pending(k) \cup {n})
          /\ Cardinality(Pending(k)') \in Nat
      BY <2>4, <2>5, FS_Subset, FS_CardinalityType
    <2> QED
      BY <2>2, <2>3, <2>5, <2>6, CountsFinite
  <1>8. ASSUME NEW k \in Keys
        PROVE  /\ Cardinality(InFlight(k)') \in Nat /\ Cardinality(Pending(k)') \in Nat
               /\ Cardinality(InFlight(k)') <= Cardinality(InFlight(k))
               /\ Cardinality(Pending(k)') + Cardinality(InFlight(k)')
                    <= Cardinality(Pending(k)) + Cardinality(InFlight(k))
    <2>1. CASE k = job[s].key
      BY <1>7, <2>1, CountsFinite
    <2>2. CASE k # job[s].key
      <3>1. Pending(k)' \subseteq Pending(k) /\ InFlight(k)' \subseteq InFlight(k)
        BY <1>6, <2>2
      <3>2. /\ Cardinality(InFlight(k)') <= Cardinality(InFlight(k))
            /\ Cardinality(Pending(k)') <= Cardinality(Pending(k))
            /\ Cardinality(InFlight(k)') \in Nat /\ Cardinality(Pending(k)') \in Nat
        BY <3>1, CountsFinite, FS_Subset, FS_CardinalityType
      <3> QED
        BY <3>2, CountsFinite
    <2> QED
      BY <2>1, <2>2
  <1>9. ASSUME NEW k \in revoked'
        PROVE  Cardinality(InFlight(k)') <= stragglers'[k]
    <2>1. k \in revoked /\ k \in Keys /\ stragglers'[k] = stragglers[k]
      BY <1>3, <1>5
    <2>2. Cardinality(InFlight(k)) <= stragglers[k]
      BY <2>1 DEF StragglerInv
    <2> QED
      BY <1>4, <1>8, <2>1, <2>2, CountsFinite
  <1>10. ASSUME NEW k \in swept'
         PROVE  Cardinality(Pending(k)') + Cardinality(InFlight(k)') <= stragglers'[k]
    <2>1. k \in swept /\ k \in Keys /\ stragglers'[k] = stragglers[k]
      BY <1>3, <1>5
    <2>2. Cardinality(Pending(k)) + Cardinality(InFlight(k)) <= stragglers[k]
      BY <2>1 DEF StragglerInv
    <2> QED
      BY <1>4, <1>8, <2>1, <2>2, CountsFinite
  <1> QED
    BY <1>9, <1>10 DEF StragglerInv

(* revoked_at is set: the key's budget is what it has in flight now *)
LEMMA StragglersRevoked ==
    ASSUME TypeInv, StragglerInv, NEW s \in Slots, RevokeKey(s)
    PROVE  StragglerInv'
  <1> DEFINE key == job[s].key
  <1>0. key \in Keys /\ "cascade" \in Steps
    BY DEF TypeInv, TypeOK, Job, Steps
  <1>1. /\ revoked' = revoked \cup {key}
        /\ stragglers' = IF key \in revoked THEN stragglers
                         ELSE [stragglers EXCEPT ![key] = Cardinality(InFlight(key))]
        /\ Goto(s, "cascade") /\ UNCHANGED <<log, swept>>
    BY DEF RevokeKey, InFlight
  <1> HIDE DEF key
  <1>2. stragglers \in [Keys -> Nat] /\ swept \subseteq revoked /\ revoked \subseteq Keys
    BY DEF TypeInv, TypeOK
  <1>3. \A k \in Keys : InFlight(k)' = InFlight(k) /\ Pending(k)' = Pending(k)
    BY <1>0, <1>1, GotoShrinks DEF Pending
  <1>4. \A k \in revoked : stragglers'[k] = stragglers[k]
    BY <1>0, <1>1, <1>2
  <1>5. ASSUME NEW k \in revoked'
        PROVE  Cardinality(InFlight(k)') <= stragglers'[k]
    <2>1. k \in Keys
      BY <1>0, <1>1, <1>2
    <2>2. CASE k \in revoked
      BY <1>3, <1>4, <2>1, <2>2 DEF StragglerInv
    <2>3. CASE k \notin revoked
      <3>1. stragglers'[k] = Cardinality(InFlight(k))
        BY <1>0, <1>1, <1>2, <2>3
      <3> QED
        BY <1>3, <2>1, <3>1, CountsFinite
    <2> QED
      BY <2>2, <2>3
  <1>6. ASSUME NEW k \in swept'
        PROVE  Cardinality(Pending(k)') + Cardinality(InFlight(k)') <= stragglers'[k]
    <2>1. k \in swept /\ k \in revoked /\ k \in Keys
      BY <1>1, <1>2
    <2> QED
      BY <1>3, <1>4, <2>1 DEF StragglerInv
  <1> QED
    BY <1>5, <1>6 DEF StragglerInv

(* the cascade leaves its key no pending row *)
LEMMA StragglersSwept ==
    ASSUME TypeInv, StragglerInv, NEW s \in Slots, CascadeRevoke(s)
    PROVE  StragglerInv'
  <1>0. PICK key \in Keys : key = job[s].key
    BY DEF TypeInv, TypeOK, Job
  <1>9. key \in revoked /\ log \in Seq(Mutation)
    BY <1>0 DEF TypeInv, TypeOK, JobsInOrder, CascadeRevoke
  <1>1. /\ DOMAIN log' = DOMAIN log
        /\ \A i \in DOMAIN log : log'[i] = AutoRejected(log[i], key)
    BY <1>0, <1>9, SweepRows DEF CascadeRevoke
  <1>2. Finish(s) /\ swept' = swept \cup {key} /\ UNCHANGED <<revoked, stragglers>>
    BY <1>0 DEF CascadeRevoke
  <1>3. /\ swept \subseteq revoked /\ revoked \subseteq Keys
        /\ \A k \in Keys : stragglers[k] \in Nat
    BY DEF TypeInv, TypeOK
  <1>4. \A k \in Keys : Pending(k)' \subseteq Pending(k)
    BY <1>1 DEF Pending, AutoRejected, Decided
  <1>5. Pending(key)' = {}
    BY <1>1 DEF Pending, AutoRejected, Decided
  <1>6. ASSUME NEW k \in Keys
        PROVE  /\ Cardinality(InFlight(k)') <= Cardinality(InFlight(k))
               /\ Cardinality(InFlight(k)') \in Nat
               /\ Cardinality(Pending(k)') <= Cardinality(Pending(k))
               /\ Cardinality(Pending(k)') \in Nat
    BY <1>2, <1>4, FinishShrinks, CountsFinite, FS_Subset, FS_CardinalityType
  <1>7. ASSUME NEW k \in revoked'
        PROVE  Cardinality(InFlight(k)') <= stragglers'[k]
    <2>1. k \in revoked /\ k \in Keys /\ stragglers'[k] = stragglers[k]
      BY <1>2, <1>3
    <2>2. Cardinality(InFlight(k)) <= stragglers[k]
      BY <2>1 DEF StragglerInv
    <2> QED
      BY <1>3, <1>6, <2>1, <2>2, CountsFinite
  <1>8. ASSUME NEW k \in swept'
        PROVE  Cardinality(Pending(k)') + Cardinality(InFlight(k)') <= stragglers'[k]
    <2>1. k \in revoked /\ k \in Keys /\ stragglers'[k] = stragglers[k]
      BY <1>2, <1>3, <1>9
    <2>2. CASE k = key
      <3>1. Cardinality(Pending(k)') = 0
        BY <1>5, <2>2, FS_EmptySet
      <3> QED
        BY <1>2, <1>6, <1>7, <2>1, <3>1
    <2>3. CASE k # key
      <3>1. k \in swept
        BY <1>2, <2>3
      <3>2. Cardinality(Pending(k)) + Cardinality(InFlight(k)) <= stragglers[k]
        BY <3>1 DEF StragglerInv
      <3> QED
        BY <1>3, <1>6, <2>1, <3>2, CountsFinite
    <2> QED
      BY <2>2, <2>3
  <1> QED
    BY <1>7, <1>8 DEF StragglerInv

LEMMA StragglersHandler ==
    ASSUME TypeInv, StragglerInv, NEW s \in Slots, Handler(s)
    PROVE  StragglerInv'
  <1>0. job[s] \in Job /\ InOrder(job[s]) /\ log \in Seq(Mutation)
    BY DEF TypeInv, TypeOK, JobsInOrder
  <1>1. swept \subseteq revoked /\ revoked \subseteq Keys
    BY DEF TypeInv, TypeOK
  <1>a. ASSUME Finish(s) \/ \E step \in Steps : Goto(s, step),
               UNCHANGED <<log, revoked, swept, stragglers>>
        PROVE  StragglerInv'
    <2>1. \A k \in Keys : InFlight(k)' \subseteq InFlight(k)
      BY <1>a, FinishShrinks, GotoShrinks
    <2>2. \A k \in swept : Pending(k)' \subseteq Pending(k)
      BY <1>a DEF Pending
    <2> QED
      BY <1>1, <1>a, <2>1, <2>2, StragglersKept
  <1>b. ASSUME NEW F, NEW old, NEW merged, NEW step,
               Begin(s, Holding(job[s], step, F, old, merged)),
               Holding(job[s], step, F, old, merged) \in Job,
               UNCHANGED <<log, revoked, swept, stragglers>>
        PROVE  StragglerInv'
    <2>1. \A k \in Keys : InFlight(k)' \subseteq InFlight(k)
      BY <1>b, InFlightShrinks DEF Holding
    <2>2. \A k \in swept : Pending(k)' \subseteq Pending(k)
      BY <1>b DEF Pending
    <2> QED
      BY <1>1, <1>b, <2>1, <2>2, StragglersKept
  <1>2. CASE PatchNothing(s) \/ RowVanished(s) \/ RefuseRevert(s) \/ FinishPut(s)
             \/ FinishDelete(s)
    BY <1>2, <1>a DEF PatchNothing, RowVanished, RefuseRevert, FinishPut,
          FinishDelete, ghosts
  <1>3. CASE NothingToMerge(s) \/ WriteMerged(s)
    <2>1. AfterPatchBySlug(s) \in Steps
      BY DEF AfterPatchBySlug, Steps
    <2> QED
      BY <1>3, <1>a, <2>1 DEF NothingToMerge, WriteMerged
  <1>4. CASE AllowRevert(s)
    <2>1. "merge" \in Steps
      BY DEF Steps
    <2> QED
      BY <1>4, <1>a, <2>1 DEF AllowRevert, ghosts
  <1>5. CASE DiffPatch(s)
    <2> DEFINE F == Changed(live, job[s].patch)
    <2>1. live \in Blob /\ job[s].patch \in Blob
      BY <1>0, <1>5 DEF DiffPatch, TypeInv, TypeOK, Job
    <2>2. Holding(job[s], "merge", F, Pick(live, F), EmptyBlob) \in Job
      BY <1>0, <2>1, BlobFacts, HoldingFacts DEF Steps
    <2> QED
      BY <1>5, <1>b, <2>2 DEF DiffPatch, ghosts
  <1>6. CASE ReadForMerge(s)
    <2> DEFINE m == Merge(live, job[s].patch)
    <2>1. live \in Blob /\ job[s].patch \in Blob
      BY <1>0, <1>6 DEF ReadForMerge, TypeInv, TypeOK, Job
    <2>2. m \in Blob
      BY <2>1, BlobFacts
    <2>3. Holding(job[s], "store", job[s].fields, job[s].old, m) \in Job
      BY <1>0, <2>2, HoldingFacts DEF Job, Steps
    <2> QED
      BY <1>6, <1>b, <2>3 DEF ReadForMerge, ghosts
  <1>7. CASE FlipStatus(s)
    <2> DEFINE i == job[s].id
               st == StatusOf(job[s].action)
    <2>1. i \in DOMAIN log /\ log[i] \in Mutation
      BY <1>0, <1>7, ElementOfSeq, LenProperties
         DEF FlipStatus, InOrder, TypeInv, JobsInOrder
    <2>2. st \in Statuses /\ st # "pending_review"
      <3>1. job[s].action \in Actions
        BY <1>0 DEF Job
      <3> QED
        BY <3>1, StatusFacts DEF StatusOf, Actions
    <2>3. /\ DOMAIN log' = DOMAIN log
          /\ \A n \in DOMAIN log :
                log'[n] = IF n = i THEN Decided(log[i], st, "moderator") ELSE log[n]
      BY <1>0, <1>7, <2>1, <2>2, RowFacts, UpdateRow DEF FlipStatus
    <2>4. \A k \in swept : Pending(k)' \subseteq Pending(k)
      BY <2>2, <2>3 DEF Pending, Decided
    <2>5. Finish(s) /\ UNCHANGED <<revoked, swept, stragglers>>
      BY <1>7 DEF FlipStatus, ghosts
    <2> QED
      BY <1>1, <2>4, <2>5, FinishShrinks, StragglersKept
  <1> QED
    BY <1>2, <1>3, <1>4, <1>5, <1>6, <1>7, StragglersLogged, StragglersRevoked,
       StragglersSwept DEF Handler

LEMMA StragglersFault ==
    ASSUME TypeInv, StragglerInv, NEW T \in SUBSET Slots, Die(T)
    PROVE  StragglerInv'
  <1>1. \A k \in revoked : InFlight(k)' \subseteq InFlight(k)
    BY IdleFacts DEF Die, InFlight, Editing
  <1>2. \A k \in swept : Pending(k)' \subseteq Pending(k)
    BY DEF Die, Pending
  <1> QED
    BY <1>1, <1>2, StragglersKept DEF Die

(* No PATCH gets past the key check once revoked_at is set, so after the   *)
(* cascade a key's pending rows are at most the PATCHes it had in flight   *)
(* at that moment, for any number of keys, slots and edits.                *)
THEOREM RevocationLeavesOnlyStragglers == Spec => []OnlyStragglersSurvive
  <1>1. Init => StragglerInv
    BY DEF Init, StragglerInv
  <1>2. TypeInv /\ StragglerInv /\ [Next]_vars => StragglerInv'
    <2> SUFFICES ASSUME TypeInv, StragglerInv, [Next]_vars PROVE StragglerInv'
      OBVIOUS
    <2>1. ASSUME NEW s \in Slots, Request(s) \/ Handler(s)
          PROVE  StragglerInv'
      BY <2>1, StragglersRequest, StragglersHandler
    <2>2. ASSUME NEW T \in SUBSET Slots, Die(T)
          PROVE  StragglerInv'
      BY <2>2, StragglersFault
    <2>3. CASE UNCHANGED vars
      <3>1. UNCHANGED <<log, job, revoked, swept, stragglers>>
        BY <2>3 DEF vars, ghosts
      <3> QED
        BY <3>1 DEF StragglerInv, Pending, InFlight, Editing
    <2> QED
      BY <2>1, <2>2, <2>3 DEF Next, RequestFails, Restart
  <1>3. TypeInv /\ StragglerInv => OnlyStragglersSurvive
    <2> SUFFICES ASSUME TypeInv, StragglerInv, NEW k \in swept
                 PROVE  Cardinality(Pending(k)) <= stragglers[k]
      BY DEF OnlyStragglersSurvive
    <2>1. Cardinality(Pending(k)) + Cardinality(InFlight(k)) <= stragglers[k]
      BY DEF StragglerInv
    <2>2. stragglers[k] \in Nat
      BY DEF TypeInv, TypeOK
    <2> QED
      BY <2>1, <2>2, CountsFinite
  <1> QED
    BY <1>1, <1>2, <1>3, AlwaysTypeInv, PTL DEF Spec
-----------------------------------------------------------------------------
(* The log says what the record is, one request at a time                  *)

Serial ==
    /\ \E s \in Slots : Slots = {s}
    /\ Puts = {} /\ MaxFaults = 0
    /\ \A b \in Seeds : \A f \in Fields : b[f] # Absent
    /\ Verdicts \subseteq {"approve", "revert"}
    /\ Reviewable \subseteq {"pending_review", "approved"}
    /\ MaxEdits <= Window

(* v is the value of field f after the edits S and no other. *)
After(S, f, v) ==
    \/ S = {} /\ v = seed[f]
    \/ \E m \in S : (\A i \in S : i <= m) /\ v = log[m].new[f]

Settled(f) == live[f] # Absent /\ After(InForce(f), f, live[f])

(* Each row's old value is what the edits in force before it had made of   *)
(* the field, so that putting it back withdraws this row alone.            *)
RowSound(i, f) ==
    /\ log[i].old[f] # Absent /\ log[i].new[f] # Absent
    /\ After({m \in InForce(f) : m < i}, f, log[i].old[f])

RowsSound ==
    \A i \in DOMAIN log : \A f \in Fields :
        IF f \in log[i].fields THEN RowSound(i, f) ELSE log[i].old[f] = Absent

(* A PATCH holds, for the fields it found different, what they were.       *)
PatchHolds(j) ==
    /\ \A f \in j.fields : /\ j.patch[f] # Absent /\ j.old[f] # Absent
                           /\ After(InForce(f), f, j.old[f])
    /\ \A f \in Fields \ j.fields :
           Settled(f) /\ j.old[f] = Absent /\ j.patch[f] \in {Absent, live[f]}
    /\ j.at \in {"merge", "store"} => \A f \in j.fields : Settled(f)
    /\ j.at = "log" => \A f \in j.fields : live[f] = j.patch[f]

(* A revert past its check undoes a row that no later row overlaps.        *)
RevertHolds(j) ==
    /\ j.patch = log[j.id].old
    /\ j.at \in {"merge", "store", "flip"} =>
           \A i \in DOMAIN log : i > j.id => ~Overlaps(j.id, i)
    /\ \A f \in Fields :
           IF j.at = "flip" /\ f \in log[j.id].fields
           THEN live[f] = log[j.id].old[f] ELSE Settled(f)

JobSound(j) ==
    /\ j.at = "store" => j.merged = Merge(live, j.patch)
    /\ IF j.kind = "patch" /\ j.at \in {"merge", "store", "log"} THEN PatchHolds(j)
       ELSE IF j.kind = "review" /\ j.action = "revert"
                 /\ j.at \in {"check", "merge", "store", "flip"} THEN RevertHolds(j)
       ELSE \A f \in Fields : Settled(f)

(* What Serial leaves to a request: no PUT, an edit that the log has room  *)
(* for, a verdict on a row that is in force.                               *)
JobAllowed(j) ==
    /\ j.at # "put"
    /\ j.kind = "patch" => Len(log) < MaxEdits
    /\ j.kind = "review" =>
          /\ log[j.id].status \in {"pending_review", "approved"}
          /\ j.action \in {"approve", "revert"}
          /\ j.action = "approve" => j.at = "flip"

SerialInv ==
    /\ Len(log) <= MaxEdits
    /\ \A s \in Slots : JobAllowed(job[s])
    /\ live # NoRecord => RowsSound /\ \A s \in Slots : JobSound(job[s])

LEMMA OnlyOneSlot ==
    ASSUME Serial, NEW s \in Slots
    PROVE  \A t \in Slots : t = s
  BY DEF Serial

(* what each step has to show of the one request's new job *)
LEMMA SerialKept ==
    ASSUME Serial, TypeInv, SerialInv, NEW s \in Slots, NEW j \in Job, Begin(s, j),
           Len(log') <= MaxEdits, JobAllowed(j)',
           live' # NoRecord => RowsSound' /\ JobSound(j)'
    PROVE  SerialInv'
  <1>1. \A t \in Slots : t = s /\ job'[t] = j
    BY OnlyOneSlot, SlotUpdate DEF Begin, TypeInv, TypeOK
  <1>2. \A t \in Slots : JobAllowed(job[t])'
    BY <1>1 DEF JobAllowed
  <1>3. live' # NoRecord => \A t \in Slots : JobSound(job[t])'
    BY <1>1 DEF JobSound, PatchHolds, RevertHolds, Settled, After, InForce, Overlaps
  <1> QED
    BY <1>2, <1>3 DEF SerialInv

(* when neither the record nor the log changes, what is settled stays so *)
LEMMA SettledKept ==
    ASSUME UNCHANGED <<live, log, seed>>
    PROVE  /\ RowsSound => RowsSound'
           /\ \A f \in Fields : Settled(f) => Settled(f)'
  BY DEF RowsSound, RowSound, Settled, After, InForce

LEMMA SerialRequest ==
    ASSUME Serial, TypeInv, SerialInv, NEW s \in Slots, Request(s)
    PROVE  SerialInv'
  <1>0. /\ job[s].at = "idle" /\ UNCHANGED <<live, log, seed>>
        /\ \E j \in Job : Begin(s, j) /\ Started(j)
    BY RequestFacts DEF ghosts
  <1>1. PICK j \in Job : Begin(s, j) /\ Started(j)
    BY <1>0
  <1>2. live # NoRecord => RowsSound /\ \A f \in Fields : Settled(f)
    BY <1>0 DEF SerialInv, JobSound
  <1>3. live # NoRecord => RowsSound' /\ \A f \in Fields : Settled(f)'
    BY <1>0, <1>2, SettledKept
  <1>4. ASSUME NEW x, job' = [job EXCEPT ![s] = x]
        PROVE  x = j
    <2>1. job \in [Slots -> Job]
      BY DEF TypeInv, TypeOK
    <2>2. [job EXCEPT ![s] = x][s] = x /\ [job EXCEPT ![s] = j][s] = j
      BY <2>1
    <2> QED
      BY <1>1, <1>4, <2>2 DEF Begin
  <1>5. ASSUME j.kind # "review", j.at # "put", j.at # "store",
               j.kind = "patch" => Len(log) < MaxEdits /\ j.at = "diff"
        PROVE  SerialInv'
    <2>1. JobAllowed(j)'
      BY <1>0, <1>5 DEF JobAllowed
    <2>2. live # NoRecord => JobSound(j)'
      BY <1>3, <1>5 DEF JobSound
    <2> QED
      BY <1>0, <1>1, <1>3, <2>1, <2>2, SerialKept DEF SerialInv
  <1>6. ASSUME NEW k \in Keys, NEW p \in Patches, StartPatch(s, k, p)
        PROVE  SerialInv'
    <2>1. j = Task("patch", "diff", k, p, 0, "approve")
      BY <1>4, <1>6 DEF StartPatch, Begin
    <2>2. Len(log) < MaxEdits
      <3>1. Cardinality({t \in Slots : Editing(t)}) \in Nat
        BY ConstantsOK, FS_Subset, FS_CardinalityType
      <3>2. Len(log) \in Nat
        BY LenProperties DEF TypeInv, TypeOK
      <3> QED
        BY <1>6, <3>1, <3>2, ConstantsOK DEF StartPatch
    <2> QED
      BY <1>5, <2>1, <2>2 DEF Task
  <1>7. ASSUME NEW k \in Keys, StartDelete(s, k)
        PROVE  SerialInv'
    <2>1. j = Task("delete", "delete", k, EmptyBlob, 0, "approve")
      BY <1>4, <1>7 DEF StartDelete, Begin
    <2> QED
      BY <1>5, <2>1 DEF Task
  <1>8. ASSUME NEW k \in Keys, StartRevoke(s, k)
        PROVE  SerialInv'
    <2>1. j = Task("revoke", "revoke", k, EmptyBlob, 0, "approve")
      BY <1>4, <1>8 DEF StartRevoke, Begin
    <2> QED
      BY <1>5, <2>1 DEF Task
  <1>9. ASSUME NEW k \in Keys, NEW i \in DOMAIN log, NEW a \in Verdicts,
               StartReview(s, k, i, a)
        PROVE  SerialInv'
    <2> DEFINE restore == IF a = "approve" THEN EmptyBlob ELSE log[i].old
    <2>1. j = Task("review", FirstStep(a), k, restore, i, a)
      BY <1>4, <1>9 DEF StartReview, Begin
    <2>2. \/ a = "approve" /\ FirstStep(a) = "flip"
          \/ a = "revert" /\ FirstStep(a) = "check"
      BY DEF Serial, FirstStep
    <2>3. /\ j.kind = "review" /\ j.id = i /\ j.action = a /\ j.at = FirstStep(a)
          /\ a = "revert" => j.patch = log[i].old
      BY <2>1, <2>2 DEF Task
    <2>4. JobAllowed(j)'
      BY <1>0, <1>9, <2>2, <2>3 DEF JobAllowed, StartReview, Serial
    <2>5. live # NoRecord => JobSound(j)'
      BY <1>0, <1>3, <2>2, <2>3 DEF JobSound, RevertHolds
    <2> QED
      BY <1>0, <1>1, <1>3, <2>4, <2>5, SerialKept DEF SerialInv
  <1>10. ~ \E k \in Keys, b \in Puts : StartPut(s, k, b)
    BY DEF Serial
  <1> QED
    BY <1>6, <1>7, <1>8, <1>9, <1>10 DEF Request

(* a step that leaves the record and the log alone *)
LEMMA QuietKept ==
    ASSUME Serial, TypeInv, SerialInv, NEW s \in Slots, NEW j \in Job, Begin(s, j),
           UNCHANGED <<live, log, seed>>, JobAllowed(j)',
           live # NoRecord => JobSound(j)'
    PROVE  SerialInv'
  <1>1. live # NoRecord => RowsSound'
    BY SettledKept DEF SerialInv
  <1> QED
    BY <1>1, SerialKept DEF SerialInv

(* a request that ends with the record as its log has it, or gone *)
LEMMA DoneKept ==
    ASSUME Serial, TypeInv, SerialInv, NEW s \in Slots, Finish(s),
           UNCHANGED <<log, seed>>, live' \in {live, NoRecord},
           live' # NoRecord => \A f \in Fields : Settled(f)
    PROVE  SerialInv'
  <1>1. /\ Begin(s, Idle) /\ Idle \in Job
        /\ Idle.at = "idle" /\ Idle.kind = "none"
    BY FinishFacts, IdleFacts
  <1>2. JobAllowed(Idle)'
    BY <1>1, IdleFacts DEF JobAllowed, Idle, Task, EmptyBlob, AnyKey
  <1>3. ASSUME live' # NoRecord
        PROVE  RowsSound' /\ \A f \in Fields : Settled(f)'
    BY <1>3, SettledKept DEF SerialInv
  <1>4. live' # NoRecord => JobSound(Idle)'
    BY <1>3 DEF JobSound, Idle, Task
  <1> QED
    BY <1>1, <1>2, <1>3, <1>4, SerialKept DEF SerialInv

(* what the invariant says of a handler's own job *)
LEMMA JobNow ==
    ASSUME TypeInv, SerialInv, NEW s \in Slots
    PROVE  /\ job[s] \in Job /\ InOrder(job[s]) /\ JobAllowed(job[s])
           /\ job[s].kind = "review" => job[s].id \in DOMAIN log
           /\ live # NoRecord => RowsSound /\ JobSound(job[s])
           /\ log \in Seq(Mutation)
           /\ \A i \in DOMAIN log : log[i] \in Mutation /\ i \in Nat
           /\ live # NoRecord => live \in Blob
  <1>1. \A i \in DOMAIN log : log[i] \in Mutation /\ i \in Nat
    BY ElementOfSeq, LenProperties DEF TypeInv, TypeOK
  <1> QED
    BY <1>1 DEF TypeInv, TypeOK, JobsInOrder, SerialInv

LEMMA SerialQuiet ==
    ASSUME Serial, TypeInv, SerialInv, NEW s \in Slots,
           \/ PatchNothing(s) \/ DiffPatch(s) \/ ReadForMerge(s) \/ NothingToMerge(s)
           \/ RowVanished(s) \/ FinishPut(s) \/ FinishDelete(s)
           \/ RefuseRevert(s) \/ AllowRevert(s) \/ RevokeKey(s)
    PROVE  SerialInv'
  <1>0. /\ job[s] \in Job /\ InOrder(job[s]) /\ JobAllowed(job[s])
        /\ job[s].kind = "review" => job[s].id \in DOMAIN log
        /\ live # NoRecord => RowsSound /\ JobSound(job[s])
        /\ log \in Seq(Mutation)
        /\ live # NoRecord => live \in Blob
    BY JobNow
  <1>1. CASE PatchNothing(s)
    <2>1. live # NoRecord => \A f \in Fields : Settled(f)
      BY <1>0, <1>1 DEF PatchNothing, JobSound
    <2> QED
      BY <1>1, <2>1, DoneKept DEF PatchNothing, ghosts
  <1>2. CASE DiffPatch(s)
    <2> DEFINE F == Changed(live, job[s].patch)
               h == Holding(job[s], "merge", F, Pick(live, F), EmptyBlob)
    <2>1. live \in Blob /\ job[s].patch \in Blob /\ live # NoRecord
      BY <1>0, <1>2 DEF DiffPatch, TypeInv, TypeOK, Job
    <2>2. PICK j \in Job : j = h
      BY <1>0, <2>1, BlobFacts, HoldingFacts DEF Steps
    <2>3. Begin(s, j) /\ job[s].at = "diff" /\ UNCHANGED <<live, log, seed>>
      BY <1>2, <2>2 DEF DiffPatch, ghosts
    <2>4. /\ j.kind = "patch" /\ j.at = "merge" /\ j.fields = F
          /\ j.patch = job[s].patch /\ j.old = Pick(live, F)
      BY <1>0, <2>2, <2>3 DEF Holding, InOrder
    <2>5. \A f \in Fields : Settled(f)
      BY <1>0, <2>1, <2>3 DEF JobSound
    <2>6. \A f \in Fields : Settled(f)'
      BY <2>3, <2>5, SettledKept
    <2>7. PatchHolds(j)'
      <3>1. F \subseteq Fields /\ \A f \in F : j.patch[f] # Absent
        BY <2>4 DEF Changed
      <3>2. \A f \in F : j.old[f] = live[f]
        BY <2>4, <3>1 DEF Pick
      <3>3. \A f \in Fields \ F : j.old[f] = Absent /\ j.patch[f] \in {Absent, live[f]}
        BY <2>4 DEF Pick, Changed
      <3> HIDE DEF F
      <3> QED
        BY <2>3, <2>4, <2>6, <3>1, <3>2, <3>3 DEF PatchHolds, Settled
    <2>8. JobSound(j)' /\ JobAllowed(j)'
      BY <1>0, <2>3, <2>4, <2>7 DEF JobSound, JobAllowed, InOrder
    <2> QED
      BY <2>3, <2>8, QuietKept
  <1>3. CASE ReadForMerge(s)
    <2> DEFINE m == Merge(live, job[s].patch)
               h == Holding(job[s], "store", job[s].fields, job[s].old, m)
    <2>1. live \in Blob /\ job[s].patch \in Blob /\ live # NoRecord
      BY <1>0, <1>3 DEF ReadForMerge, TypeInv, TypeOK, Job
    <2>2. m \in Blob
      BY <2>1, BlobFacts
    <2>3. PICK j \in Job : j = h
      BY <1>0, <2>2, HoldingFacts DEF Job, Steps
    <2>4. Begin(s, j) /\ job[s].at = "merge" /\ UNCHANGED <<live, log, seed>>
      BY <1>3, <2>3 DEF ReadForMerge, ghosts
    <2>5. /\ j.kind = job[s].kind /\ j.at = "store" /\ j.fields = job[s].fields
          /\ j.patch = job[s].patch /\ j.old = job[s].old /\ j.merged = m
          /\ j.id = job[s].id /\ j.action = job[s].action
      BY <2>3 DEF Holding
    <2>6. JobAllowed(j)' /\ (j.kind = "patch" \/ (j.kind = "review" /\ j.action = "revert"))
      BY <1>0, <2>4, <2>5 DEF JobAllowed, InOrder
    <2>7. JobSound(job[s])
      BY <1>0, <2>1
    <2>8. j.merged = Merge(live', j.patch)
      BY <2>4, <2>5
    <2>9. CASE j.kind = "patch"
      <3>1. PatchHolds(job[s])
        BY <2>4, <2>5, <2>7, <2>9 DEF JobSound
      <3>2. PatchHolds(j)'
        BY <2>4, <2>5, <3>1 DEF PatchHolds, Settled, After, InForce
      <3> QED
        BY <2>4, <2>5, <2>6, <2>8, <2>9, <3>2, QuietKept DEF JobSound, Merge
    <2>10. CASE j.kind = "review" /\ j.action = "revert"
      <3>1. RevertHolds(job[s])
        BY <2>4, <2>5, <2>7, <2>10 DEF JobSound
      <3>2. RevertHolds(j)'
        BY <2>4, <2>5, <3>1 DEF RevertHolds, Settled, After, InForce, Overlaps
      <3> QED
        BY <2>4, <2>5, <2>6, <2>8, <2>10, <3>2, QuietKept DEF JobSound, Merge
    <2> QED
      BY <2>6, <2>9, <2>10
  <1>a. ASSUME NEW step \in Steps, step # "put", Goto(s, step), UNCHANGED <<live, log, seed>>,
               job[s].kind = "review" => job[s].action = "revert",
               \A j \in Job :
                   /\ live # NoRecord /\ j.at = step /\ j.kind = job[s].kind
                   /\ j.patch = job[s].patch /\ j.id = job[s].id /\ j.action = job[s].action
                   => JobSound(j)'
        PROVE  SerialInv'
    <2>0. PICK j \in Job : j = [job[s] EXCEPT !.at = step]
      BY <1>0, GotoFacts
    <2>1. /\ j.at = step /\ j.kind = job[s].kind /\ j.patch = job[s].patch
          /\ j.id = job[s].id /\ j.action = job[s].action
      BY <1>0, <2>0, GotoFacts
    <2>2. Begin(s, j)
      BY <1>a, <2>0 DEF Goto
    <2>3. JobAllowed(j)'
      BY <1>0, <1>a, <2>1 DEF JobAllowed
    <2> QED
      BY <1>a, <2>1, <2>2, <2>3, QuietKept
  <1>4. CASE NothingToMerge(s)
    <2>1. PICK step \in Steps : step = AfterPatchBySlug(s) /\ step # "put"
      BY DEF AfterPatchBySlug, Steps
    <2>2. job[s].kind = "review" => job[s].action = "revert"
      BY <1>0, <1>4 DEF NothingToMerge, JobAllowed
    <2> QED
      BY <1>4, <1>a, <2>1, <2>2 DEF NothingToMerge
  <1>5. CASE RowVanished(s)
    BY <1>5, DoneKept DEF RowVanished, ghosts
  <1>6. ~FinishPut(s)
    BY <1>0 DEF FinishPut, JobAllowed
  <1>7. CASE FinishDelete(s)
    BY <1>7, DoneKept DEF FinishDelete, ghosts
  <1>b. ASSUME job[s].at = "check"
        PROVE  /\ job[s].kind = "review" /\ job[s].action = "revert"
               /\ live # NoRecord => /\ job[s].patch = log[job[s].id].old
                                     /\ \A f \in Fields : Settled(f)
    <2>1. job[s].kind = "review" /\ job[s].action = "revert"
      BY <1>0, <1>b DEF InOrder, JobAllowed
    <2>2. live # NoRecord => RevertHolds(job[s])
      BY <1>0, <1>b, <2>1 DEF JobSound
    <2> QED
      BY <1>b, <2>1, <2>2 DEF RevertHolds
  <1>8. CASE RefuseRevert(s)
    BY <1>8, <1>b, DoneKept DEF RefuseRevert, ghosts
  <1>9. CASE AllowRevert(s)
    <2>1. /\ job[s].at = "check" /\ UNCHANGED <<live, log, seed>> /\ Goto(s, "merge")
          /\ "merge" \in Steps /\ ~NewerEdit(job[s].id)
      BY <1>9 DEF AllowRevert, ghosts, Steps
    <2>2. Recent = DOMAIN log
      <3>1. Len(log) \in Nat /\ Len(log) <= Window /\ \A i \in DOMAIN log : i \in Nat /\ i > 0
        BY <1>0, ConstantsOK, LenProperties DEF SerialInv, Serial
      <3>2. \A i \in DOMAIN log : i + Window > Len(log)
        BY <3>1, ConstantsOK
      <3> QED
        BY <3>2 DEF Recent
    <2>3. \A i \in DOMAIN log : i > job[s].id => ~Overlaps(job[s].id, i)
      BY <2>1, <2>2 DEF NewerEdit
    <2>4. live # NoRecord => \A f \in Fields : Settled(f)'
      BY <1>b, <2>1, SettledKept
    <2>5. ASSUME NEW j \in Job, j.at = "merge", j.kind = job[s].kind, j.patch = job[s].patch,
                 j.id = job[s].id, j.action = job[s].action, live # NoRecord
          PROVE  JobSound(j)'
      <3>1. RevertHolds(j)'
        BY <1>b, <2>1, <2>3, <2>4, <2>5 DEF RevertHolds, Overlaps
      <3> QED
        BY <1>b, <2>1, <2>5, <3>1 DEF JobSound
    <2> QED
      BY <1>a, <1>b, <2>1, <2>5
  <1>10. CASE RevokeKey(s)
    <2>1. /\ job[s].at = "revoke" /\ UNCHANGED <<live, log, seed>> /\ Goto(s, "cascade")
          /\ "cascade" \in Steps
      BY <1>10 DEF RevokeKey, Steps
    <2>2. live # NoRecord => \A f \in Fields : Settled(f)'
      BY <1>0, <2>1, SettledKept DEF JobSound
    <2>3. job[s].kind = "review" => job[s].action = "revert"
      BY <1>0, <2>1 DEF JobAllowed
    <2>4. ASSUME NEW j \in Job, j.at = "cascade", live # NoRecord
          PROVE  JobSound(j)'
      BY <2>2, <2>4 DEF JobSound
    <2> QED
      BY <1>a, <2>1, <2>3, <2>4
  <1> QED
    BY <1>1, <1>2, <1>3, <1>4, <1>5, <1>6, <1>7, <1>8, <1>9, <1>10

(* patchBySlug writes what is there with the patch over it *)
LEMMA SerialWrite ==
    ASSUME Serial, TypeInv, SerialInv, NEW s \in Slots, WriteMerged(s)
    PROVE  SerialInv'
  <1>0. /\ job[s] \in Job /\ InOrder(job[s]) /\ JobAllowed(job[s])
        /\ job[s].kind = "review" => job[s].id \in DOMAIN log
        /\ RowsSound /\ JobSound(job[s]) /\ live \in Blob
    BY JobNow DEF WriteMerged
  <1>1. /\ job[s].at = "store" /\ Goto(s, AfterPatchBySlug(s)) /\ UNCHANGED <<log, seed>>
        /\ live' = job[s].merged
    BY DEF WriteMerged
  <1>2. PICK step \in Steps : step = AfterPatchBySlug(s)
    BY DEF AfterPatchBySlug, Steps
  <1>3. PICK j \in Job : j = [job[s] EXCEPT !.at = step]
    BY <1>0, GotoFacts
  <1>4. /\ j.at = step /\ j.kind = job[s].kind /\ j.patch = job[s].patch
        /\ j.fields = job[s].fields /\ j.old = job[s].old
        /\ j.id = job[s].id /\ j.action = job[s].action
    BY <1>0, <1>3, GotoFacts
  <1>5. Begin(s, j)
    BY <1>1, <1>2, <1>3 DEF Goto
  <1>6. \A f \in Fields : live'[f] = IF j.patch[f] = Absent THEN live[f] ELSE j.patch[f]
    BY <1>0, <1>1, <1>4 DEF JobSound, Merge
  <1>7. \/ j.kind = "patch" /\ step = "log"
        \/ j.kind = "review" /\ j.action = "revert" /\ step = "flip"
    BY <1>0, <1>1, <1>2, <1>4 DEF InOrder, JobAllowed, AfterPatchBySlug, Editing
  <1>8. JobAllowed(j)'
    BY <1>0, <1>1, <1>4, <1>7 DEF JobAllowed
  <1>9. RowsSound'
    BY <1>0, <1>1 DEF RowsSound, RowSound, After, InForce
  <1>10. ASSUME NEW f \in Fields, Settled(f), j.patch[f] \in {Absent, live[f]}
         PROVE  Settled(f)'
    <2>1. live'[f] = live[f]
      BY <1>6, <1>10
    <2> QED
      BY <1>1, <1>10, <2>1 DEF Settled, After, InForce
  <1>11. CASE j.kind = "patch" /\ step = "log"
    <2>1. PatchHolds(job[s])
      BY <1>0, <1>1, <1>4, <1>11 DEF JobSound
    <2>2. j.fields \subseteq Fields
      BY DEF Job
    <2>3. \A f \in j.fields : /\ j.patch[f] # Absent /\ j.old[f] # Absent
                              /\ After(InForce(f), f, j.old[f])' /\ live'[f] = j.patch[f]
      BY <1>1, <1>4, <1>6, <2>1, <2>2 DEF PatchHolds, After, InForce
    <2>4. \A f \in Fields \ j.fields :
              Settled(f)' /\ j.old[f] = Absent /\ j.patch[f] \in {Absent, live'[f]}
      BY <1>4, <1>6, <1>10, <2>1 DEF PatchHolds
    <2>5. PatchHolds(j)'
      BY <1>4, <1>11, <2>3, <2>4 DEF PatchHolds
    <2> QED
      BY <1>1, <1>4, <1>5, <1>8, <1>9, <1>11, <2>5, SerialKept DEF JobSound, SerialInv
  <1>12. CASE j.kind = "review" /\ j.action = "revert" /\ step = "flip"
    <2>1. RevertHolds(job[s]) /\ j.patch = log[j.id].old /\ j.id \in DOMAIN log
      BY <1>0, <1>1, <1>4, <1>12 DEF JobSound, RevertHolds
    <2>2. \A f \in Fields : Settled(f)
      BY <1>1, <2>1 DEF RevertHolds
    <2>3. \A f \in Fields : f \in log[j.id].fields => live'[f] = log[j.id].old[f]
      BY <1>0, <1>6, <2>1 DEF RowsSound, RowSound
    <2>4. \A f \in Fields : f \notin log[j.id].fields => Settled(f)'
      BY <1>0, <1>10, <2>1, <2>2 DEF RowsSound
    <2>5. \A i \in DOMAIN log : i > j.id => ~Overlaps(j.id, i)
      BY <1>1, <1>4, <2>1 DEF RevertHolds
    <2>6. RevertHolds(j)'
      BY <1>1, <1>4, <1>12, <2>1, <2>3, <2>4, <2>5 DEF RevertHolds, Overlaps
    <2> QED
      BY <1>1, <1>4, <1>5, <1>8, <1>9, <1>12, <2>6, SerialKept DEF JobSound, SerialInv
  <1> QED
    BY <1>7, <1>11, <1>12

(* createMutation: the new row is the newest for every field it has *)
LEMMA SerialLog ==
    ASSUME Serial, TypeInv, SerialInv, NEW s \in Slots, LogMutation(s)
    PROVE  SerialInv'
  <1> DEFINE j == job[s]
             m == NewMutation(job[s])
  <1>n. PICK n : n = Len(log) + 1
    OBVIOUS
  <1>0. /\ j \in Job /\ InOrder(j) /\ JobAllowed(j)
        /\ live # NoRecord => RowsSound /\ JobSound(j)
        /\ log \in Seq(Mutation)
        /\ \A i \in DOMAIN log : i \in Nat
    BY JobNow
  <1>1. /\ j.at = "log" /\ j.kind = "patch" /\ UNCHANGED <<live, seed>> /\ Finish(s)
        /\ log' = Append(log, m)
    BY <1>0 DEF LogMutation, InOrder, ghosts
  <1>2. m \in Mutation
    BY <1>0, NewRowFacts
  <1>3. /\ m.fields = j.fields /\ m.old = j.old /\ m.by = "nobody"
        /\ j.fields \subseteq Fields
        /\ \A f \in j.fields : m.new[f] = j.patch[f]
    BY <1>0 DEF NewMutation, Pick, Job
  <1> HIDE DEF m
  <1>4. /\ \A i \in DOMAIN log : log'[i] = log[i]
        /\ DOMAIN log' = DOMAIN log \cup {n}
        /\ log'[n] = m
    BY <1>0, <1>1, <1>2, <1>n, AddRow
  <1>5. n \in Nat /\ \A i \in DOMAIN log : i < n
    <2>1. Len(log) \in Nat /\ \A i \in DOMAIN log : i <= Len(log) /\ i \in Nat
      BY <1>0, LenProperties
    <2> QED
      BY <1>n, <2>1
  <1>6. Len(log') <= MaxEdits
    <2>1. Len(log') = n /\ Len(log) < MaxEdits /\ Len(log) \in Nat
      BY <1>0, <1>1, <1>2, <1>n, AppendProperties, LenProperties DEF JobAllowed
    <2> QED
      BY <1>n, <2>1, ConstantsOK
  <1>7. \A f \in Fields : InForce(f)' = IF f \in j.fields THEN InForce(f) \cup {n} ELSE InForce(f)
    BY <1>3, <1>4, <1>5 DEF InForce
  <1>8. ASSUME NEW S, S \subseteq DOMAIN log, NEW f, NEW v, After(S, f, v)
        PROVE  After(S, f, v)'
    BY <1>1, <1>4, <1>8 DEF After
  <1>9. ASSUME NEW f
        PROVE  InForce(f) \subseteq DOMAIN log
    BY DEF InForce
  <1>10. ASSUME live # NoRecord
         PROVE  RowsSound' /\ \A f \in Fields : Settled(f)'
    <2>1. RowsSound /\ PatchHolds(j)
      BY <1>0, <1>1, <1>10 DEF JobSound
    <2>2. ASSUME NEW i \in DOMAIN log, NEW f \in Fields, f \in log[i].fields
          PROVE  RowSound(i, f)'
      <3>1. RowSound(i, f)
        BY <2>1, <2>2 DEF RowsSound
      <3>2. PICK S : S = {k \in InForce(f) : k < i}
        OBVIOUS
      <3>3. S = {k \in InForce(f)' : k < i}
        BY <1>0, <1>5, <1>7, <3>2
      <3>4. After(S, f, log[i].old[f])
        BY <3>1, <3>2 DEF RowSound
      <3>5. PICK v : v = log[i].old[f]
        OBVIOUS
      <3>6. After(S, f, v)'
        BY <1>8, <1>9, <3>2, <3>4, <3>5
      <3>7. log'[i].old[f] = v /\ v # Absent /\ log'[i].new[f] # Absent
        BY <1>4, <3>1, <3>5 DEF RowSound
      <3> QED
        BY <3>3, <3>6, <3>7 DEF RowSound, After
    <2>3. ASSUME NEW f \in j.fields
          PROVE  RowSound(n, f)'
      <3>1. /\ j.patch[f] # Absent /\ j.old[f] # Absent /\ After(InForce(f), f, j.old[f])
            /\ f \in Fields
        BY <1>3, <2>1 DEF PatchHolds
      <3>2. PICK S : S = InForce(f)
        OBVIOUS
      <3>3. S = {k \in InForce(f)' : k < n}
        BY <1>5, <1>7, <1>9, <3>1, <3>2
      <3>4. PICK v : v = j.old[f]
        OBVIOUS
      <3>5. After(S, f, v)'
        BY <1>8, <1>9, <3>1, <3>2, <3>4
      <3>6. log'[n].old[f] = v /\ log'[n].new[f] = j.patch[f]
        BY <1>3, <1>4, <3>4
      <3> QED
        BY <3>1, <3>3, <3>4, <3>5, <3>6 DEF RowSound, After
    <2>4. RowsSound'
      <3>1. ASSUME NEW i \in DOMAIN log, NEW f \in Fields
            PROVE  IF f \in log'[i].fields THEN RowSound(i, f)' ELSE log'[i].old[f] = Absent
        <4>1. log'[i] = log[i]
          BY <1>4
        <4>2. f \notin log[i].fields => log[i].old[f] = Absent
          BY <2>1 DEF RowsSound
        <4> QED
          BY <2>2, <4>1, <4>2
      <3>2. ASSUME NEW f \in Fields
            PROVE  IF f \in log'[n].fields THEN RowSound(n, f)' ELSE log'[n].old[f] = Absent
        BY <1>3, <1>4, <2>1, <2>3 DEF PatchHolds
      <3> QED
        BY <1>4, <3>1, <3>2 DEF RowsSound
    <2>5. ASSUME NEW f \in Fields
          PROVE  Settled(f)'
      <3>1. CASE f \in j.fields
        <4>1. live[f] = j.patch[f] /\ j.patch[f] # Absent
          BY <1>1, <2>1, <3>1 DEF PatchHolds
        <4>2. log'[n].new[f] = live'[f] /\ n \in InForce(f)'
          BY <1>1, <1>3, <1>4, <1>7, <3>1, <4>1
        <4>3. \A i \in InForce(f)' : i <= n
          BY <1>0, <1>5, <1>7, <1>9, <3>1
        <4> QED
          BY <1>1, <4>1, <4>2, <4>3 DEF Settled, After
      <3>2. CASE f \notin j.fields
        <4>1. Settled(f)
          BY <2>1, <3>2 DEF PatchHolds
        <4>2. PICK S, v : S = InForce(f) /\ v = live[f]
          OBVIOUS
        <4>3. After(S, f, v)' /\ v # Absent
          BY <1>8, <1>9, <4>1, <4>2 DEF Settled
        <4> QED
          BY <1>1, <1>7, <3>2, <4>2, <4>3 DEF Settled, After
      <3> QED
        BY <3>1, <3>2
    <2> QED
      BY <2>4, <2>5
  <1>11. /\ Begin(s, Idle) /\ Idle \in Job
         /\ Idle.at = "idle" /\ Idle.kind = "none"
    BY <1>1, FinishFacts, IdleFacts
  <1>12. JobAllowed(Idle)'
    BY <1>11 DEF JobAllowed, Idle, Task, EmptyBlob, AnyKey
  <1>13. live # NoRecord => JobSound(Idle)'
    BY <1>10 DEF JobSound, Idle, Task
  <1> QED
    BY <1>1, <1>6, <1>10, <1>11, <1>12, <1>13, SerialKept

(* a step that changes no more than the verdicts on the rows *)
LEMMA VerdictsOnly ==
    ASSUME RowsKept, DOMAIN log' = DOMAIN log, UNCHANGED <<live, seed>>,
           \A f \in Fields : InForce(f)' = InForce(f)
    PROVE  /\ RowsSound => RowsSound'
           /\ \A f \in Fields : Settled(f) => Settled(f)'
  <1>1. ASSUME NEW f, NEW S, S \subseteq DOMAIN log, NEW v, After(S, f, v)
        PROVE  After(S, f, v)'
    BY <1>1 DEF After, RowsKept
  <1>2. \A f : InForce(f) \subseteq DOMAIN log
    BY DEF InForce
  <1>3. ASSUME NEW f \in Fields, Settled(f)
        PROVE  Settled(f)'
    <2>1. PICK S, v : S = InForce(f) /\ v = live[f]
      OBVIOUS
    <2>2. After(S, f, v)'
      BY <1>1, <1>2, <1>3, <2>1 DEF Settled
    <2> QED
      BY <1>3, <2>1, <2>2 DEF Settled, After
  <1>4. ASSUME NEW f \in Fields, NEW i \in DOMAIN log, RowSound(i, f)
        PROVE  RowSound(i, f)'
    <2>1. PICK S, v : S = {m \in InForce(f) : m < i} /\ v = log[i].old[f]
      OBVIOUS
    <2>2. After(S, f, v)'
      BY <1>1, <1>2, <1>4, <2>1 DEF RowSound
    <2>3. S = {m \in InForce(f)' : m < i} /\ v = log'[i].old[f]
      BY <2>1 DEF RowsKept
    <2> QED
      BY <1>4, <2>1, <2>2, <2>3 DEF RowSound, RowsKept, After
  <1>5. ASSUME RowsSound
        PROVE  RowsSound'
    <2> SUFFICES ASSUME NEW i \in DOMAIN log, NEW f \in Fields
                 PROVE  IF f \in log'[i].fields THEN RowSound(i, f)' ELSE log'[i].old[f] = Absent
      BY DEF RowsSound
    <2>1. log'[i].fields = log[i].fields /\ log'[i].old = log[i].old
      BY DEF RowsKept
    <2> QED
      BY <1>4, <1>5, <2>1 DEF RowsSound
  <1> QED
    BY <1>3, <1>5

(* a verdict: approved rows stay in force, a reverted one is withdrawn *)
LEMMA SerialFlip ==
    ASSUME Serial, TypeInv, SerialInv, NEW s \in Slots, FlipStatus(s)
    PROVE  SerialInv'
  <1>0. /\ job[s] \in Job /\ InOrder(job[s]) /\ JobAllowed(job[s])
        /\ job[s].kind = "review" => job[s].id \in DOMAIN log
        /\ live # NoRecord => RowsSound /\ JobSound(job[s])
        /\ log \in Seq(Mutation)
        /\ \A i \in DOMAIN log : log[i] \in Mutation /\ i \in Nat
    BY JobNow
  <1>1. PICK n, a : n = job[s].id /\ a = job[s].action
    OBVIOUS
  <1> DEFINE m == Decided(log[n], StatusOf(a), "moderator")
  <1>2. /\ job[s].at = "flip" /\ job[s].kind = "review" /\ n \in DOMAIN log /\ a \in Actions
        /\ a \in {"approve", "revert"} /\ log[n].status \in {"pending_review", "approved"}
        /\ UNCHANGED <<live, seed>> /\ Finish(s) /\ log' = [log EXCEPT ![n] = m]
    BY <1>0, <1>1 DEF FlipStatus, InOrder, JobAllowed, ghosts, Actions
  <1>3. m \in Mutation
    BY <1>0, <1>2, StatusFacts, RowFacts
  <1>4. /\ m.fields = log[n].fields /\ m.old = log[n].old /\ m.new = log[n].new
        /\ m.by = "moderator"
        /\ m.status = IF a = "approve" THEN "approved" ELSE "reverted"
    BY <1>2 DEF Decided, StatusOf
  <1> HIDE DEF m
  <1>5. /\ DOMAIN log' = DOMAIN log /\ Len(log') = Len(log)
        /\ log'[n] = m
        /\ \A i \in DOMAIN log : i # n => log'[i] = log[i]
    BY <1>0, <1>2, <1>3, UpdateRow
  <1>6. RowsKept
    BY <1>4, <1>5 DEF RowsKept
  <1>7. \A f \in Fields : n \in InForce(f) <=> f \in log[n].fields
    BY <1>2 DEF InForce
  <1>8. \A f \in Fields : n \in InForce(f)' <=> f \in log[n].fields /\ a = "approve"
    BY <1>2, <1>4, <1>5 DEF InForce
  <1>9. \A f \in Fields : \A i \in DOMAIN log : i # n => (i \in InForce(f)' <=> i \in InForce(f))
    BY <1>5 DEF InForce
  <1>10. \A f \in Fields : InForce(f) \subseteq DOMAIN log /\ InForce(f)' \subseteq DOMAIN log
    BY <1>5 DEF InForce
  <1>11. /\ Begin(s, Idle) /\ Idle \in Job
         /\ Idle.at = "idle" /\ Idle.kind = "none"
    BY <1>2, FinishFacts, IdleFacts
  <1>12. JobAllowed(Idle)'
    BY <1>11 DEF JobAllowed, Idle, Task, EmptyBlob, AnyKey
  <1>13. ASSUME live # NoRecord
         PROVE  RowsSound' /\ \A f \in Fields : Settled(f)'
    <2>1. RowsSound
      BY <1>0, <1>13
    <2>2. CASE a = "approve"
      <3>1. \A f \in Fields : InForce(f)' = InForce(f)
        BY <1>7, <1>8, <1>9, <1>10, <2>2
      <3>2. \A f \in Fields : Settled(f)
        BY <1>0, <1>1, <1>2, <1>13, <2>2 DEF JobSound
      <3> QED
        BY <1>2, <1>5, <1>6, <2>1, <3>1, <3>2, VerdictsOnly
    <2>3. CASE a = "revert"
      <3>1. RevertHolds(job[s])
        BY <1>0, <1>1, <1>2, <1>13, <2>3 DEF JobSound
      <3>2. \A i \in DOMAIN log : i > n => log[n].fields \cap log[i].fields = {}
        BY <1>1, <1>2, <3>1 DEF RevertHolds, Overlaps
      <3>3. \A f \in Fields : InForce(f)' = InForce(f) \ {n}
        BY <1>8, <1>9, <1>10, <2>3
      <3>4. ASSUME NEW f, NEW S, S \subseteq DOMAIN log, NEW v, After(S, f, v)
            PROVE  After(S, f, v)'
        BY <1>2, <1>6, <3>4 DEF After, RowsKept
      <3>5. ASSUME NEW i \in DOMAIN log, NEW f \in Fields, f \in log[i].fields
            PROVE  RowSound(i, f)'
        <4>1. RowSound(i, f)
          BY <2>1, <3>5 DEF RowsSound
        <4>2. PICK S, v : S = {k \in InForce(f) : k < i} /\ v = log[i].old[f]
          OBVIOUS
        <4>3. n \notin S
          <5>1. n \in S => f \in log[n].fields /\ i > n
            BY <1>0, <1>2, <1>7, <4>2
          <5> QED
            BY <3>2, <3>5, <5>1
        <4>4. S = {k \in InForce(f)' : k < i}
          BY <3>3, <4>2, <4>3
        <4>5. After(S, f, v)'
          BY <1>10, <3>4, <4>1, <4>2 DEF RowSound
        <4> QED
          BY <1>6, <4>1, <4>2, <4>4, <4>5 DEF RowSound, RowsKept, After
      <3>6. RowsSound'
        <4> SUFFICES ASSUME NEW i \in DOMAIN log, NEW f \in Fields
                     PROVE  IF f \in log'[i].fields THEN RowSound(i, f)'
                            ELSE log'[i].old[f] = Absent
          BY <1>5 DEF RowsSound
        <4>1. log'[i].fields = log[i].fields /\ log'[i].old = log[i].old
          BY <1>6 DEF RowsKept
        <4> QED
          BY <2>1, <3>5, <4>1 DEF RowsSound
      <3>7. ASSUME NEW f \in Fields
            PROVE  Settled(f)'
        <4>1. CASE f \in log[n].fields
          <5>1. RowSound(n, f) /\ live[f] = log[n].old[f]
            BY <1>1, <1>2, <2>1, <3>1, <4>1 DEF RowsSound, RevertHolds
          <5>2. PICK S, v : S = {k \in InForce(f) : k < n} /\ v = live[f]
            OBVIOUS
          <5>3. S = InForce(f)'
            <6>1. \A k \in InForce(f) : k \in Nat /\ ~(k > n)
              BY <1>0, <1>10, <3>2, <4>1 DEF InForce
            <6> QED
              BY <1>0, <1>2, <3>3, <5>2, <6>1
          <5>4. After(S, f, v)' /\ v # Absent
            BY <1>10, <3>4, <5>1, <5>2 DEF RowSound
          <5> QED
            BY <1>2, <5>2, <5>3, <5>4 DEF Settled, After
        <4>2. CASE f \notin log[n].fields
          <5>1. Settled(f)
            BY <1>1, <3>1, <4>2 DEF RevertHolds
          <5>2. PICK S, v : S = InForce(f) /\ v = live[f]
            OBVIOUS
          <5>3. S = InForce(f)'
            BY <1>7, <3>3, <4>2, <5>2
          <5>4. After(S, f, v)' /\ v # Absent
            BY <1>10, <3>4, <5>1, <5>2 DEF Settled
          <5> QED
            BY <1>2, <5>2, <5>3, <5>4 DEF Settled, After
        <4> QED
          BY <4>1, <4>2
      <3> QED
        BY <3>6, <3>7
    <2> QED
      BY <1>2, <2>2, <2>3
  <1>14. live # NoRecord => JobSound(Idle)'
    BY <1>13 DEF JobSound, Idle, Task
  <1> QED
    BY <1>2, <1>5, <1>11, <1>12, <1>13, <1>14, SerialKept DEF SerialInv

(* the cascade of a revocation withdraws nothing *)
LEMMA SerialSweep ==
    ASSUME Serial, TypeInv, SerialInv, NEW s \in Slots, CascadeRevoke(s)
    PROVE  SerialInv'
  <1>0. /\ job[s] \in Job
        /\ live # NoRecord => RowsSound /\ JobSound(job[s])
        /\ log \in Seq(Mutation)
    BY JobNow
  <1>1. /\ job[s].at = "cascade" /\ UNCHANGED <<live, seed>> /\ Finish(s)
        /\ job[s].key \in Keys
    BY <1>0 DEF CascadeRevoke, Job
  <1>2. /\ DOMAIN log' = DOMAIN log
        /\ \A i \in DOMAIN log : log'[i] = AutoRejected(log[i], job[s].key)
        /\ log' \in Seq(Mutation)
    BY <1>0, <1>1, SweepRows DEF CascadeRevoke
  <1>3. Len(log') = Len(log)
    BY <1>0, <1>2, LenProperties
  <1>4. RowsKept
    BY <1>2 DEF RowsKept, AutoRejected, Decided
  <1>5. \A f \in Fields : InForce(f)' = InForce(f)
    BY <1>2 DEF InForce, AutoRejected, Decided
  <1>6. ASSUME live # NoRecord
        PROVE  RowsSound' /\ \A f \in Fields : Settled(f)'
    <2>1. RowsSound /\ \A f \in Fields : Settled(f)
      BY <1>0, <1>1, <1>6 DEF JobSound
    <2> QED
      BY <1>1, <1>2, <1>4, <1>5, <2>1, VerdictsOnly
  <1>7. /\ Begin(s, Idle) /\ Idle \in Job
        /\ Idle.at = "idle" /\ Idle.kind = "none"
    BY <1>1, FinishFacts, IdleFacts
  <1>8. JobAllowed(Idle)'
    BY <1>7 DEF JobAllowed, Idle, Task, EmptyBlob, AnyKey
  <1>9. live # NoRecord => JobSound(Idle)'
    BY <1>6 DEF JobSound, Idle, Task
  <1> QED
    BY <1>1, <1>3, <1>6, <1>7, <1>8, <1>9, SerialKept DEF SerialInv

LEMMA SerialStep ==
    ASSUME Serial
    PROVE  TypeInv /\ SerialInv /\ [Next]_vars => SerialInv'
  <1> SUFFICES ASSUME TypeInv, SerialInv, [Next]_vars PROVE SerialInv'
    OBVIOUS
  <1>1. ASSUME NEW s \in Slots, Request(s) \/ Handler(s)
        PROVE  SerialInv'
    BY <1>1, SerialRequest, SerialQuiet, SerialWrite, SerialLog, SerialFlip, SerialSweep
       DEF Handler
  <1>2. ~ \E T \in SUBSET Slots : Die(T)
    BY DEF Die, Serial, TypeInv, TypeOK
  <1>3. CASE UNCHANGED vars
    <2>1. UNCHANGED <<live, log, job, seed>>
      BY <1>3 DEF vars, ghosts
    <2> QED
      BY <2>1 DEF SerialInv, JobAllowed, RowsSound, RowSound, JobSound, PatchHolds, RevertHolds,
                  Settled, After, InForce, Overlaps
  <1> QED
    BY <1>1, <1>2, <1>3 DEF Next, RequestFails, Restart

LEMMA SerialInit ==
    ASSUME Serial
    PROVE  Init => SerialInv
  <1> SUFFICES ASSUME Init PROVE SerialInv
    OBVIOUS
  <1>1. log = <<>> /\ Len(log) = 0 /\ DOMAIN log = {} /\ live = seed /\ seed \in Seeds
    BY EmptySeq, LenProperties DEF Init
  <1>2. \A s \in Slots : job[s] = Idle /\ Idle.kind = "none" /\ Idle.at = "idle"
    BY IdleFacts DEF Init
  <1>3. Len(log) <= MaxEdits
    BY <1>1, ConstantsOK
  <1>4. \A s \in Slots : JobAllowed(job[s])
    BY <1>2 DEF JobAllowed
  <1>5. RowsSound
    BY <1>1 DEF RowsSound
  <1>6. \A f \in Fields : Settled(f)
    BY <1>1 DEF Settled, After, InForce, Serial
  <1>7. \A s \in Slots : JobSound(job[s])
    BY <1>2, <1>6 DEF JobSound
  <1> QED
    BY <1>3, <1>4, <1>5, <1>7 DEF SerialInv

(* One request at a time, the record between requests is its seed with     *)
(* every edit that is in force: for any fields, any patches that overlap   *)
(* in any way, any number of approvals, reverts, revocations and deletes,  *)
(* as long as an overlapping row is always among those the revert check    *)
(* lists (MaxEdits <= Window) and no restore has to remove a field.        *)
THEOREM LogExplainsRecord ==
    ASSUME Serial
    PROVE  Spec => []LiveMatchesLog
  <1>1. TypeInv /\ SerialInv => LiveMatchesLog
    <2> SUFFICES ASSUME TypeInv, SerialInv, \A s \in Slots : job[s] = Idle, live # NoRecord,
                        NEW f \in Fields
                 PROVE  live[f] = FromLog(f)
      BY DEF LiveMatchesLog
    <2>1. Settled(f)
      BY IdleFacts DEF Serial, SerialInv, JobSound
    <2>2. CASE InForce(f) = {}
      BY <2>1, <2>2 DEF Settled, After, FromLog
    <2>3. CASE InForce(f) # {}
      <3>1. PICK m \in InForce(f) :
                (\A i \in InForce(f) : i <= m) /\ live[f] = log[m].new[f]
        BY <2>1, <2>3 DEF Settled, After
      <3>2. \A i \in InForce(f) : i \in Nat
        BY LenProperties DEF InForce, TypeInv, TypeOK
      <3>3. \A i \in InForce(f) : (\A k \in InForce(f) : k <= i) => i = m
        BY <3>1, <3>2
      <3>4. Newest(InForce(f)) = m
        BY <3>1, <3>3 DEF Newest
      <3> QED
        BY <2>3, <3>1, <3>4 DEF FromLog
    <2> QED
      BY <2>2, <2>3
  <1> QED
    BY <1>1, SerialInit, SerialStep, AlwaysTypeInv, PTL DEF Spec
=============================================================================
