---------------------------- MODULE SearchMirror ----------------------------
(***************************************************************************)
(* One table of records and its copy in the search engine.                 *)
(*                                                                         *)
(* TypesenseDecoratedRepo sends a copy of each record it writes, without   *)
(* waiting for the answer or looking at it, so calls overtake each other   *)
(* and get lost.  A review restores records below the decorator and sends  *)
(* nothing.  The backfill, a process of its own, reads the table page by   *)
(* page in id order and imports each page; --recreate drops the collection *)
(* first.  Nobody but the backfill creates it: until one has, or when one  *)
(* dies between drop and creation, calls fail, which the API swallows.     *)
(***************************************************************************)
EXTENDS Naturals, Sequences, FiniteSets

CONSTANTS
    Slugs,
    Docs,       \* what a record may hold
    None,       \* no such row, no such document
    Seeded,     \* the slugs of the seeded rows, in id order
    Seed,       \* what a seeded row holds
    Batch,      \* page size of the backfill (100 in the code)
    MaxWrites,  \* bound: writes to the table
    MaxFaults   \* bound: lost or refused calls, restarts, failed backfills

ASSUME MirrorOK ==
    /\ None \notin Docs
    /\ Seeded \in Seq(Slugs) /\ Seed \in Docs
    /\ \A i, j \in DOMAIN Seeded : Seeded[i] = Seeded[j] => i = j
    /\ Batch \in Nat \ {0} /\ MaxWrites \in Nat /\ MaxFaults \in Nat

VARIABLES
    rows,       \* the table
    order,      \* its slugs, in id order
    collection, \* whether the search engine has the collection
    index,      \* its documents
    syncs,      \* calls the decorator has sent: a document, or None to delete
    fill,       \* the backfill
    writes,     \* writes so far
    faults,     \* faults so far
    disturbed   \* history: slugs whose copy something got in the way of

vars == <<rows, order, collection, index, syncs, fill, writes, faults, disturbed>>

Record == Docs \cup {None}

Call == [id: Nat, slug: Slugs, doc: Record]

(* batch: the page read and not yet imported.  owed: history, the rows the *)
(* backfill found at its start and has not read, unless one was deleted.   *)
Fill == [at: {"idle", "ensure", "list", "import"}, offset: Nat,
         batch: [Slugs -> Record], owed: SUBSET Slugs]

NoBatch == [s \in Slugs |-> None]

Filling(at, offset, batch, owed) ==
    [at |-> at, offset |-> offset, batch |-> batch, owed |-> owed]

NoFill == Filling("idle", 0, NoBatch, {})

Existing == {s \in Slugs : rows[s] # None}

Calls(s) == {c \in syncs : c.slug = s}

Busy(s) == Calls(s) # {} \/ fill.batch[s] # None

Fault == faults < MaxFaults /\ faults' = faults + 1

-----------------------------------------------------------------------------
(* Writes *)

(* one committed statement on slug s *)
Store(s, d) ==
    /\ writes < MaxWrites
    /\ writes' = writes + 1
    /\ rows' = [rows EXCEPT ![s] = d]
    /\ UNCHANGED <<collection, index, faults>>

(* and the call that follows it *)
Sync(s, d) ==
    /\ syncs' = syncs \cup {[id |-> writes, slug |-> s, doc |-> d]}
    /\ disturbed' = IF Busy(s) THEN disturbed \cup {s} ELSE disturbed \ {s}

(* upsertBySlug *)
Put(s, d) ==
    /\ Store(s, d)
    /\ Sync(s, d)
    /\ order' = IF rows[s] = None THEN Append(order, s) ELSE order
    /\ UNCHANGED fill

(* seeded fault: the decorator forwards a patch and sends no copy *)
PatchUnsynced(s, d) ==
    /\ rows[s] # None
    /\ Store(s, d)
    /\ disturbed' = IF Busy(s) THEN disturbed \cup {s} ELSE disturbed \ {s}
    /\ UNCHANGED <<order, fill, syncs>>

(* patchBySlug, with the merged record *)
Patch(s, d) ==
    /\ rows[s] # None
    /\ Store(s, d)
    /\ Sync(s, d)
    /\ UNCHANGED <<order, fill>>

(* seeded fault: the deleted row stays in the listing *)
DeleteListed(s) ==
    /\ rows[s] # None
    /\ Store(s, None)
    /\ Sync(s, None)
    /\ fill' = [fill EXCEPT !.owed = {}]
    /\ UNCHANGED order

(* deleteBySlug *)
Delete(s) ==
    /\ rows[s] # None
    /\ Store(s, None)
    /\ Sync(s, None)
    /\ \E i \in DOMAIN order :
          /\ order[i] = s
          /\ order' = SubSeq(order, 1, i - 1) \o SubSeq(order, i + 1, Len(order))
    /\ fill' = [fill EXCEPT !.owed = {}]

(* reviewMutation restores old_values with the inner patchBySlug *)
Restore(s, d) ==
    /\ rows[s] # None
    /\ Store(s, d)
    /\ disturbed' = disturbed \cup {s}
    /\ UNCHANGED <<order, fill, syncs>>

-----------------------------------------------------------------------------
(* Calls on their way to the search engine (external) *)

Deliver(c) ==
    /\ collection
    /\ index' = [index EXCEPT ![c.slug] = c.doc]
    /\ syncs' = syncs \ {c}
    /\ UNCHANGED <<rows, order, collection, fill, writes, faults, disturbed>>

(* 404: there is no collection, and syncUpsert swallows it *)
Refuse(c) ==
    /\ ~collection
    /\ syncs' = syncs \ {c}
    /\ disturbed' = disturbed \cup {c.slug}
    /\ UNCHANGED <<rows, order, collection, index, fill, writes, faults>>

Lose(c) ==
    /\ Fault
    /\ syncs' = syncs \ {c}
    /\ disturbed' = disturbed \cup {c.slug}
    /\ UNCHANGED <<rows, order, collection, index, fill, writes>>

(* the API restarts *)
Restart ==
    /\ syncs # {}
    /\ Fault
    /\ syncs' = {}
    /\ disturbed' = disturbed \cup {c.slug : c \in syncs}
    /\ UNCHANGED <<rows, order, collection, index, fill, writes>>

-----------------------------------------------------------------------------
(* The backfill *)

(* ensureCollection, which leaves a collection that is there as it is *)
StartFill ==
    /\ fill.at = "idle"
    /\ collection' = TRUE
    /\ fill' = Filling("list", 0, NoBatch, Existing)
    /\ UNCHANGED <<rows, order, index, syncs, writes, faults, disturbed>>

(* --recreate: dropCollection, then ensureCollection *)
DropCollection ==
    /\ fill.at = "idle"
    /\ collection' = FALSE
    /\ index' = [s \in Slugs |-> None]
    /\ disturbed' = {s \in Slugs : rows[s] # None \/ Busy(s)}
    /\ fill' = Filling("ensure", 0, NoBatch, {})
    /\ UNCHANGED <<rows, order, syncs, writes, faults>>

EnsureCollection ==
    /\ fill.at = "ensure"
    /\ collection' = TRUE
    /\ fill' = Filling("list", 0, NoBatch, Existing)
    /\ UNCHANGED <<rows, order, index, syncs, writes, faults, disturbed>>

Page == {order[i] : i \in {n \in DOMAIN order : n > fill.offset /\ n <= fill.offset + Batch}}

(* repo.list: no rows, and the table is done; or a page to import *)
ListEnd ==
    /\ fill.at = "list"
    /\ Page = {}
    /\ fill' = Filling("idle", 0, NoBatch, fill.owed)
    /\ UNCHANGED <<rows, order, collection, index, syncs, writes, faults, disturbed>>

ListPage ==
    /\ fill.at = "list"
    /\ Page # {}
    /\ fill' = Filling("import", fill.offset,
                       [s \in Slugs |-> IF s \in Page THEN rows[s] ELSE None],
                       fill.owed \ Page)
    /\ disturbed' = (disturbed \ Page) \cup {s \in Page : Busy(s)}
    /\ UNCHANGED <<rows, order, collection, index, syncs, writes, faults>>

Imported == {s \in Slugs : fill.batch[s] # None}

(* seeded fault: a full page is taken for the last one *)
LastPageFull == Cardinality(Imported) <= Batch

LastPage == Cardinality(Imported) < Batch

AfterPage == IF LastPage THEN Filling("idle", 0, NoBatch, fill.owed)
             ELSE Filling("list", fill.offset + Batch, NoBatch, fill.owed)

(* importDocuments of the rows in S *)
Import(S) ==
    /\ fill.at = "import"
    /\ index' = [s \in Slugs |-> IF s \in S THEN fill.batch[s] ELSE index[s]]
    /\ fill' = AfterPage
    /\ UNCHANGED <<rows, order, collection, syncs, writes>>

ImportPage == Import(Imported) /\ UNCHANGED <<faults, disturbed>>

(* the engine refuses documents one by one, in an answer nobody reads *)
ImportPart ==
    /\ Fault
    /\ \E S \in SUBSET Imported :
          /\ S # Imported
          /\ Import(S)
          /\ disturbed' = disturbed \cup (Imported \ S)

(* a call of the backfill fails, and it ends: after a drop, with no collection *)
FillFails ==
    /\ fill.at # "idle"
    /\ Fault
    /\ fill' = NoFill
    /\ disturbed' = disturbed \cup Imported
    /\ UNCHANGED <<rows, order, collection, index, syncs, writes>>

-----------------------------------------------------------------------------

Init ==
    /\ order = Seeded
    /\ rows = [s \in Slugs |-> IF \E i \in DOMAIN Seeded : Seeded[i] = s
                               THEN Seed ELSE None]
    /\ collection \in BOOLEAN
    /\ index = [s \in Slugs |-> None]
    /\ syncs = {}
    /\ fill = NoFill
    /\ writes = 0
    /\ faults = 0
    /\ disturbed = Existing

Write(s) ==
    \/ \E d \in Docs : Put(s, d) \/ Patch(s, d) \/ Restore(s, d)
    \/ Delete(s)

Backfill ==
    \/ StartFill \/ DropCollection \/ EnsureCollection
    \/ ListEnd \/ ListPage \/ ImportPage \/ ImportPart \/ FillFails

Next ==
    \/ \E s \in Slugs : Write(s)
    \/ \E c \in syncs : Deliver(c) \/ Refuse(c) \/ Lose(c)
    \/ Restart
    \/ Backfill

Spec == Init /\ [][Next]_vars
-----------------------------------------------------------------------------
(* Properties *)

TypeOK ==
    /\ rows \in [Slugs -> Record]
    /\ order \in Seq(Slugs) /\ {order[i] : i \in DOMAIN order} = Existing
    /\ index \in [Slugs -> Record]
    /\ syncs \subseteq Call
    /\ fill \in Fill
    /\ collection \in BOOLEAN
    /\ ~collection => fill.at \in {"idle", "ensure"} /\ \A s \in Slugs : index[s] = None
    /\ writes \in 0..MaxWrites /\ faults \in 0..MaxFaults
    /\ disturbed \subseteq Slugs

(* The search engine holds what the table holds, or the one call that will *)
(* make it so is on its way, except for records something got in the way   *)
(* of: a review restored them, a call was lost, two calls overlapped, the  *)
(* collection was dropped, or it was not there when their call arrived.  A *)
(* write or a backfill that finds no other call in flight repairs them     *)
(* (typesense-decorator.ts:15-17).                                         *)
DriftHasACause ==
    \A s \in Slugs \ disturbed :
        \/ ~Busy(s) /\ index[s] = rows[s]
        \/ Calls(s) = {} /\ fill.batch[s] # None /\ fill.batch[s] = rows[s]
        \/ fill.batch[s] = None /\ \E c \in syncs : Calls(s) = {c} /\ c.doc = rows[s]

(* A backfill that ends well has read every row that was there when it     *)
(* began, whatever was written meanwhile, unless a DELETE moved later rows *)
(* to an earlier page: rows are paged by offset, in id order.              *)
BackfillReadsEveryRow == fill.at = "idle" => fill.owed = {}
=============================================================================
