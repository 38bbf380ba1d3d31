------------------------- MODULE SearchMirrorProofs -------------------------
(* Proofs about SearchMirror, for any slugs, documents and page size. *)
EXTENDS SearchMirror, FiniteSetTheorems, SequenceTheorems, TLAPS

(* The rows behind the first n of the listing. *)
Behind(n) == {order[i] : i \in {k \in DOMAIN order : k > n}}

(* No slug is listed twice; a page is held only while it is imported; the  *)
(* backfill owes rows behind the pages it has read only, and none once it  *)
(* has read a page that is not full.                                       *)
Distinct(seq) == \A i, j \in DOMAIN seq : seq[i] = seq[j] => i = j

OwedInv ==
    /\ fill.at # "import" => fill.batch = NoBatch
    /\ fill.at \in {"idle", "ensure"} => fill.owed = {}
    /\ fill.at = "list" => fill.owed \subseteq Behind(fill.offset)
    /\ fill.at = "import" => fill.owed \subseteq Behind(fill.offset + Batch)
    /\ fill.at = "import" /\ LastPage => fill.owed = {}

IInv ==
    /\ TypeOK
    /\ Distinct(order)
    /\ OwedInv
    /\ DriftHasACause

-----------------------------------------------------------------------------
(* The operators *)

LEMMA NoBatchType == NoBatch \in [Slugs -> Record]
  BY DEF NoBatch, Record

LEMMA FillTypes ==
  ASSUME NEW at \in {"idle", "ensure", "list", "import"}, NEW n \in Nat,
         NEW b \in [Slugs -> Record], NEW w \in SUBSET Slugs
  PROVE  /\ Filling(at, n, b, w) \in Fill
         /\ Filling(at, n, b, w).at = at /\ Filling(at, n, b, w).offset = n
         /\ Filling(at, n, b, w).batch = b /\ Filling(at, n, b, w).owed = w
  BY DEF Filling, Fill

LEMMA ImportedPage ==
  ASSUME TypeOK, NEW s
  PROVE  s \in Page => s \in Slugs /\ rows[s] # None
  BY DEF TypeOK, Page, Existing

(* The listing with its i-th row taken out. *)
Without(i) == SubSeq(order, 1, i - 1) \o SubSeq(order, i + 1, Len(order))

LEMMA WithoutOne ==
  ASSUME TypeOK, Distinct(order), NEW i \in DOMAIN order
  PROVE  /\ Without(i) \in Seq(Slugs) /\ Distinct(Without(i))
         /\ {Without(i)[k] : k \in DOMAIN Without(i)} = Existing \ {order[i]}
<1> DEFINE cut == Without(i)
<1> DEFINE N == Len(order)
<1> DEFINE front == SubSeq(order, 1, i - 1)
<1> DEFINE back == SubSeq(order, i + 1, N)
<1>1. order \in Seq(Slugs) /\ N \in Nat /\ i \in 1..N /\ DOMAIN order = 1..N
  BY LenProperties DEF TypeOK
<1>2. \A k \in 1..N : order[k] \in Slugs
  BY <1>1, ElementOfSeq
<1>3. front \in Seq(Slugs) /\ Len(front) = i - 1 /\ \A k \in 1..(i - 1) : front[k] = order[k]
  <2>1. \A k \in 1..(i - 1) : order[k] \in Slugs
    BY <1>1, <1>2
  <2> QED
    BY <1>1, <2>1, SubSeqProperties
<1>4. back \in Seq(Slugs) /\ Len(back) = N - i /\ \A k \in 1..(N - i) : back[k] = order[i + k]
  <2>1. \A k \in (i + 1)..N : order[k] \in Slugs
    BY <1>1, <1>2
  <2>2. /\ back \in Seq(Slugs)
        /\ Len(back) = IF i + 1 <= N THEN N - (i + 1) + 1 ELSE 0
        /\ \A k \in 1..(N - (i + 1) + 1) : back[k] = order[(i + 1) + k - 1]
    BY <1>1, <2>1, SubSeqProperties
  <2> HIDE DEF back, N
  <2>3. Len(back) = N - i
    BY <1>1, <2>2
  <2>4. ASSUME NEW k \in 1..(N - i)
        PROVE  back[k] = order[i + k]
    <3>1. k \in 1..(N - (i + 1) + 1) /\ (i + 1) + k - 1 = i + k
      BY <1>1
    <3> QED
      BY <2>2, <3>1
  <2> QED
    BY <2>2, <2>3, <2>4
<1> HIDE DEF front, back, N
<1>5. /\ cut \in Seq(Slugs) /\ Len(cut) = N - 1
      /\ \A k \in 1..(N - 1) : cut[k] = IF k < i THEN order[k] ELSE order[k + 1]
  <2>1. cut = front \o back
    BY DEF front, back, N, Without
  <2> HIDE DEF cut
  <2>2. /\ cut \in Seq(Slugs) /\ Len(cut) = Len(front) + Len(back)
        /\ \A k \in 1..(Len(front) + Len(back)) :
              cut[k] = IF k <= Len(front) THEN front[k] ELSE back[k - Len(front)]
    <3>1. /\ front \o back \in Seq(Slugs) /\ Len(front \o back) = Len(front) + Len(back)
          /\ \A k \in 1..(Len(front) + Len(back)) :
                (front \o back)[k] = IF k <= Len(front) THEN front[k] ELSE back[k - Len(front)]
      BY <1>3, <1>4, ConcatProperties
    <3> QED
      BY <2>1, <3>1, Zenon
  <2>3. Len(front) + Len(back) = N - 1
    BY <1>1, <1>3, <1>4
  <2>4. ASSUME NEW k \in 1..(N - 1)
        PROVE  cut[k] = IF k < i THEN order[k] ELSE order[k + 1]
    <3>1. cut[k] = IF k <= Len(front) THEN front[k] ELSE back[k - Len(front)]
      BY <2>2, <2>3
    <3>2. CASE k < i
      <4>1. k <= Len(front) /\ k \in 1..(i - 1)
        BY <1>1, <1>3, <3>2
      <4> QED
        BY <1>3, <3>1, <3>2, <4>1
    <3>3. CASE ~(k < i)
      <4>1. /\ ~(k <= Len(front)) /\ k - Len(front) \in 1..(N - i)
            /\ i + (k - Len(front)) = k + 1
        BY <1>1, <1>3, <3>3
      <4>2. back[k - Len(front)] = order[i + (k - Len(front))]
        BY <1>4, <4>1
      <4> QED
        BY <3>1, <3>3, <4>1, <4>2
    <3> QED
      BY <3>2, <3>3
  <2> QED
    BY <2>2, <2>3, <2>4
<1> HIDE DEF cut
<1> DEFINE At(k) == IF k < i THEN k ELSE k + 1
<1>6. DOMAIN cut = 1..(N - 1)
  BY <1>5, LenProperties
<1>7. \A k \in 1..(N - 1) : At(k) \in 1..N /\ At(k) # i /\ cut[k] = order[At(k)]
  <2> SUFFICES ASSUME NEW k \in 1..(N - 1)
               PROVE  At(k) \in 1..N /\ At(k) # i /\ cut[k] = order[At(k)]
    OBVIOUS
  <2>1. CASE k < i
    BY <1>1, <1>5, <2>1
  <2>2. CASE ~(k < i)
    <3>1. At(k) = k + 1 /\ k + 1 \in 1..N /\ k + 1 # i
      BY <1>1, <2>2
    <3>2. cut[k] = order[k + 1]
      BY <1>5, <2>2
    <3> QED
      BY <3>1, <3>2
  <2> QED
    BY <2>1, <2>2
<1>8. \A k, m \in 1..(N - 1) : At(k) = At(m) => k = m
  BY <1>1
<1>9. \A n \in 1..N : n # i => \E k \in 1..(N - 1) : At(k) = n
  <2> SUFFICES ASSUME NEW n \in 1..N, n # i PROVE \E k \in 1..(N - 1) : At(k) = n
    OBVIOUS
  <2>1. CASE n < i
    BY <1>1, <2>1
  <2>2. CASE n > i
    <3>1. n - 1 \in 1..(N - 1) /\ At(n - 1) = n
      BY <1>1, <2>2
    <3> QED
      BY <3>1
  <2> QED
    BY <1>1, <2>1, <2>2
<1> HIDE DEF At
<1>10. \A k, m \in 1..N : order[k] = order[m] => k = m
  BY <1>1, Zenon DEF Distinct
<1>11. Distinct(cut)
  <2>1. \A k, m \in 1..(N - 1) : cut[k] = cut[m] => k = m
    BY <1>7, <1>8, <1>10, Zenon
  <2> QED
    BY <1>6, <2>1, Zenon DEF Distinct
<1>12. Existing = {order[k] : k \in 1..N}
  BY <1>1, Zenon DEF TypeOK
<1>13. {cut[k] : k \in 1..(N - 1)} = Existing \ {order[i]}
  <2>1. \A k \in 1..(N - 1) : cut[k] \in Existing \ {order[i]}
    BY <1>1, <1>7, <1>10, <1>12
  <2>2. \A n \in 1..N : order[n] # order[i] => \E k \in 1..(N - 1) : cut[k] = order[n]
    BY <1>7, <1>9, Zenon
  <2>3. ASSUME NEW s \in Existing, s # order[i]
        PROVE  \E k \in 1..(N - 1) : cut[k] = s
    <3>1. PICK n \in 1..N : s = order[n]
      BY <1>12, Zenon
    <3> QED
      BY <2>2, <2>3, <3>1, Zenon
  <2> QED
    BY <2>1, <2>3, Zenon
<1> QED
  BY <1>5, <1>6, <1>11, <1>13, Zenon DEF cut

LEMMA Interval ==
  ASSUME NEW n \in Nat, NEW m \in Nat \ {0}
  PROVE  IsFiniteSet((n + 1)..(n + m)) /\ Cardinality((n + 1)..(n + m)) = m
<1>1. n + 1 \in Int /\ n + m \in Int
  OBVIOUS
<1>2. /\ IsFiniteSet((n + 1)..(n + m))
      /\ Cardinality((n + 1)..(n + m)) = IF n + 1 > n + m THEN 0 ELSE n + m - (n + 1) + 1
  BY <1>1, FS_Interval
<1> QED
  BY <1>2

(* A page with fewer rows than it may have ends at the end of the listing. *)
LEMMA ShortPage ==
  ASSUME TypeOK, Distinct(order), Cardinality(Page) < Batch
  PROVE  Behind(fill.offset) \subseteq Page
<1> DEFINE n == fill.offset
<1> DEFINE D == (n + 1)..(n + Batch)
<1>1. n \in Nat /\ Batch \in Nat \ {0} /\ Len(order) \in Nat /\ order \in Seq(Slugs)
  BY MirrorOK DEF TypeOK, Fill, MirrorOK
<1>2. CASE Len(order) >= n + Batch
  <2> DEFINE f == [i \in D |-> order[i]]
  <2>1. D \subseteq DOMAIN order /\ D = {k \in DOMAIN order : k > n /\ k <= n + Batch}
    BY <1>1, <1>2
  <2>2. Page = {order[i] : i \in D}
    BY <2>1 DEF Page
  <2>3. f \in Bijection(D, Page)
    BY <2>1, <2>2 DEF Distinct, Bijection, Injection, Surjection, IsInjective
  <2>4. ExistsBijection(D, Page)
    BY <2>3 DEF ExistsBijection
  <2>5. IsFiniteSet(D) /\ Cardinality(D) = Batch
    BY <1>1, Interval
  <2> HIDE DEF D
  <2>6. Cardinality(Page) = Batch
    BY <2>4, <2>5, FS_Bijection
  <2> QED
    BY <1>1, <2>6
<1>3. CASE Len(order) < n + Batch
  BY <1>1, <1>3 DEF Behind, Page
<1> QED
  BY <1>1, <1>2, <1>3
-----------------------------------------------------------------------------
(* Types, and the listing *)

ListingOK == order \in Seq(Slugs) /\ {order[i] : i \in DOMAIN order} = Existing /\ Distinct(order)

LEMMA StoredRows ==
  ASSUME TypeOK, NEW s \in Slugs, NEW d \in Record, Store(s, d)
  PROVE  /\ rows' \in [Slugs -> Record] /\ writes' \in 0..MaxWrites
         /\ Existing' = IF d = None THEN Existing \ {s} ELSE Existing \cup {s}
<1>1. rows' \in [Slugs -> Record] /\ writes' \in 0..MaxWrites
  BY MirrorOK DEF Store, TypeOK, MirrorOK
<1>2. \A t \in Slugs : rows'[t] = IF t = s THEN d ELSE rows[t]
  BY DEF Store, TypeOK
<1> QED
  BY <1>1, <1>2 DEF Existing

LEMMA SyncTypes ==
  ASSUME TypeOK, NEW s \in Slugs, NEW d \in Record, Sync(s, d)
  PROVE  syncs' \subseteq Call /\ disturbed' \subseteq Slugs
<1>1. [id |-> writes, slug |-> s, doc |-> d] \in Call
  BY MirrorOK DEF TypeOK, Call, MirrorOK
<1> QED
  BY <1>1 DEF Sync, TypeOK

(* A step that writes no row leaves the listing alone. *)
LEMMA ListingFrame ==
  ASSUME ListingOK, rows' = rows, order' = order
  PROVE  ListingOK'
  BY DEF ListingOK, Existing, Distinct

LEMMA WritesHold ==
  ASSUME TypeOK, Distinct(order), NEW s \in Slugs, Write(s)
  PROVE  TypeOK' /\ ListingOK'
<1> USE MirrorOK DEF MirrorOK, Record
<1>0. ListingOK
  BY DEF TypeOK, ListingOK
<1>1. ASSUME NEW d \in Docs, Patch(s, d) \/ Restore(s, d)
      PROVE  TypeOK' /\ ListingOK'
  <2>1. Store(s, d) /\ order' = order /\ fill' = fill /\ rows[s] # None
    BY <1>1 DEF Patch, Restore
  <2>2. Existing' = Existing
    BY <2>1, StoredRows DEF Existing
  <2>3. ListingOK'
    BY <1>0, <2>1, <2>2 DEF ListingOK, Distinct
  <2>4. syncs' \subseteq Call /\ disturbed' \subseteq Slugs
    BY <1>1, SyncTypes DEF Patch, Restore, TypeOK
  <2>5. index' = index /\ faults' = faults /\ collection' = collection
    BY <2>1 DEF Store
  <2> QED
    BY <2>1, <2>3, <2>4, <2>5, StoredRows DEF TypeOK, ListingOK
<1>2. ASSUME NEW d \in Docs, Put(s, d)
      PROVE  TypeOK' /\ ListingOK'
  <2>1. Store(s, d) /\ fill' = fill /\ syncs' \subseteq Call /\ disturbed' \subseteq Slugs
    BY <1>2, SyncTypes DEF Put
  <2>2. Existing' = Existing \cup {s}
    BY <2>1, StoredRows
  <2>3. ListingOK'
    <3>1. CASE rows[s] # None
      BY <1>0, <1>2, <2>2, <3>1 DEF Put, ListingOK, Distinct, Existing
    <3>2. CASE rows[s] = None
      <4> DEFINE n == Len(order)
      <4>1. order \in Seq(Slugs) /\ n \in Nat /\ DOMAIN order = 1..n
        BY LenProperties DEF TypeOK
      <4>2. order' = Append(order, s)
        BY <1>2, <3>2 DEF Put
      <4>3. /\ order' \in Seq(Slugs) /\ DOMAIN order' = 1..(n + 1)
            /\ order'[n + 1] = s /\ \A i \in 1..n : order'[i] = order[i]
        BY <4>1, <4>2
      <4>4. s \notin {order[i] : i \in 1..n}
        BY <3>2, <4>1 DEF TypeOK, Existing
      <4> HIDE DEF n
      <4>5. {order'[i] : i \in DOMAIN order'} = Existing \cup {s}
        BY <4>1, <4>3 DEF TypeOK
      <4>6. Distinct(order)'
        BY <4>1, <4>3, <4>4 DEF Distinct
      <4> QED
        BY <2>2, <4>3, <4>5, <4>6 DEF ListingOK
    <3> QED
      BY <3>1, <3>2
  <2>4. index' = index /\ faults' = faults /\ collection' = collection
    BY <2>1 DEF Store
  <2> QED
    BY <2>1, <2>3, <2>4, StoredRows DEF TypeOK, ListingOK
<1>3. CASE Delete(s)
  <2>1. Store(s, None) /\ syncs' \subseteq Call /\ disturbed' \subseteq Slugs
    BY <1>3, SyncTypes DEF Delete
  <2>2. Existing' = Existing \ {s}
    BY <2>1, StoredRows
  <2>3. ListingOK'
    <3>1. PICK i \in DOMAIN order :
             order[i] = s /\ order' = SubSeq(order, 1, i - 1) \o SubSeq(order, i + 1, Len(order))
      BY <1>3 DEF Delete
    <3>2. /\ Without(i) \in Seq(Slugs) /\ Distinct(Without(i))
          /\ {Without(i)[k] : k \in DOMAIN Without(i)} = Existing \ {order[i]}
      BY WithoutOne
    <3>3. order' = Without(i)
      BY <3>1, Zenon DEF Without
    <3>4. Distinct(order)'
      BY <3>2, <3>3, Zenon DEF Distinct
    <3> QED
      BY <2>2, <3>1, <3>2, <3>3, <3>4, Zenon DEF ListingOK
  <2>4. fill' \in Fill /\ fill'.at = fill.at
    BY <1>3 DEF Delete, TypeOK, Fill
  <2>5. index' = index /\ faults' = faults /\ collection' = collection
    BY <2>1 DEF Store
  <2> QED
    BY <2>1, <2>3, <2>4, <2>5, StoredRows DEF TypeOK, ListingOK
<1> QED
  BY <1>1, <1>2, <1>3 DEF Write

LEMMA CallsHold ==
  ASSUME TypeOK, NEW c \in syncs, Deliver(c) \/ Refuse(c) \/ Lose(c)
  PROVE  TypeOK'
<1> USE MirrorOK DEF MirrorOK
<1>1. c.slug \in Slugs /\ c.doc \in Record
  BY DEF TypeOK, Call
<1>2. CASE Deliver(c)
  BY <1>1, <1>2 DEF Deliver, TypeOK, Existing
<1>3. CASE Refuse(c)
  BY <1>1, <1>3 DEF Refuse, TypeOK, Existing
<1>4. CASE Lose(c)
  BY <1>1, <1>4 DEF Lose, Fault, TypeOK, Existing
<1> QED
  BY <1>2, <1>3, <1>4

LEMMA RestartHolds ==
  ASSUME TypeOK, Restart
  PROVE  TypeOK'
<1>1. {c.slug : c \in syncs} \subseteq Slugs
  BY DEF TypeOK, Call
<1> QED
  BY <1>1, MirrorOK DEF Restart, Fault, TypeOK, Existing, MirrorOK

(* Only a drop takes the collection away, and nothing is imported without. *)
LEMMA CollectionHolds ==
  ASSUME TypeOK, Backfill
  PROVE  /\ collection' \in BOOLEAN
         /\ ~collection' => /\ fill'.at \in {"idle", "ensure"}
                            /\ \A s \in Slugs : index'[s] = None
<1>1. CASE StartFill \/ EnsureCollection
  BY <1>1 DEF StartFill, EnsureCollection
<1>2. CASE DropCollection
  BY <1>2 DEF DropCollection, Filling
<1>3. CASE FillFails
  BY <1>3 DEF FillFails, NoFill, Filling, TypeOK
<1>4. CASE ListEnd \/ ListPage \/ ImportPage \/ ImportPart
  <2>1. fill.at \in {"list", "import"} /\ collection' = collection
    BY <1>4 DEF ListEnd, ListPage, ImportPage, ImportPart, Import
  <2>2. collection /\ collection \in BOOLEAN
    BY <2>1 DEF TypeOK
  <2> QED
    BY <2>1, <2>2
<1> QED
  BY <1>1, <1>2, <1>3, <1>4 DEF Backfill

LEMMA BackfillHolds ==
  ASSUME TypeOK, Backfill
  PROVE  TypeOK'
<1> USE MirrorOK, NoBatchType DEF MirrorOK
<1> SUFFICES /\ index' \in [Slugs -> Record] /\ fill' \in Fill
             /\ faults' \in 0..MaxFaults /\ disturbed' \subseteq Slugs
             /\ rows' = rows /\ order' = order /\ syncs' = syncs /\ writes' = writes
  <2> SUFFICES collection' \in BOOLEAN
               /\ (~collection' => /\ fill'.at \in {"idle", "ensure"}
                                   /\ \A s \in Slugs : index'[s] = None)
    BY DEF TypeOK, Existing
  <2> QED
    BY CollectionHolds
<1>1. Existing \in SUBSET Slugs /\ fill.owed \in SUBSET Slugs /\ fill.offset \in Nat
      /\ fill.batch \in [Slugs -> Record] /\ Imported \in SUBSET Slugs
  BY DEF Existing, TypeOK, Fill, Imported
<1>2. CASE StartFill
  BY <1>1, <1>2, FillTypes DEF StartFill, TypeOK
<1>3. CASE DropCollection
  <2>1. index' \in [Slugs -> Record]
    BY <1>3 DEF DropCollection, Record
  <2> QED
    BY <1>1, <1>3, <2>1, FillTypes DEF DropCollection, TypeOK
<1>4. CASE EnsureCollection
  BY <1>1, <1>4, FillTypes DEF EnsureCollection, TypeOK
<1>5. CASE ListEnd
  BY <1>1, <1>5, FillTypes DEF ListEnd, TypeOK
<1>6. CASE ListPage
  <2> DEFINE b == [s \in Slugs |-> IF s \in Page THEN rows[s] ELSE None]
  <2>1. b \in [Slugs -> Record] /\ fill.owed \ Page \in SUBSET Slugs
    BY <1>1 DEF TypeOK, Record
  <2>2. fill' = Filling("import", fill.offset, b, fill.owed \ Page)
    BY <1>6 DEF ListPage
  <2> HIDE DEF b
  <2>3. fill' \in Fill
    BY <1>1, <2>1, <2>2, FillTypes
  <2>4. disturbed' \subseteq Slugs
    BY <1>6, ImportedPage DEF ListPage, TypeOK
  <2> QED
    BY <1>6, <2>3, <2>4 DEF ListPage, TypeOK
<1>7. ASSUME NEW S \in SUBSET Slugs, Import(S)
      PROVE  index' \in [Slugs -> Record] /\ fill' \in Fill
  <2>1. index' \in [Slugs -> Record]
    BY <1>1, <1>7 DEF Import, TypeOK
  <2>2. fill.offset + Batch \in Nat
    BY <1>1
  <2>3. AfterPage \in Fill
    BY <1>1, <2>2, FillTypes DEF AfterPage
  <2> QED
    BY <1>7, <2>1, <2>3 DEF Import
<1>8. CASE ImportPage
  BY <1>1, <1>7, <1>8 DEF ImportPage, Import, TypeOK
<1>9. CASE ImportPart
  <2>1. PICK S \in SUBSET Imported : Import(S) /\ disturbed' = disturbed \cup (Imported \ S)
    BY <1>9 DEF ImportPart
  <2>2. S \in SUBSET Slugs
    BY <1>1
  <2>3. index' \in [Slugs -> Record] /\ fill' \in Fill
    BY <1>7, <2>1, <2>2
  <2>4. faults' \in 0..MaxFaults
    BY <1>9 DEF ImportPart, Fault, TypeOK
  <2> QED
    BY <1>1, <2>1, <2>3, <2>4 DEF Import, TypeOK
<1>10. CASE FillFails
  <2>1. NoFill \in Fill
    BY FillTypes DEF NoFill
  <2> QED
    BY <1>1, <1>10, <2>1 DEF FillFails, Fault, TypeOK
<1> QED
  BY <1>2, <1>3, <1>4, <1>5, <1>6, <1>8, <1>9, <1>10 DEF Backfill

-----------------------------------------------------------------------------
(* What the backfill owes *)

(* A write leaves the backfill where it is; new rows join the listing at   *)
(* its end, and a row leaves it only when nothing is owed.                 *)
LEMMA WritesOwe ==
  ASSUME TypeOK, OwedInv, NEW s \in Slugs, Write(s)
  PROVE  OwedInv'
<1>1. ASSUME fill' = fill, \A n \in Nat : Behind(n) \subseteq Behind(n)'
      PROVE  OwedInv'
  <2>1. fill.offset \in Nat /\ fill.offset + Batch \in Nat
    BY MirrorOK DEF TypeOK, Fill, MirrorOK
  <2> QED
    BY <1>1, <2>1 DEF OwedInv, LastPage, Imported
<1>2. ASSUME NEW d \in Docs, Patch(s, d) \/ Restore(s, d)
      PROVE  OwedInv'
  <2>1. fill' = fill /\ order' = order
    BY <1>2 DEF Patch, Restore
  <2> QED
    BY <1>1, <2>1 DEF Behind
<1>3. ASSUME NEW d \in Docs, Put(s, d)
      PROVE  OwedInv'
  <2>1. fill' = fill
    BY <1>3 DEF Put
  <2>2. ASSUME NEW n \in Nat
        PROVE  Behind(n) \subseteq Behind(n)'
    <3>1. CASE order' = order
      BY <3>1 DEF Behind
    <3>2. CASE order' = Append(order, s)
      <4>1. /\ DOMAIN order \subseteq DOMAIN order' /\ DOMAIN order \subseteq Nat
            /\ \A i \in DOMAIN order : order'[i] = order[i]
        BY <3>2, LenProperties DEF TypeOK
      <4> QED
        BY <4>1 DEF Behind
    <3> QED
      BY <1>3, <3>1, <3>2 DEF Put
  <2> QED
    BY <1>1, <2>1, <2>2
<1>4. CASE Delete(s)
  <2>1. /\ fill'.at = fill.at /\ fill'.offset = fill.offset /\ fill'.batch = fill.batch
        /\ fill'.owed = {}
    BY <1>4 DEF Delete, TypeOK, Fill
  <2> QED
    BY <2>1 DEF OwedInv
<1> QED
  BY <1>2, <1>3, <1>4 DEF Write

LEMMA BackfillOwes ==
  ASSUME TypeOK, Distinct(order), OwedInv, Backfill
  PROVE  OwedInv'
<1> USE NoBatchType
<1>1. /\ Existing \in SUBSET Slugs /\ fill.owed \in SUBSET Slugs /\ fill.offset \in Nat
      /\ fill.batch \in [Slugs -> Record] /\ fill.offset + Batch \in Nat
      /\ fill.at \in {"idle", "ensure", "list", "import"} /\ Batch \in Nat \ {0}
  BY MirrorOK DEF Existing, TypeOK, Fill, MirrorOK
<1>2. order' = order /\ \A n : Behind(n)' = Behind(n)
  BY DEF Backfill, StartFill, DropCollection, EnsureCollection, ListEnd, ListPage, ImportPage,
         ImportPart, Import, FillFails, Behind
<1>3. Existing \subseteq Behind(0) /\ DOMAIN order \subseteq Nat
  BY LenProperties DEF TypeOK, Behind
<1>4. CASE StartFill \/ EnsureCollection
  <2>1. fill' = Filling("list", 0, NoBatch, Existing)
    BY <1>4 DEF StartFill, EnsureCollection
  <2>2. fill'.at = "list" /\ fill'.offset = 0 /\ fill'.batch = NoBatch /\ fill'.owed = Existing
    BY <1>1, <2>1, FillTypes
  <2> QED
    BY <1>2, <1>3, <2>2 DEF OwedInv, NoBatch
<1>5. ASSUME fill'.at \in {"idle", "ensure"}, fill'.batch = NoBatch, fill'.owed = {}
      PROVE  OwedInv'
  BY <1>5 DEF OwedInv, NoBatch
<1>6. CASE DropCollection
  BY <1>5, <1>6, FillTypes DEF DropCollection
<1>7. CASE FillFails
  BY <1>5, <1>7, FillTypes DEF FillFails, NoFill
<1>8. CASE ListEnd
  <2>1. fill.owed = {}
    <3>1. fill.owed \subseteq Behind(fill.offset)
      BY <1>8 DEF ListEnd, OwedInv
    <3>2. Cardinality(Page) < Batch
      <4>1. Page = {} /\ Cardinality({}) = 0
        BY <1>8, FS_EmptySet DEF ListEnd
      <4> QED
        BY <1>1, <4>1
    <3> QED
      BY <1>8, <3>1, <3>2, ShortPage DEF ListEnd
  <2> QED
    BY <1>1, <1>5, <1>8, <2>1, FillTypes DEF ListEnd
<1>9. CASE ListPage
  <2> DEFINE b == [s \in Slugs |-> IF s \in Page THEN rows[s] ELSE None]
  <2>1. b \in [Slugs -> Record] /\ fill.owed \ Page \in SUBSET Slugs
    BY <1>1 DEF TypeOK, Record
  <2>2. {s \in Slugs : b[s] # None} = Page
    BY ImportedPage
  <2>3. fill' = Filling("import", fill.offset, b, fill.owed \ Page)
    BY <1>9 DEF ListPage
  <2> HIDE DEF b
  <2>4. /\ fill'.at = "import" /\ fill'.offset = fill.offset /\ fill'.batch = b
        /\ fill'.owed = fill.owed \ Page
    BY <1>1, <2>1, <2>3, FillTypes
  <2>5. fill.owed \subseteq Behind(fill.offset)
    BY <1>9 DEF ListPage, OwedInv
  <2>6. fill.owed \ Page \subseteq Behind(fill.offset + Batch)
    BY <1>1, <1>3, <2>5 DEF Behind, Page
  <2>7. LastPage' => fill.owed \ Page = {}
    <3>1. LastPage' => Cardinality(Page) < Batch
      BY <2>2, <2>4 DEF LastPage, Imported
    <3> QED
      BY <2>5, <3>1, ShortPage
  <2> QED
    BY <1>2, <2>4, <2>6, <2>7 DEF OwedInv
<1>10. CASE ImportPage \/ ImportPart
  <2>1. fill' = AfterPage /\ fill.at = "import"
    BY <1>10 DEF ImportPage, ImportPart, Import
  <2>2. CASE LastPage
    BY <1>1, <1>5, <2>1, <2>2, FillTypes DEF AfterPage, OwedInv
  <2>3. CASE ~LastPage
    <3>1. /\ fill'.at = "list" /\ fill'.offset = fill.offset + Batch /\ fill'.batch = NoBatch
          /\ fill'.owed = fill.owed
      BY <1>1, <2>1, <2>3, FillTypes DEF AfterPage
    <3> QED
      BY <1>2, <2>1, <3>1 DEF OwedInv, NoBatch
  <2> QED
    BY <2>2, <2>3
<1> QED
  BY <1>4, <1>6, <1>7, <1>8, <1>9, <1>10 DEF Backfill

-----------------------------------------------------------------------------
(* Drift *)

(* What the search engine and the calls owe slug s. *)
Mirrored(s) ==
    \/ ~Busy(s) /\ index[s] = rows[s]
    \/ Calls(s) = {} /\ fill.batch[s] # None /\ fill.batch[s] = rows[s]
    \/ fill.batch[s] = None /\ \E c \in syncs : Calls(s) = {c} /\ c.doc = rows[s]

(* A step that leaves a slug, its calls and its place in the batch alone.  *)
LEMMA MirroredFrame ==
  ASSUME NEW s, Mirrored(s), rows'[s] = rows[s], index'[s] = index[s],
         Calls(s)' = Calls(s), fill'.batch[s] = fill.batch[s]
  PROVE  Mirrored(s)'
<1>1. Busy(s)' = Busy(s)
  BY DEF Busy
<1>2. ASSUME NEW c \in syncs, Calls(s) = {c}
      PROVE  c \in syncs'
  BY <1>2 DEF Calls
<1> QED
  BY <1>1, <1>2, Zenon DEF Mirrored

(* A write of a slug with no call in flight sends the one that mirrors it. *)
LEMMA SyncMirrors ==
  ASSUME TypeOK, NEW s \in Slugs, NEW d \in Record, Store(s, d), Sync(s, d),
         fill'.batch = fill.batch, DriftHasACause
  PROVE  DriftHasACause'
<1> SUFFICES ASSUME NEW t \in Slugs, t \notin disturbed' PROVE Mirrored(t)'
  BY Zenon DEF DriftHasACause, Mirrored
<1> DEFINE new == [id |-> writes, slug |-> s, doc |-> d]
<1>1. syncs' = syncs \cup {new} /\ new.slug = s /\ new.doc = d
  BY DEF Sync
<1>2. rows'[s] = d /\ \A u \in Slugs \ {s} : rows'[u] = rows[u]
  BY DEF Store, TypeOK
<1>3. index' = index
  BY DEF Store
<1> HIDE DEF new
<1>4. CASE t = s
  <2>1. ~Busy(s)
    BY <1>4 DEF Sync
  <2>2. Calls(s)' = {new} /\ fill'.batch[s] = None
    BY <1>1, <2>1 DEF Busy, Calls
  <2> QED
    BY <1>1, <1>2, <1>4, <2>2 DEF Mirrored
<1>5. CASE t # s
  <2>1. t \notin disturbed
    BY <1>5 DEF Sync
  <2>2. Mirrored(t)
    BY <2>1, Zenon DEF DriftHasACause, Mirrored
  <2>3. Calls(t)' = Calls(t)
    BY <1>1, <1>5 DEF Calls
  <2> QED
    BY <1>2, <1>3, <1>5, <2>2, <2>3, MirroredFrame
<1> QED
  BY <1>4, <1>5

LEMMA WritesDrift ==
  ASSUME TypeOK, NEW s \in Slugs, Write(s), DriftHasACause
  PROVE  DriftHasACause'
<1>1. ASSUME NEW d \in Docs, Put(s, d) \/ Patch(s, d)
      PROVE  DriftHasACause'
  BY <1>1, SyncMirrors DEF Put, Patch, Record
<1>2. CASE Delete(s)
  <2>1. fill'.batch = fill.batch
    BY <1>2 DEF Delete, TypeOK, Fill
  <2> QED
    BY <1>2, <2>1, SyncMirrors DEF Delete, Record
<1>3. ASSUME NEW d \in Docs, Restore(s, d)
      PROVE  DriftHasACause'
  <2> SUFFICES ASSUME NEW t \in Slugs, t \notin disturbed' PROVE Mirrored(t)'
    BY Zenon DEF DriftHasACause, Mirrored
  <2>1. t # s /\ t \notin disturbed /\ syncs' = syncs /\ fill' = fill
    BY <1>3 DEF Restore
  <2>2. Mirrored(t)
    BY <2>1, Zenon DEF DriftHasACause, Mirrored
  <2>3. rows'[t] = rows[t] /\ index' = index
    BY <1>3, <2>1 DEF Restore, Store, TypeOK
  <2>4. Calls(t)' = Calls(t)
    BY <2>1 DEF Calls
  <2> QED
    BY <2>1, <2>2, <2>3, <2>4, MirroredFrame
<1> QED
  BY <1>1, <1>2, <1>3 DEF Write

LEMMA CallsDrift ==
  ASSUME TypeOK, OwedInv, DriftHasACause, (\E c \in syncs : Deliver(c) \/ Refuse(c) \/ Lose(c)) \/ Restart
  PROVE  DriftHasACause'
<1> SUFFICES ASSUME NEW t \in Slugs, t \notin disturbed' PROVE Mirrored(t)'
  BY Zenon DEF DriftHasACause, Mirrored
<1>1. disturbed \subseteq disturbed' /\ rows' = rows /\ fill' = fill
  BY DEF Deliver, Refuse, Lose, Restart
<1>2. Mirrored(t)
  BY <1>1, Zenon DEF DriftHasACause, Mirrored
<1>3. ASSUME index'[t] = index[t], Calls(t)' = Calls(t)
      PROVE  Mirrored(t)'
  BY <1>1, <1>2, <1>3, MirroredFrame
<1>4. ASSUME NEW c \in syncs, Deliver(c)
      PROVE  Mirrored(t)'
  <2>1. syncs' = syncs \ {c} /\ c.slug \in Slugs
    BY <1>4 DEF Deliver, TypeOK, Call
  <2>2. CASE c.slug # t
    <3>1. index'[t] = index[t]
      BY <1>4, <2>2 DEF Deliver, TypeOK
    <3>2. Calls(t)' = Calls(t)
      BY <2>1, <2>2 DEF Calls
    <3> QED
      BY <1>3, <3>1, <3>2
  <2>3. CASE c.slug = t
    <3>1. c \in Calls(t)
      BY <2>3 DEF Calls
    <3>2. fill.batch[t] = None /\ Calls(t) = {c} /\ c.doc = rows[t]
      BY <1>2, <3>1 DEF Mirrored, Busy
    <3>3. Calls(t)' = {}
      BY <2>1, <3>2 DEF Calls
    <3>4. index'[t] = rows[t]
      BY <1>4, <2>3, <3>2 DEF Deliver, TypeOK
    <3> QED
      BY <1>1, <3>2, <3>3, <3>4 DEF Mirrored, Busy
  <2> QED
    BY <2>2, <2>3
<1>5. ASSUME NEW c \in syncs, Refuse(c) \/ Lose(c)
      PROVE  Mirrored(t)'
  BY <1>3, <1>5 DEF Refuse, Lose, Calls
<1>6. CASE Restart
  BY <1>3, <1>6 DEF Restart, Calls
<1> QED
  BY <1>4, <1>5, <1>6

LEMMA BackfillDrift ==
  ASSUME TypeOK, OwedInv, DriftHasACause, Backfill
  PROVE  DriftHasACause'
<1> SUFFICES ASSUME NEW t \in Slugs, t \notin disturbed' PROVE Mirrored(t)'
  BY Zenon DEF DriftHasACause, Mirrored
<1>1. rows' = rows /\ syncs' = syncs /\ Calls(t)' = Calls(t)
  BY DEF Backfill, StartFill, DropCollection, EnsureCollection, ListEnd, ListPage, ImportPage,
         ImportPart, Import, FillFails, Calls
<1>2. ASSUME t \notin disturbed, index' = index, fill'.batch[t] = fill.batch[t]
      PROVE  Mirrored(t)'
  <2>1. Mirrored(t)
    BY <1>2, Zenon DEF DriftHasACause, Mirrored
  <2> QED
    BY <1>1, <1>2, <2>1, MirroredFrame
<1>3. fill.at # "import" => fill.batch[t] = None
  BY DEF OwedInv, NoBatch
<1>4. AfterPage.batch[t] = None /\ NoFill.batch[t] = None
  BY DEF AfterPage, NoFill, Filling, NoBatch
<1>5. CASE StartFill \/ EnsureCollection \/ ListEnd
  BY <1>2, <1>3, <1>5 DEF StartFill, EnsureCollection, ListEnd, Filling, NoBatch
<1>6. CASE DropCollection
  <2>1. rows[t] = None /\ ~Busy(t) /\ index'[t] = None /\ fill'.batch[t] = None
    BY <1>6 DEF DropCollection, Filling, NoBatch
  <2> QED
    BY <1>1, <2>1 DEF Mirrored, Busy
<1>7. CASE ListPage
  <2>1. fill'.batch[t] = IF t \in Page THEN rows[t] ELSE None
    BY <1>7 DEF ListPage, Filling
  <2>2. CASE t \in Page
    <3>1. ~Busy(t) /\ rows[t] # None
      BY <1>7, <2>2, ImportedPage DEF ListPage
    <3> QED
      BY <1>1, <2>1, <2>2, <3>1 DEF Mirrored, Busy
  <2>3. CASE t \notin Page
    BY <1>2, <1>3, <1>7, <2>1, <2>3 DEF ListPage
  <2> QED
    BY <2>2, <2>3
<1>8. ASSUME NEW S \in SUBSET Imported, Import(S), disturbed' = disturbed \cup (Imported \ S)
      PROVE  Mirrored(t)'
  <2>1. t \notin disturbed /\ (t \in Imported => t \in S)
    BY <1>8
  <2>2. Mirrored(t)
    BY <2>1, Zenon DEF DriftHasACause, Mirrored
  <2>3. fill'.batch[t] = None
    BY <1>4, <1>8 DEF Import
  <2>4. index'[t] = IF t \in S THEN fill.batch[t] ELSE index[t]
    BY <1>8 DEF Import
  <2>5. CASE fill.batch[t] # None
    <3>1. Calls(t) = {} /\ fill.batch[t] = rows[t]
      BY <2>2, <2>5 DEF Mirrored, Busy
    <3> QED
      BY <1>1, <2>1, <2>3, <2>4, <2>5, <3>1 DEF Mirrored, Busy, Imported
  <2>6. CASE fill.batch[t] = None
    <3>1. index'[t] = index[t]
      BY <1>8, <2>4, <2>6 DEF Imported
    <3> QED
      BY <1>1, <2>2, <2>3, <2>6, <3>1, MirroredFrame
  <2> QED
    BY <2>5, <2>6
<1>9. CASE ImportPage
  <2>1. Import(Imported) /\ disturbed' = disturbed \cup (Imported \ Imported)
    BY <1>9 DEF ImportPage
  <2> QED
    BY <1>8, <2>1
<1>10. CASE ImportPart
  BY <1>8, <1>10 DEF ImportPart
<1>11. CASE FillFails
  <2>1. t \notin disturbed /\ t \notin Imported
    BY <1>11 DEF FillFails
  <2> QED
    BY <1>2, <1>4, <1>11, <2>1 DEF FillFails, Imported
<1> QED
  BY <1>5, <1>6, <1>7, <1>9, <1>10, <1>11 DEF Backfill

-----------------------------------------------------------------------------
(* The invariant is inductive *)

LEMMA StepHolds ==
  ASSUME IInv, [Next]_vars
  PROVE  IInv'
<1> USE DEF IInv
<1>1. ASSUME NEW s \in Slugs, Write(s)
      PROVE  IInv'
  BY <1>1, WritesHold, WritesOwe, WritesDrift DEF ListingOK
<1>2. ASSUME order' = order
      PROVE  Distinct(order)'
  BY <1>2 DEF Distinct
<1>3. CASE (\E c \in syncs : Deliver(c) \/ Refuse(c) \/ Lose(c)) \/ Restart
  <2>1. TypeOK'
    BY <1>3, CallsHold, RestartHolds
  <2>2. order' = order /\ fill' = fill
    BY <1>3 DEF Deliver, Refuse, Lose, Restart
  <2>3. OwedInv'
    BY <2>2 DEF OwedInv, Behind, LastPage, Imported
  <2> QED
    BY <1>2, <1>3, <2>1, <2>2, <2>3, CallsDrift
<1>4. CASE Backfill
  <2>1. order' = order
    BY <1>4 DEF Backfill, StartFill, DropCollection, EnsureCollection, ListEnd, ListPage,
                ImportPage, ImportPart, Import, FillFails
  <2> QED
    BY <1>2, <1>4, <2>1, BackfillHolds, BackfillOwes, BackfillDrift
<1>5. CASE UNCHANGED vars
  <2>1. TypeOK' /\ order' = order
    BY <1>5 DEF vars, TypeOK, Existing
  <2>2. OwedInv'
    BY <1>5 DEF vars, OwedInv, Behind, LastPage, Imported
  <2>3. DriftHasACause'
    BY <1>5 DEF vars, DriftHasACause, Busy, Calls
  <2> QED
    BY <1>2, <2>1, <2>2, <2>3
<1> QED
  BY <1>1, <1>3, <1>4, <1>5 DEF Next

LEMMA InitEstablishes == Init => IInv
<1> SUFFICES ASSUME Init PROVE IInv
  OBVIOUS
<1> USE MirrorOK, NoBatchType DEF MirrorOK, Init
<1>1. NoFill \in Fill /\ NoFill.at = "idle" /\ NoFill.batch = NoBatch /\ NoFill.owed = {}
  BY FillTypes DEF NoFill
<1>2. {order[i] : i \in DOMAIN order} = Existing
  <2>1. \A i \in DOMAIN Seeded : Seeded[i] \in Slugs
    BY LenProperties
  <2> QED
    BY <2>1 DEF Existing
<1>3. Existing \subseteq Slugs /\ rows \in [Slugs -> Record] /\ index \in [Slugs -> Record]
  BY DEF Existing, Record
<1>4. TypeOK
  BY <1>1, <1>2, <1>3 DEF TypeOK
<1>5. Distinct(order) /\ OwedInv
  BY <1>1 DEF Distinct, OwedInv
<1>6. DriftHasACause
  <2> SUFFICES ASSUME NEW s \in Slugs, s \notin disturbed PROVE Mirrored(s)
    BY Zenon DEF DriftHasACause, Mirrored
  <2> QED
    BY <1>1 DEF Existing, Mirrored, Busy, Calls, NoBatch
<1> QED
  BY <1>4, <1>5, <1>6 DEF IInv

LEMMA Inductive == Spec => []IInv
<1>1. IInv /\ [Next]_vars => IInv'
  BY StepHolds
<1> QED
  BY <1>1, InitEstablishes, PTL DEF Spec

-----------------------------------------------------------------------------

(* Every reachable state is well typed, and the listing the backfill pages *)
(* through holds exactly the rows of the table, once each.                 *)
THEOREM MirrorTypes == Spec => []TypeOK
<1>1. IInv => TypeOK
  BY DEF IInv
<1> QED
  BY <1>1, Inductive, PTL

(* A copy in the search engine differs from its record only where a        *)
(* restore, a lost or overtaken call, a drop of the collection, a call     *)
(* that found none, or a failed import came in between                     *)
(* (typesense-decorator.ts:15-17).                                         *)
THEOREM DriftExplained == Spec => []DriftHasACause
<1>1. IInv => DriftHasACause
  BY DEF IInv
<1> QED
  BY <1>1, Inductive, PTL

(* A backfill that ends well has read every row it found at its start,     *)
(* unless a DELETE came in between, whatever the page size.                *)
THEOREM BackfillIsComplete == Spec => []BackfillReadsEveryRow
<1>1. IInv => BackfillReadsEveryRow
  BY DEF IInv, OwedInv, BackfillReadsEveryRow
<1> QED
  BY <1>1, Inductive, PTL
=============================================================================
