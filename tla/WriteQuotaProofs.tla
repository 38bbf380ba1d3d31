-------------------------- MODULE WriteQuotaProofs --------------------------
(***************************************************************************)
(* WriteQuota keeps its properties for any users, cap, window and number   *)
(* of requests in flight.                                                  *)
(*                                                                         *)
(* The cap alone is not inductive: a request already let in may log above  *)
(* it.  QuotaInv counts those requests too.  Letting one in happens below  *)
(* the cap, logging turns it into a row, and time only takes rows away.    *)
(***************************************************************************)
EXTENDS WriteQuota, FiniteSetTheorems, TLAPS

(* the attribution apiKeyMiddleware and the PATCH handler give an edit *)
Proper(q) ==
    \/ q.author = q.by /\ q.owner \in {q.by, Forwarder}
    \/ q.author = Nobody /\ q.owner = q.by

InFlight(u) == {s \in Slots : job[s] # Free /\ job[s].by = u}

Within == \A u \in Users :
    Cardinality(Edited(u)) + Cardinality(InFlight(u))
        <= MaxWrites - 1 + Cardinality(Slots)

QuotaInv ==
    /\ TypeOK
    /\ IsFiniteSet(rows)
    /\ \A s \in Slots : job[s] # Free => Proper(job[s])
    /\ \A m \in rows : Proper(m.request)
    /\ Within

-----------------------------------------------------------------------------

(* Properly attributed rows are counted against their editor and no other. *)
LEMMA CountIsFair ==
  ASSUME rows \subseteq Mutation, \A m \in rows : Proper(m.request)
  PROVE  OnlyOwnEditsCount
  <1> SUFFICES ASSUME NEW u \in Users, NEW m \in rows
               PROVE  Names(m, u) <=> m.request.by = u
    BY DEF OnlyOwnEditsCount, Counted, Counts, Edited
  <1>1. m.request \in Request
    BY DEF Mutation
  <1>2. m.request.by \in Users /\ Proper(m.request)
    BY <1>1 DEF Request
  <1> QED
    BY <1>2, QuotaOK DEF Names, Proper

(* Slots and rows that satisfy a condition are finite sets.                *)
LEMMA Finite ==
  ASSUME IsFiniteSet(rows), NEW u
  PROVE  /\ IsFiniteSet(Edited(u)) /\ Cardinality(Edited(u)) \in Nat
         /\ IsFiniteSet(InFlight(u)) /\ Cardinality(InFlight(u)) \in Nat
         /\ Cardinality(InFlight(u)) <= Cardinality(Slots)
         /\ Cardinality(Slots) \in Nat
  <1>1. Edited(u) \subseteq rows /\ InFlight(u) \subseteq Slots
    BY DEF Edited, InFlight
  <1> QED
    BY <1>1, QuotaOK, FS_Subset, FS_CardinalityType

-----------------------------------------------------------------------------

LEMMA InitOK == Init => QuotaInv
  <1> SUFFICES ASSUME Init PROVE QuotaInv
    OBVIOUS
  <1>1. TypeOK
    BY DEF Init, TypeOK
  <1>2. IsFiniteSet(rows)
    BY FS_EmptySet DEF Init
  <1>3. Within
    <2> SUFFICES ASSUME NEW u \in Users
                 PROVE  Cardinality(Edited(u)) + Cardinality(InFlight(u))
                          <= MaxWrites - 1 + Cardinality(Slots)
      BY DEF Within
    <2>1. Edited(u) = {} /\ InFlight(u) = {}
      BY DEF Init, Edited, InFlight
    <2>2. Cardinality(Slots) \in Nat
      BY <1>2, Finite
    <2> QED
      BY <2>1, <2>2, FS_EmptySet, QuotaOK
  <1> QED
    BY <1>1, <1>2, <1>3 DEF QuotaInv, Init

(* A request let in finds fewer rows than the cap.                         *)
LEMMA AdmitKeeps ==
  ASSUME QuotaInv, NEW s \in Slots, NEW q \in Request, Proper(q), Admit(s, q)
  PROVE  QuotaInv'
  <1>1. TypeOK'
    BY DEF QuotaInv, TypeOK, Admit
  <1>2. job' = [job EXCEPT ![s] = q] /\ rows' = rows /\ now' = now
    BY DEF Admit
  <1>3. \A t \in Slots : job'[t] # Free => Proper(job'[t])
    BY <1>2 DEF QuotaInv, TypeOK
  <1>4. Within'
    <2> SUFFICES ASSUME NEW u \in Users
                 PROVE  Cardinality(Edited(u)') + Cardinality(InFlight(u)')
                          <= MaxWrites - 1 + Cardinality(Slots)
      BY DEF Within
    <2>1. Edited(u)' = Edited(u)
      BY <1>2 DEF Edited
    <2>2. /\ Cardinality(Edited(u)) \in Nat /\ Cardinality(InFlight(u)) \in Nat
          /\ Cardinality(Slots) \in Nat
      BY Finite DEF QuotaInv
    <2>3. Cardinality(InFlight(u)') \in Nat /\ Cardinality(InFlight(u)') <= Cardinality(Slots)
      <3>1. InFlight(u)' \subseteq Slots
        BY DEF InFlight
      <3> QED
        BY <3>1, QuotaOK, FS_Subset, FS_CardinalityType
    <2>4. CASE u = q.by
      <3>1. Cardinality(Counted(u)) < MaxWrites
        BY <2>4 DEF Admit, UnderCap
      <3>2. Counted(u) = Edited(u)
        BY CountIsFair DEF QuotaInv, TypeOK, OnlyOwnEditsCount
      <3> QED
        BY <2>1, <2>2, <2>3, <3>1, <3>2, QuotaOK
    <2>5. CASE u # q.by
      <3>1. InFlight(u)' \subseteq InFlight(u)
        BY <1>2, <2>5 DEF InFlight, QuotaInv, TypeOK
      <3>2. Cardinality(InFlight(u)') <= Cardinality(InFlight(u))
        BY <3>1, Finite, FS_Subset DEF QuotaInv
      <3>3. Cardinality(Edited(u)) + Cardinality(InFlight(u))
              <= MaxWrites - 1 + Cardinality(Slots)
        BY DEF QuotaInv, Within
      <3> QED
        BY <2>1, <2>2, <2>3, <3>2, <3>3, QuotaOK
    <2> QED
      BY <2>4, <2>5
  <1> QED
    BY <1>1, <1>2, <1>3, <1>4 DEF QuotaInv

(* A row replaces the request that logs it.                                *)
LEMMA LogKeeps ==
  ASSUME QuotaInv, NEW s \in Slots, Log(s)
  PROVE  QuotaInv'
  <1> DEFINE m == [id |-> Cardinality(rows) + 1, at |-> now, request |-> job[s]]
  <1>1. /\ job[s] # Free /\ now' = now
        /\ rows' = rows \cup {m} /\ job' = [job EXCEPT ![s] = Free]
    BY DEF Log
  <1>2. job[s] \in Request /\ Proper(job[s])
    BY <1>1 DEF QuotaInv, TypeOK
  <1>3. m \in Mutation /\ m.request = job[s] /\ m.at = now
    <2>1. Cardinality(rows) \in Nat
      BY FS_CardinalityType DEF QuotaInv
    <2> QED
      BY <1>2, <2>1 DEF Mutation, QuotaInv, TypeOK
  <1> HIDE DEF m
  <1>4. TypeOK'
    BY <1>1, <1>3 DEF QuotaInv, TypeOK
  <1>5. IsFiniteSet(rows')
    BY <1>1, FS_AddElement DEF QuotaInv
  <1>6. \A t \in Slots : job'[t] # Free => Proper(job'[t])
    BY <1>1 DEF QuotaInv, TypeOK
  <1>7. \A n \in rows' : Proper(n.request)
    BY <1>1, <1>2, <1>3 DEF QuotaInv
  <1>8. Within'
    <2> SUFFICES ASSUME NEW u \in Users
                 PROVE  Cardinality(Edited(u)') + Cardinality(InFlight(u)')
                          <= MaxWrites - 1 + Cardinality(Slots)
      BY DEF Within
    <2>1. /\ Cardinality(Edited(u)) \in Nat /\ Cardinality(InFlight(u)) \in Nat
          /\ IsFiniteSet(Edited(u)) /\ IsFiniteSet(InFlight(u))
          /\ Cardinality(Slots) \in Nat
      BY Finite DEF QuotaInv
    <2>2. Cardinality(Edited(u)) + Cardinality(InFlight(u))
            <= MaxWrites - 1 + Cardinality(Slots)
      BY DEF QuotaInv, Within
    <2>3. CASE job[s].by = u
      <3>1. Edited(u)' \subseteq Edited(u) \cup {m}
        BY <1>1 DEF Edited
      <3>2. InFlight(u)' = InFlight(u) \ {s} /\ s \in InFlight(u)
        BY <1>1, <2>3 DEF InFlight, QuotaInv, TypeOK
      <3>3. Cardinality(InFlight(u)') = Cardinality(InFlight(u)) - 1
        BY <2>1, <3>2, FS_RemoveElement
      <3>4. Cardinality(Edited(u) \cup {m}) <= Cardinality(Edited(u)) + 1
            /\ IsFiniteSet(Edited(u) \cup {m})
        <4> DEFINE E == Edited(u)
        <4>1. /\ IsFiniteSet(E \cup {m})
              /\ \/ Cardinality(E \cup {m}) = Cardinality(E)
                 \/ Cardinality(E \cup {m}) = Cardinality(E) + 1
          <5> HIDE DEF E
          <5>1. IsFiniteSet(E)
            BY <2>1 DEF E
          <5> QED
            BY <5>1, FS_AddElement
        <4> QED
          BY <2>1, <4>1
      <3>5. Cardinality(Edited(u)') <= Cardinality(Edited(u) \cup {m})
        BY <3>1, <3>4, FS_Subset
      <3>6. Cardinality(Edited(u)') \in Nat /\ Cardinality(Edited(u) \cup {m}) \in Nat
        BY <3>1, <3>4, FS_Subset, FS_CardinalityType
      <3> QED
        BY <2>1, <2>2, <3>3, <3>4, <3>5, <3>6, QuotaOK
    <2>4. CASE job[s].by # u
      <3>1. Edited(u)' = Edited(u)
        BY <1>1, <1>3, <2>4 DEF Edited
      <3>2. InFlight(u)' = InFlight(u)
        BY <1>1, <2>4 DEF InFlight, QuotaInv, TypeOK
      <3> QED
        BY <2>2, <3>1, <3>2
    <2> QED
      BY <2>3, <2>4
  <1> QED
    BY <1>4, <1>5, <1>6, <1>7, <1>8 DEF QuotaInv

(* When a request ends without a row, or time passes, both counts can only *)
(* fall.                                                                   *)
LEMMA OthersKeep ==
  ASSUME QuotaInv,
         (\E s \in Slots : EndWithoutRow(s)) \/ Tick \/ UNCHANGED vars
  PROVE  QuotaInv'
  <1>1. rows' = rows /\ now' \in Nat /\ now' >= now /\ now \in Nat
    BY DEF QuotaInv, TypeOK, EndWithoutRow, Tick, vars
  <1>2. /\ job' \in [Slots -> Request \cup {Free}]
        /\ \A t \in Slots : job'[t] = job[t] \/ job'[t] = Free
    BY DEF QuotaInv, TypeOK, EndWithoutRow, Tick, vars
  <1>3. TypeOK'
    BY <1>1, <1>2 DEF QuotaInv, TypeOK
  <1>4. Within'
    <2> SUFFICES ASSUME NEW u \in Users
                 PROVE  Cardinality(Edited(u)') + Cardinality(InFlight(u)')
                          <= MaxWrites - 1 + Cardinality(Slots)
      BY DEF Within
    <2>1. Edited(u)' \subseteq Edited(u)
      <3> SUFFICES ASSUME NEW m \in rows, m.at + Window > now'
                   PROVE  m.at + Window > now
        BY <1>1 DEF Edited
      <3>1. m.at \in Nat
        BY DEF QuotaInv, TypeOK, Mutation
      <3> QED
        BY <1>1, <3>1, QuotaOK
    <2>2. InFlight(u)' \subseteq InFlight(u)
      BY <1>2 DEF InFlight
    <2>3. /\ Cardinality(Edited(u)) \in Nat /\ Cardinality(InFlight(u)) \in Nat
          /\ IsFiniteSet(Edited(u)) /\ IsFiniteSet(InFlight(u))
          /\ Cardinality(Slots) \in Nat
      BY Finite DEF QuotaInv
    <2>4. /\ Cardinality(Edited(u)') <= Cardinality(Edited(u))
          /\ IsFiniteSet(Edited(u)') /\ Cardinality(Edited(u)') \in Nat
      BY <2>1, <2>3, FS_Subset, FS_CardinalityType
    <2>5. /\ Cardinality(InFlight(u)') <= Cardinality(InFlight(u))
          /\ IsFiniteSet(InFlight(u)') /\ Cardinality(InFlight(u)') \in Nat
      BY <2>2, <2>3, FS_Subset, FS_CardinalityType
    <2>6. Cardinality(Edited(u)) + Cardinality(InFlight(u))
            <= MaxWrites - 1 + Cardinality(Slots)
      BY DEF QuotaInv, Within
    <2> QED
      BY <2>3, <2>4, <2>5, <2>6, QuotaOK
  <1> QED
    BY <1>1, <1>2, <1>3, <1>4 DEF QuotaInv

-----------------------------------------------------------------------------

THEOREM AlwaysQuotaInv == Spec => []QuotaInv
  <1>1. QuotaInv /\ [Next]_vars => QuotaInv'
    <2> SUFFICES ASSUME QuotaInv, [Next]_vars PROVE QuotaInv'
      OBVIOUS
    <2>1. ASSUME NEW s \in Slots, NEW u \in Users, AdmitKey(s, u)
          PROVE  QuotaInv'
      <3>1. PICK a \in {u, Nobody} : Admit(s, [author |-> a, owner |-> u, by |-> u])
        BY <2>1 DEF AdmitKey
      <3> DEFINE q == [author |-> a, owner |-> u, by |-> u]
      <3>2. q \in Request /\ Proper(q)
        BY DEF Request, Proper
      <3> QED
        BY <3>1, <3>2, AdmitKeeps
    <2>2. ASSUME NEW s \in Slots, NEW u \in Users, AdmitChat(s, u)
          PROVE  QuotaInv'
      <3> DEFINE q == [author |-> u, owner |-> Forwarder, by |-> u]
      <3>1. q \in Request /\ Proper(q)
        BY DEF Request, Proper
      <3> QED
        BY <2>2, <3>1, AdmitKeeps DEF AdmitChat
    <2>3. ASSUME NEW s \in Slots, Log(s) PROVE QuotaInv'
      BY <2>3, LogKeeps
    <2> QED
      BY <2>1, <2>2, <2>3, OthersKeep DEF Next
  <1> QED
    BY InitOK, <1>1, PTL DEF Spec

(* Every reachable state is well typed: a slot is free or serves a request *)
(* the middleware let in, and every row records one such request           *)
(* (rate-limit-writes.ts:25-59).                                           *)
THEOREM QuotaTypes == Spec => []TypeOK
  <1>1. QuotaInv => TypeOK
    BY DEF QuotaInv
  <1> QED
    BY <1>1, AlwaysQuotaInv, PTL

(* The cap of rate-limit-writes.ts holds up to the requests in flight.     *)
THEOREM CapHolds == Spec => []CapHoldsButForInFlight
  <1>1. QuotaInv => CapHoldsButForInFlight
    <2> SUFFICES ASSUME QuotaInv, NEW u \in Users
                 PROVE  Cardinality(Edited(u)) <= MaxWrites - 1 + Cardinality(Slots)
      BY DEF CapHoldsButForInFlight
    <2>1. /\ Cardinality(Edited(u)) \in Nat /\ Cardinality(InFlight(u)) \in Nat
          /\ Cardinality(Slots) \in Nat
      BY Finite DEF QuotaInv
    <2> QED
      BY <2>1, QuotaOK DEF QuotaInv, Within
  <1> QED
    BY <1>1, AlwaysQuotaInv, PTL

(* The count holds a user's own edits against the user and nothing else.   *)
THEOREM OwnEditsCount == Spec => []OnlyOwnEditsCount
  <1>1. QuotaInv => OnlyOwnEditsCount
    BY CountIsFair DEF QuotaInv, TypeOK
  <1> QED
    BY <1>1, AlwaysQuotaInv, PTL
=============================================================================
