---------------------- MODULE ProjectPersistenceProofs ----------------------
(* Proofs about ProjectPersistence, for any tabs, edits and mounts. *)
EXTENDS ProjectPersistence, WellFoundedInduction, TLAPS

(* Only a signed-in tab waits for its load, and hydrates when it answers;  *)
(* a closed tab holds nothing.                                             *)
LoadInv ==
    \A t \in Tabs :
        /\ load[t] # "idle" => auth[t] = "user" /\ hydrated[t] = FALSE
        /\ auth[t] = "closed" => load[t] = "idle" /\ hydrated[t] = FALSE

(* The parts of TypeOK: the stores, the bounds and what is on its way ...  *)
StoresOK ==
    /\ session \in {"guest", "user"}
    /\ server \in Saved /\ local \in Saved
    /\ puts \subseteq Put
    /\ made \in 0..MaxEdits /\ mounts \in 0..MaxMounts
    /\ owed \subseteq 1..made

(* ... the tabs ... *)
TabsOK ==
    /\ auth \in [Tabs -> {"closed", "loading", "guest", "user"}]
    /\ load \in [Tabs -> {"idle", "sent", "read"}]
    /\ initial \in [Tabs -> Saved] /\ canvas \in [Tabs -> Content] /\ pending \in [Tabs -> Saved]
    /\ \A t \in Tabs : pending[t] # None => auth[t] # "closed" /\ pending[t] \subseteq canvas[t]

(* ... the flags of the tabs ... *)
FlagsOK ==
    hydrated \in [Tabs -> BOOLEAN] /\ turn \in [Tabs -> BOOLEAN] /\ prompt \in [Tabs -> BOOLEAN]

(* ... and the migrations, which end with their page. *)
MovesOK == \A p \in puts : p.mover # None => auth[p.mover] = "user"

Shows ==
    \A t \in Tabs :
        auth[t] # "closed" /\ load[t] = "idle" /\ initial[t] # None
            => hydrated[t] = TRUE /\ initial[t] \subseteq canvas[t]

IInv == StoresOK /\ TabsOK /\ FlagsOK /\ MovesOK /\ LoadInv /\ Shows

-----------------------------------------------------------------------------
(* Contents *)

LEMMA Contents ==
  /\ \A S \in Content : S \in Saved /\ S # None /\ In(S) = S
  /\ \A S \in Saved : In(S) \in Content /\ (S # None => S \in Content /\ In(S) = S)
  /\ None \in Saved /\ {} \in Content
  BY ProjectOK DEF ProjectOK, Content, Saved, In

(* One tab's flag is set. *)
LEMMA FlagSet ==
  ASSUME NEW f \in [Tabs -> BOOLEAN], NEW t \in Tabs, NEW b \in BOOLEAN
  PROVE  /\ [f EXCEPT ![t] = b] \in [Tabs -> BOOLEAN]
         /\ [f EXCEPT ![t] = b][t] = b
         /\ \A u \in Tabs \ {t} : [f EXCEPT ![t] = b][u] = f[u]
  OBVIOUS

(* The ids in use are bounded, so there is a largest one. *)
BoundedIds == \E b \in Nat : \A p \in puts : p.id <= b

LEMMA NextIdType ==
  ASSUME puts \subseteq Put, BoundedIds
  PROVE  NextId \in Nat /\ \A p \in puts : p.id < NextId
<1>1. CASE puts = {}
  BY <1>1 DEF NextId
<1>2. CASE puts # {}
  <2> DEFINE ids == {p.id : p \in puts}
  <2> DEFINE T == {b \in Nat : \A i \in ids : i <= b}
  <2>1. ids \subseteq Nat /\ ids # {} /\ T # {} /\ T \subseteq Nat
    BY <1>2 DEF BoundedIds, Put
  <2> HIDE DEF ids
  <2>2. PICK m \in T : \A y \in T : ~(<<y, m>> \in OpToRel(<, Nat))
    <3> HIDE DEF T
    <3> QED
      BY <2>1, NatLessThanWellFounded, WFMin, Zenon
  <2>3. \A y \in T : ~(y < m)
    BY <2>2 DEF OpToRel
  <2>4. m \in ids
    <3> SUFFICES ASSUME m \notin ids PROVE FALSE
      OBVIOUS
    <3>1. PICK i \in ids : i \in Nat
      BY <2>1
    <3>2. m \in Nat /\ \A j \in ids : j \in Nat /\ j <= m /\ j # m
      BY <2>1, <2>2
    <3>3. m - 1 \in Nat /\ m - 1 < m
      BY <3>1, <3>2
    <3>4. m - 1 \in T
      BY <3>2, <3>3
    <3> QED
      BY <2>3, <3>3, <3>4
  <2>5. \E n \in ids : \A p \in puts : p.id <= n
    BY <2>2, <2>4 DEF ids
  <2> DEFINE n == CHOOSE n \in ids : \A p \in puts : p.id <= n
  <2>6. n \in ids /\ \A p \in puts : p.id <= n
    BY <2>5
  <2>7. NextId = 1 + n
    BY <1>2 DEF NextId, ids
  <2> HIDE DEF n
  <2>8. \A p \in puts : p.id \in Nat
    BY DEF Put
  <2> QED
    BY <2>1, <2>6, <2>7, <2>8
<1> QED
  BY <1>1, <1>2

Bounded(P) == \E b \in Nat : \A p \in P : p.id <= b

(* store.save: what is kept, and at most one PUT that moves nothing. *)
LEMMA Saves ==
  ASSUME StoresOK, BoundedIds, NEW t \in Tabs, NEW S \in Content,
         NEW kept \in SUBSET Put, Bounded(kept), SaveTo(kept, t, S)
  PROVE  /\ local' \in Saved /\ puts' \subseteq Put /\ Bounded(puts')
         /\ \A p \in puts' : p \in kept \/ p.mover = None
<1> DEFINE new == [id |-> NextId, edits |-> S, mover |-> None]
<1>1. \/ puts' = kept \cup {new} /\ local' = local
      \/ puts' = kept /\ local' \in {S, local}
  BY Zenon DEF SaveTo, StoreLocally
<1>2. NextId \in Nat
  BY NextIdType DEF StoresOK
<1>3. new \in Put /\ new.id = NextId /\ new.mover = None
  BY <1>2 DEF Put
<1> HIDE DEF new
<1>4. S \in Saved /\ local \in Saved
  BY Contents DEF StoresOK
<1>5. PICK b \in Nat : \A p \in kept : p.id <= b
  BY DEF Bounded
<1>6. \A p \in kept : p.id \in Nat
  BY DEF Put
<1>7. \A p \in kept \cup {new} : p.id <= b + NextId
  BY <1>2, <1>3, <1>5, <1>6
<1>8. b + NextId \in Nat
  BY <1>2
<1>9. Bounded(kept \cup {new}) /\ Bounded(kept)
  BY <1>7, <1>8 DEF Bounded
<1> QED
  BY <1>1, <1>3, <1>4, <1>9

(* The PUTs of a page that goes: the same ids, and nothing moves. *)
LEMMA OrphanedType ==
  ASSUME StoresOK, BoundedIds, NEW t \in Tabs
  PROVE  /\ Orphaned(t) \subseteq Put /\ Bounded(Orphaned(t))
         /\ \A p \in Orphaned(t) : p.mover # None => p \in puts /\ p.mover # t
<1>1. ASSUME NEW p \in puts
      PROVE  [p EXCEPT !.mover = None] \in Put /\ [p EXCEPT !.mover = None].id = p.id
                /\ [p EXCEPT !.mover = None].mover = None
  BY DEF StoresOK, Put
<1>2. puts \subseteq Put
  BY DEF StoresOK
<1>3. ASSUME NEW q \in Orphaned(t)
      PROVE  /\ q \in Put /\ \E p \in puts : q.id = p.id
             /\ q.mover # None => q \in puts /\ q.mover # t
  BY <1>1, <1>2 DEF Orphaned
<1>4. PICK b \in Nat : \A p \in puts : p.id <= b
  BY DEF BoundedIds
<1>5. \A q \in Orphaned(t) : q.id <= b
  BY <1>3, <1>4
<1> QED
  BY <1>3, <1>5 DEF Bounded

-----------------------------------------------------------------------------
(* The steps that leave the tabs alone, up to a timer *)

(* What a tab shows does not depend on its timer, its agent or its prompt. *)
LEMMA ShowsFrame ==
  ASSUME LoadInv, Shows,
         UNCHANGED auth, UNCHANGED load, UNCHANGED initial, UNCHANGED hydrated, UNCHANGED canvas
  PROVE  LoadInv' /\ Shows'
  BY Zenon DEF LoadInv, Shows

LEMMA FlagsFrame ==
  ASSUME FlagsOK, UNCHANGED hydrated, UNCHANGED turn, UNCHANGED prompt
  PROVE  FlagsOK'
  BY Zenon DEF FlagsOK

LEMMA TimerKeeps ==
  ASSUME IInv, BoundedIds, NEW t \in Tabs, TimerFires(t)
  PROVE  IInv' /\ BoundedIds'
<1>1. SaveTo(puts, t, pending[t])
  BY Zenon DEF TimerFires
<1>2. pending[t] # None /\ pending' = [pending EXCEPT ![t] = None]
  BY Zenon DEF TimerFires, TimerRuns
<1>3. pending[t] \in Content /\ puts \subseteq Put /\ Bounded(puts)
  BY <1>2, Contents DEF IInv, TabsOK, StoresOK, BoundedIds, Bounded
<1>4. /\ local' \in Saved /\ puts' \subseteq Put /\ Bounded(puts')
      /\ \A p \in puts' : p \in puts \/ p.mover = None
  BY <1>1, <1>3, Saves, Zenon DEF IInv
<1>5. /\ session' = session /\ server' = server /\ auth' = auth /\ load' = load
      /\ initial' = initial /\ hydrated' = hydrated /\ canvas' = canvas /\ turn' = turn
      /\ prompt' = prompt /\ made' = made /\ mounts' = mounts /\ owed' = owed
  BY Zenon DEF TimerFires, bounds
<1>6. StoresOK' /\ BoundedIds'
  BY <1>4, <1>5 DEF IInv, StoresOK, BoundedIds, Bounded
<1>7. TabsOK'
  BY <1>2, <1>5, Contents DEF IInv, TabsOK
<1>8. FlagsOK' /\ LoadInv' /\ Shows'
  BY <1>5, FlagsFrame, ShowsFrame, Zenon DEF IInv
<1>9. MovesOK'
  BY <1>4, <1>5 DEF IInv, MovesOK
<1> QED
  BY <1>6, <1>7, <1>8, <1>9, Zenon DEF IInv

LEMMA EndsKeeps ==
  ASSUME IInv, BoundedIds, NEW p \in puts, Land(p) \/ Lose(p)
  PROVE  IInv' /\ BoundedIds'
<1>1. /\ puts' = puts \ {p} /\ local' \in {None, local} /\ server' \in {server, p.edits}
      /\ session' = session /\ made' = made /\ mounts' = mounts /\ owed' = owed
  BY Zenon DEF Land, Lose, Ends
<1>2. /\ auth' = auth /\ load' = load /\ initial' = initial /\ hydrated' = hydrated
      /\ canvas' = canvas /\ pending' = pending /\ turn' = turn /\ prompt' = prompt
  BY Zenon DEF Land, Lose, Ends, tabs
<1>3. p.edits \in Saved /\ None \in Saved
  BY Contents DEF IInv, StoresOK, Put
<1>4. StoresOK' /\ BoundedIds'
  BY <1>1, <1>3 DEF IInv, StoresOK, BoundedIds
<1>5. TabsOK'
  BY <1>2, Zenon DEF IInv, TabsOK
<1>6. FlagsOK' /\ LoadInv' /\ Shows'
  BY <1>2, FlagsFrame, ShowsFrame, Zenon DEF IInv
<1>7. MovesOK'
  BY <1>1, <1>2 DEF IInv, MovesOK
<1> QED
  BY <1>4, <1>5, <1>6, <1>7, Zenon DEF IInv

LEMMA SignInKeeps ==
  ASSUME IInv, BoundedIds, SignIn
  PROVE  IInv' /\ BoundedIds'
<1>1. /\ session' = "user" /\ server' = server /\ local' = local /\ puts' = puts /\ made' = made
      /\ mounts' = mounts /\ owed' = owed
  BY Zenon DEF SignIn, bounds
<1>2. /\ auth' = auth /\ load' = load /\ initial' = initial /\ hydrated' = hydrated
      /\ canvas' = canvas /\ pending' = pending /\ turn' = turn /\ prompt' = prompt
  BY Zenon DEF SignIn, tabs
<1>3. StoresOK' /\ BoundedIds'
  BY <1>1 DEF IInv, StoresOK, BoundedIds
<1>4. TabsOK' /\ MovesOK'
  BY <1>1, <1>2, Zenon DEF IInv, TabsOK, MovesOK
<1>5. FlagsOK' /\ LoadInv' /\ Shows'
  BY <1>2, FlagsFrame, ShowsFrame, Zenon DEF IInv
<1> QED
  BY <1>3, <1>4, <1>5, Zenon DEF IInv

LEMMA TurnKeeps ==
  ASSUME IInv, BoundedIds, NEW t \in Tabs, StartTurn(t) \/ EndTurn(t)
  PROVE  IInv' /\ BoundedIds'
<1>1. /\ session' = session /\ server' = server /\ local' = local /\ puts' = puts /\ made' = made
      /\ mounts' = mounts /\ owed' = owed
  BY Zenon DEF StartTurn, EndTurn, bounds
<1>2. /\ auth' = auth /\ load' = load /\ initial' = initial /\ hydrated' = hydrated
      /\ canvas' = canvas /\ pending' = pending /\ prompt' = prompt
  BY Zenon DEF StartTurn, EndTurn
<1>3. turn' = [turn EXCEPT ![t] = TRUE] \/ turn' = [turn EXCEPT ![t] = FALSE]
  BY Zenon DEF StartTurn, EndTurn
<1>4. StoresOK' /\ BoundedIds'
  BY <1>1 DEF IInv, StoresOK, BoundedIds
<1>5. TabsOK' /\ MovesOK'
  BY <1>1, <1>2, Zenon DEF IInv, TabsOK, MovesOK
<1>6. LoadInv' /\ Shows'
  BY <1>2, ShowsFrame, Zenon DEF IInv
<1>7. turn' \in [Tabs -> BOOLEAN]
  BY <1>3, FlagSet, Zenon DEF IInv, FlagsOK
<1>8. FlagsOK'
  BY <1>2, <1>7, Zenon DEF IInv, FlagsOK
<1> QED
  BY <1>4, <1>5, <1>6, <1>8, Zenon DEF IInv

-----------------------------------------------------------------------------
(* The steps of one tab *)

(* One tab's part of LoadInv and Shows, from what it holds after the step; *)
(* the other tabs are as they were.                                        *)
TabInv(t) ==
    /\ load[t] # "idle" => auth[t] = "user" /\ hydrated[t] = FALSE
    /\ auth[t] = "closed" => load[t] = "idle" /\ hydrated[t] = FALSE
    /\ auth[t] # "closed" /\ load[t] = "idle" /\ initial[t] # None
          => hydrated[t] = TRUE /\ initial[t] \subseteq canvas[t]

LEMMA TabInvs == LoadInv /\ Shows <=> \A t \in Tabs : TabInv(t)
  BY Zenon DEF LoadInv, Shows, TabInv

LEMMA TabFrame ==
  ASSUME NEW u, TabInv(u), auth'[u] = auth[u], load'[u] = load[u], initial'[u] = initial[u],
         hydrated'[u] = hydrated[u], canvas'[u] = canvas[u]
  PROVE  TabInv(u)'
  BY Zenon DEF TabInv

LEMMA EditKeeps ==
  ASSUME IInv, BoundedIds, NEW t \in Tabs, Edit(t)
  PROVE  IInv' /\ BoundedIds'
<1> DEFINE shown == canvas[t] \cup {made + 1}
<1>1. /\ session' = session /\ server' = server /\ local' = local /\ puts' = puts
      /\ mounts' = mounts /\ auth' = auth /\ load' = load /\ initial' = initial
      /\ hydrated' = hydrated /\ turn' = turn /\ prompt' = prompt
  BY Zenon DEF Edit
<1>2. /\ auth[t] # "closed" /\ made < MaxEdits /\ made' = made + 1
      /\ canvas' = [canvas EXCEPT ![t] = shown]
      /\ \/ pending' = [pending EXCEPT ![t] = shown] /\ owed' = owed \cup {made + 1}
         \/ pending' = pending /\ owed' = owed
  BY Zenon DEF Edit, Open
<1>3. made' \in 0..MaxEdits /\ made + 1 \in Edits /\ owed' \subseteq 1..made'
  <2>1. MaxEdits \in Nat /\ made \in Nat /\ owed \subseteq 1..made
    BY ProjectOK DEF ProjectOK, IInv, StoresOK
  <2>2. made + 1 \in 1..MaxEdits /\ made' \in 0..MaxEdits
    BY <1>2, <2>1
  <2>3. owed' = owed \/ owed' = owed \cup {made + 1}
    BY <1>2
  <2>4. owed' \subseteq 1..made'
    <3>1. \A e \in 1..made : e \in 1..made'
      BY <1>2, <2>1
    <3>2. made + 1 \in 1..made'
      BY <1>2, <2>1
    <3> QED
      BY <2>1, <2>3, <3>1, <3>2
  <2> QED
    BY <2>2, <2>4 DEF Edits
<1>4. shown \in Content /\ shown \in Saved /\ canvas[t] \subseteq shown
  BY <1>3 DEF IInv, TabsOK, Content, Saved
<1> HIDE DEF shown
<1>5. StoresOK' /\ BoundedIds'
  BY <1>1, <1>3 DEF IInv, StoresOK, BoundedIds
<1>6. TabsOK'
  BY <1>1, <1>2, <1>4 DEF IInv, TabsOK
<1>7. MovesOK' /\ FlagsOK'
  BY <1>1, FlagsFrame, Zenon DEF IInv, MovesOK
<1>8. ASSUME NEW u \in Tabs
      PROVE  canvas[u] \subseteq canvas'[u]
  BY <1>2, <1>4 DEF IInv, TabsOK
<1>9. LoadInv' /\ Shows'
  <2>1. LoadInv'
    BY <1>1, Zenon DEF IInv, LoadInv
  <2>2. ASSUME NEW u \in Tabs, auth[u] # "closed", load[u] = "idle", initial[u] # None
        PROVE  hydrated[u] = TRUE /\ initial[u] \subseteq canvas'[u]
    <3>1. hydrated[u] = TRUE /\ initial[u] \subseteq canvas[u]
      BY <2>2, Zenon DEF IInv, Shows
    <3>2. initial[u] \subseteq canvas'[u]
      BY <3>1, <1>8
    <3> QED
      BY <3>1, <3>2, Zenon
  <2>3. Shows'
    BY <1>1, <2>2, Zenon DEF Shows
  <2> QED
    BY <2>1, <2>3
<1> QED
  BY <1>5, <1>6, <1>7, <1>9, Zenon DEF IInv

LEMMA ReadKeeps ==
  ASSUME IInv, BoundedIds, NEW t \in Tabs, ReadRow(t)
  PROVE  IInv' /\ BoundedIds'
<1>1. /\ session' = session /\ server' = server /\ local' = local /\ puts' = puts /\ made' = made
      /\ mounts' = mounts /\ owed' = owed /\ auth' = auth /\ hydrated' = hydrated
      /\ canvas' = canvas /\ pending' = pending /\ turn' = turn /\ prompt' = prompt
  BY Zenon DEF ReadRow, bounds
<1>2. /\ load[t] = "sent" /\ load' = [load EXCEPT ![t] = "read"]
      /\ initial' = [initial EXCEPT ![t] = server]
  BY Zenon DEF ReadRow
<1>3. StoresOK' /\ BoundedIds'
  BY <1>1 DEF IInv, StoresOK, BoundedIds
<1>4. TabsOK'
  BY <1>1, <1>2 DEF IInv, TabsOK, StoresOK
<1>5. MovesOK' /\ FlagsOK'
  BY <1>1, FlagsFrame, Zenon DEF IInv, MovesOK
<1>6. load'[t] = "read" /\ \A u \in Tabs \ {t} : load'[u] = load[u] /\ initial'[u] = initial[u]
  BY <1>2 DEF IInv, TabsOK
<1>7. auth[t] = "user" /\ hydrated[t] = FALSE
  BY <1>2, Zenon DEF IInv, LoadInv
<1>8. TabInv(t)'
  BY <1>1, <1>6, <1>7, Zenon DEF TabInv
<1>9. \A u \in Tabs \ {t} : TabInv(u)'
  BY <1>1, <1>6, TabInvs, TabFrame, Zenon DEF IInv
<1>10. LoadInv' /\ Shows'
  <2>1. \A u \in Tabs : TabInv(u)'
    BY <1>8, <1>9
  <2> QED
    BY <2>1, Zenon DEF LoadInv, Shows, TabInv
<1> QED
  BY <1>3, <1>4, <1>5, <1>10, Zenon DEF IInv

LEMMA LoadedKeeps ==
  ASSUME IInv, BoundedIds, NEW t \in Tabs, NEW found \in Saved, load[t] # "idle", Loaded(t, found)
  PROVE  IInv' /\ BoundedIds'
<1>1. /\ session' = session /\ server' = server /\ local' = local /\ puts' = puts /\ made' = made
      /\ mounts' = mounts /\ owed' = owed /\ auth' = auth
  BY Zenon DEF Loaded
<1>2. /\ load' = [load EXCEPT ![t] = "idle"] /\ initial' = [initial EXCEPT ![t] = found]
      /\ hydrated' = [hydrated EXCEPT ![t] = TRUE] /\ prompt' = [prompt EXCEPT ![t] = FALSE]
  BY Zenon DEF Loaded
<1>3. auth[t] = "user" /\ hydrated[t] = FALSE
  BY Zenon DEF IInv, LoadInv
<1>4. \/ found = None /\ canvas' = canvas /\ pending' = pending
      \/ /\ found # None /\ canvas' = [canvas EXCEPT ![t] = found]
         /\ pending' = [pending EXCEPT ![t] = found]
  BY <1>3, Zenon DEF Loaded
<1>5. turn' = [turn EXCEPT ![t] = turn[t] \/ FiresPrompt(t, found)]
  BY Zenon DEF Loaded
<1>6. StoresOK' /\ BoundedIds'
  BY <1>1 DEF IInv, StoresOK, BoundedIds
<1>7. TabsOK'
  <2>1. found # None => found \in Content
    BY Contents
  <2>2. CASE canvas' = canvas /\ pending' = pending
    BY <1>1, <1>2, <2>2 DEF IInv, TabsOK
  <2>3. CASE /\ found # None /\ canvas' = [canvas EXCEPT ![t] = found]
             /\ pending' = [pending EXCEPT ![t] = found]
    BY <1>1, <1>2, <1>3, <2>1, <2>3 DEF IInv, TabsOK
  <2> QED
    BY <1>4, <2>2, <2>3
<1>8. FlagsOK'
  <2>1. hydrated' \in [Tabs -> BOOLEAN] /\ prompt' \in [Tabs -> BOOLEAN]
    BY <1>2, FlagSet, Zenon DEF IInv, FlagsOK
  <2>2. turn' \in [Tabs -> BOOLEAN]
    <3>1. (turn[t] \/ FiresPrompt(t, found)) \in BOOLEAN
      OBVIOUS
    <3> QED
      BY <1>5, <3>1, FlagSet, Zenon DEF IInv, FlagsOK
  <2> QED
    BY <2>1, <2>2, Zenon DEF FlagsOK
<1>9. MovesOK'
  BY <1>1, Zenon DEF IInv, MovesOK
<1>10. load'[t] = "idle" /\ initial'[t] = found /\ (found # None => found \subseteq canvas'[t])
  BY <1>2, <1>4 DEF IInv, TabsOK
<1>11. \A u \in Tabs \ {t} : load'[u] = load[u] /\ initial'[u] = initial[u] /\ canvas'[u] = canvas[u]
  BY <1>2, <1>4 DEF IInv, TabsOK
<1>12. hydrated'[t] = TRUE /\ \A u \in Tabs \ {t} : hydrated'[u] = hydrated[u]
  BY <1>2, FlagSet, Zenon DEF IInv, FlagsOK
<1>13. TabInv(t)'
  BY <1>1, <1>3, <1>10, <1>12, Zenon DEF TabInv
<1>14. \A u \in Tabs \ {t} : TabInv(u)'
  BY <1>1, <1>11, <1>12, TabInvs, TabFrame, Zenon DEF IInv
<1>15. LoadInv' /\ Shows'
  <2>1. \A u \in Tabs : TabInv(u)'
    BY <1>13, <1>14
  <2> QED
    BY <2>1, Zenon DEF LoadInv, Shows, TabInv
<1> QED
  BY <1>6, <1>7, <1>8, <1>9, <1>15, Zenon DEF IInv

LEMMA AnswerKeeps ==
  ASSUME IInv, BoundedIds, NEW t \in Tabs, Answer(t) \/ AnswerFails(t)
  PROVE  IInv' /\ BoundedIds'
<1>1. initial[t] \in Saved /\ None \in Saved
  BY Contents DEF IInv, TabsOK
<1>2. load[t] # "idle" /\ (Loaded(t, initial[t]) \/ Loaded(t, None))
  BY Zenon DEF Answer, AnswerFails
<1> QED
  BY <1>1, <1>2, LoadedKeeps, Zenon

LEMMA GuestKeeps ==
  ASSUME IInv, BoundedIds, NEW t \in Tabs, ResolveGuest(t)
  PROVE  IInv' /\ BoundedIds'
<1>1. /\ session' = session /\ server' = server /\ local' = local /\ puts' = puts /\ made' = made
      /\ mounts' = mounts /\ owed' = owed /\ load' = load /\ initial' = initial
      /\ canvas' = canvas /\ pending' = pending
  BY Zenon DEF ResolveGuest, bounds
<1>2. /\ auth[t] = "loading" /\ auth' = [auth EXCEPT ![t] = "guest"]
      /\ hydrated' = [hydrated EXCEPT ![t] = TRUE] /\ prompt' = [prompt EXCEPT ![t] = FALSE]
      /\ turn' = [turn EXCEPT ![t] = turn[t] \/ FiresPrompt(t, initial[t])]
  BY Zenon DEF ResolveGuest
<1>3. load[t] = "idle"
  <2>1. load[t] # "idle" => auth[t] = "user"
    BY Zenon DEF IInv, LoadInv
  <2> QED
    BY <1>2, <2>1
<1>4. StoresOK' /\ BoundedIds'
  BY <1>1 DEF IInv, StoresOK, BoundedIds
<1>5. TabsOK'
  BY <1>1, <1>2 DEF IInv, TabsOK
<1>6. FlagsOK'
  <2>1. hydrated' \in [Tabs -> BOOLEAN] /\ prompt' \in [Tabs -> BOOLEAN]
    BY <1>2, FlagSet, Zenon DEF IInv, FlagsOK
  <2>2. (turn[t] \/ FiresPrompt(t, initial[t])) \in BOOLEAN
    OBVIOUS
  <2>3. turn' \in [Tabs -> BOOLEAN]
    BY <1>2, <2>2, FlagSet, Zenon DEF IInv, FlagsOK
  <2> QED
    BY <2>1, <2>3, Zenon DEF FlagsOK
<1>7. MovesOK'
  BY <1>1, <1>2 DEF IInv, MovesOK, TabsOK, StoresOK, Put
<1>8. auth'[t] = "guest" /\ \A u \in Tabs \ {t} : auth'[u] = auth[u]
  BY <1>2 DEF IInv, TabsOK
<1>9. hydrated'[t] = TRUE /\ \A u \in Tabs \ {t} : hydrated'[u] = hydrated[u]
  BY <1>2, FlagSet, Zenon DEF IInv, FlagsOK
<1>10. initial[t] # None => initial[t] \subseteq canvas[t]
  BY <1>2, <1>3, Zenon DEF IInv, Shows
<1>11. TabInv(t)'
  BY <1>1, <1>3, <1>8, <1>9, <1>10, Zenon DEF TabInv
<1>12. \A u \in Tabs \ {t} : TabInv(u)'
  BY <1>1, <1>8, <1>9, TabInvs, TabFrame, Zenon DEF IInv
<1>13. LoadInv' /\ Shows'
  <2>1. \A u \in Tabs : TabInv(u)'
    BY <1>11, <1>12
  <2> QED
    BY <2>1, Zenon DEF LoadInv, Shows, TabInv
<1> QED
  BY <1>4, <1>5, <1>6, <1>7, <1>13, Zenon DEF IInv

LEMMA UserKeeps ==
  ASSUME IInv, BoundedIds, NEW t \in Tabs, ResolveUser(t)
  PROVE  IInv' /\ BoundedIds'
<1> DEFINE new == [id |-> NextId, edits |-> local, mover |-> t]
<1>1. /\ session' = session /\ server' = server /\ local' = local /\ made' = made
      /\ mounts' = mounts /\ owed' = owed /\ canvas' = canvas /\ pending' = pending
  BY Zenon DEF ResolveUser, bounds
<1>2. /\ auth[t] \in {"loading", "guest"} /\ auth' = [auth EXCEPT ![t] = "user"]
      /\ load' = [load EXCEPT ![t] = "sent"] /\ initial' = [initial EXCEPT ![t] = None]
  BY Zenon DEF ResolveUser
<1>3. /\ hydrated' = [hydrated EXCEPT ![t] = FALSE] /\ prompt' = [prompt EXCEPT ![t] = FALSE]
      /\ turn' = [turn EXCEPT ![t] = turn[t] \/ FiresPrompt(t, initial[t])]
  BY Zenon DEF ResolveUser, HydratedAfterSwap
<1>4. puts' = puts \/ (local # None /\ puts' = puts \cup {new})
  BY Zenon DEF ResolveUser, LocalAnswers
<1>5. NextId \in Nat /\ puts \subseteq Put
  BY NextIdType DEF IInv, StoresOK
<1>6. local # None => new \in Put /\ new.id = NextId /\ new.mover = t
  BY <1>5, Contents DEF IInv, StoresOK, Put
<1> HIDE DEF new
<1>7. StoresOK' /\ BoundedIds'
  <2>1. puts' \subseteq Put
    BY <1>4, <1>5, <1>6
  <2>2. PICK b \in Nat : \A p \in puts : p.id <= b
    BY DEF BoundedIds
  <2>3. \A p \in puts : p.id \in Nat
    BY <1>5 DEF Put
  <2>4. \A p \in puts' : p.id <= b + NextId
    BY <1>4, <1>5, <1>6, <2>2, <2>3
  <2>5. b + NextId \in Nat
    BY <1>5
  <2>6. BoundedIds'
    BY <2>4, <2>5 DEF BoundedIds
  <2> QED
    BY <1>1, <2>1, <2>6 DEF IInv, StoresOK
<1>8. TabsOK'
  BY <1>1, <1>2, Contents DEF IInv, TabsOK
<1>9. FlagsOK'
  <2>1. hydrated' \in [Tabs -> BOOLEAN] /\ prompt' \in [Tabs -> BOOLEAN]
    BY <1>3, FlagSet, Zenon DEF IInv, FlagsOK
  <2>2. (turn[t] \/ FiresPrompt(t, initial[t])) \in BOOLEAN
    OBVIOUS
  <2>3. turn' \in [Tabs -> BOOLEAN]
    BY <1>3, <2>2, FlagSet, Zenon DEF IInv, FlagsOK
  <2> QED
    BY <2>1, <2>3, Zenon DEF FlagsOK
<1>10. \A u \in Tabs : auth'[u] = "user" \/ auth'[u] = auth[u]
  BY <1>2 DEF IInv, TabsOK
<1>11. MovesOK'
  <2>1. auth'[t] = "user"
    BY <1>2 DEF IInv, TabsOK
  <2>2. \A p \in puts : p.mover # None => auth'[p.mover] = "user"
    BY <1>2, <1>5, <1>10 DEF IInv, MovesOK, Put
  <2> QED
    BY <1>4, <1>6, <2>1, <2>2 DEF MovesOK
<1>12. /\ auth'[t] = "user" /\ load'[t] = "sent"
       /\ \A u \in Tabs \ {t} : auth'[u] = auth[u] /\ load'[u] = load[u] /\ initial'[u] = initial[u]
  BY <1>2 DEF IInv, TabsOK
<1>13. hydrated'[t] = FALSE /\ \A u \in Tabs \ {t} : hydrated'[u] = hydrated[u]
  BY <1>3, FlagSet, Zenon DEF IInv, FlagsOK
<1>14. TabInv(t)'
  BY <1>12, <1>13, Zenon DEF TabInv
<1>15. \A u \in Tabs \ {t} : TabInv(u)'
  BY <1>1, <1>12, <1>13, TabInvs, TabFrame, Zenon DEF IInv
<1>16. LoadInv' /\ Shows'
  <2>1. \A u \in Tabs : TabInv(u)'
    BY <1>14, <1>15
  <2> QED
    BY <2>1, Zenon DEF LoadInv, Shows, TabInv
<1> QED
  BY <1>7, <1>8, <1>9, <1>11, <1>16, Zenon DEF IInv

(* A closed tab has no migration on its way, so nothing there depends on   *)
(* the store that the page opens with.                                     *)
LEMMA MountKeeps ==
  ASSUME IInv, BoundedIds, NEW t \in Tabs, NEW p \in Prompts, Mount(t, p)
  PROVE  IInv' /\ BoundedIds'
<1>1. /\ session' = session /\ server' = server /\ local' = local /\ puts' = puts
      /\ made' = made /\ owed' = owed
  BY Zenon DEF Mount
<1>2. auth[t] = "closed" /\ mounts < MaxMounts /\ mounts' = mounts + 1
  BY Zenon DEF Mount, Open
<1>3. PICK a \in {"loading", session}, found \in {local, None} :
         /\ auth' = [auth EXCEPT ![t] = a]
         /\ IF a = "user" THEN MountApi(t, p) ELSE MountLocal(t, a, p, found)
  BY Zenon DEF Mount, LocalAnswers
<1>4. a \in {"loading", "guest", "user"}
  BY <1>3 DEF IInv, StoresOK
<1>5. load[t] = "idle" /\ hydrated[t] = FALSE
  BY <1>2, Zenon DEF IInv, LoadInv
<1>6. StoresOK' /\ BoundedIds'
  <2>1. mounts' \in 0..MaxMounts
    BY <1>2, ProjectOK DEF ProjectOK, IInv, StoresOK
  <2> QED
    BY <1>1, <2>1 DEF IInv, StoresOK, BoundedIds
<1>7. MovesOK'
  <2>1. \A q \in puts : q.mover # None => q.mover # t
    BY <1>2 DEF IInv, MovesOK
  <2> QED
    BY <1>1, <1>3, <2>1 DEF IInv, MovesOK, TabsOK, StoresOK, Put
<1>8. auth'[t] = a /\ \A u \in Tabs \ {t} : auth'[u] = auth[u]
  BY <1>3 DEF IInv, TabsOK
<1>9. p \in BOOLEAN
  BY ProjectOK, Zenon DEF ProjectOK
<1>10. CASE a = "user"
  <2>1. /\ load' = [load EXCEPT ![t] = "sent"] /\ initial' = initial /\ canvas' = canvas
        /\ pending' = pending
    BY <1>3, <1>10, Zenon DEF MountApi
  <2>2. hydrated' = hydrated /\ turn' = turn /\ prompt' = [prompt EXCEPT ![t] = p]
    BY <1>3, <1>10, Zenon DEF MountApi
  <2>3. TabsOK'
    BY <1>3, <1>4, <2>1 DEF IInv, TabsOK
  <2>4. prompt' \in [Tabs -> BOOLEAN]
    BY <1>9, <2>2, FlagSet, Zenon DEF IInv, FlagsOK
  <2>5. FlagsOK'
    BY <2>2, <2>4, Zenon DEF IInv, FlagsOK
  <2>6. load'[t] = "sent" /\ \A u \in Tabs \ {t} : load'[u] = load[u]
    BY <2>1 DEF IInv, TabsOK
  <2>7. TabInv(t)'
    BY <1>5, <1>8, <1>10, <2>2, <2>6, Zenon DEF TabInv
  <2>8. \A u \in Tabs \ {t} : TabInv(u)'
    BY <1>8, <2>1, <2>2, <2>6, TabInvs, TabFrame, Zenon DEF IInv
  <2>9. \A u \in Tabs : TabInv(u)'
    BY <2>7, <2>8
  <2>10. LoadInv' /\ Shows'
    BY <2>9, Zenon DEF LoadInv, Shows, TabInv
  <2> QED
    BY <1>6, <1>7, <2>3, <2>5, <2>10, Zenon DEF IInv
<1>11. CASE a # "user"
  <2>1. /\ load' = [load EXCEPT ![t] = "idle"] /\ initial' = [initial EXCEPT ![t] = found]
        /\ canvas' = [canvas EXCEPT ![t] = In(found)]
        /\ pending' = [pending EXCEPT ![t] = found]
    BY <1>3, <1>11, Zenon DEF MountLocal
  <2>2. /\ hydrated' = [hydrated EXCEPT ![t] = Hydrates(found, a)]
        /\ turn' = [turn EXCEPT ![t] = p /\ a = "guest" /\ found = None]
        /\ prompt' = [prompt EXCEPT ![t] = p /\ a = "loading"]
    BY <1>3, <1>11, Zenon DEF MountLocal
  <2>3. In(found) \in Content /\ found \in Saved /\ (found # None => In(found) = found)
    BY Contents DEF IInv, StoresOK
  <2>4. TabsOK'
    BY <1>3, <1>4, <2>1, <2>3 DEF IInv, TabsOK
  <2>5. /\ Hydrates(found, a) \in BOOLEAN /\ (p /\ a = "guest" /\ found = None) \in BOOLEAN
        /\ (p /\ a = "loading") \in BOOLEAN
    BY Zenon DEF Hydrates
  <2>6. FlagsOK'
    <3>1. hydrated' \in [Tabs -> BOOLEAN]
      BY <2>2, <2>5, FlagSet, Zenon DEF IInv, FlagsOK
    <3>2. turn' \in [Tabs -> BOOLEAN]
      BY <2>2, <2>5, FlagSet, Zenon DEF IInv, FlagsOK
    <3>3. prompt' \in [Tabs -> BOOLEAN]
      BY <2>2, <2>5, FlagSet, Zenon DEF IInv, FlagsOK
    <3> QED
      BY <3>1, <3>2, <3>3, Zenon DEF FlagsOK
  <2>7. /\ load'[t] = "idle" /\ initial'[t] = found /\ (found # None => found \subseteq canvas'[t])
        /\ \A u \in Tabs \ {t} : load'[u] = load[u] /\ initial'[u] = initial[u]
                                 /\ canvas'[u] = canvas[u]
    BY <2>1, <2>3 DEF IInv, TabsOK
  <2>8. hydrated'[t] = Hydrates(found, a) /\ \A u \in Tabs \ {t} : hydrated'[u] = hydrated[u]
    <3>1. hydrated \in [Tabs -> BOOLEAN]
      BY Zenon DEF IInv, FlagsOK
    <3>2. Hydrates(found, a) \in BOOLEAN /\ hydrated' = [hydrated EXCEPT ![t] = Hydrates(found, a)]
      BY <2>2, <2>5
    <3> QED
      BY <3>1, <3>2, FlagSet, Zenon
  <2>9. found # None => hydrated'[t] = TRUE
    BY <2>8, Zenon DEF Hydrates
  <2>10. auth'[t] # "closed"
    BY <1>4, <1>8
  <2>11. TabInv(t)'
    BY <2>7, <2>9, <2>10, Zenon DEF TabInv
  <2>12. \A u \in Tabs \ {t} : TabInv(u)'
    BY <1>8, <2>7, <2>8, TabInvs, TabFrame, Zenon DEF IInv
  <2>13. \A u \in Tabs : TabInv(u)'
    BY <2>11, <2>12
  <2>14. LoadInv' /\ Shows'
    BY <2>13, Zenon DEF LoadInv, Shows, TabInv
  <2> QED
    BY <1>6, <1>7, <2>4, <2>6, <2>14, Zenon DEF IInv
<1> QED
  BY <1>10, <1>11

(* The page goes, with what its last flush sent. *)
LEMMA GoneKeeps ==
  ASSUME IInv, BoundedIds, NEW t \in Tabs, Gone(t), local' \in Saved,
         puts' \subseteq Put, Bounded(puts'),
         \A p \in puts' : p.mover # None => p \in puts /\ p.mover # t
  PROVE  IInv' /\ BoundedIds'
<1>1. /\ session' = session /\ server' = server /\ made' = made /\ mounts' = mounts
      /\ owed' = owed
  BY Zenon DEF Gone
<1>2. /\ auth' = [auth EXCEPT ![t] = "closed"] /\ load' = [load EXCEPT ![t] = "idle"]
      /\ initial' = [initial EXCEPT ![t] = None] /\ canvas' = [canvas EXCEPT ![t] = {}]
      /\ pending' = [pending EXCEPT ![t] = None]
  BY Zenon DEF Gone
<1>3. /\ hydrated' = [hydrated EXCEPT ![t] = FALSE] /\ turn' = [turn EXCEPT ![t] = FALSE]
      /\ prompt' = [prompt EXCEPT ![t] = FALSE]
  BY Zenon DEF Gone
<1>4. StoresOK' /\ BoundedIds'
  BY <1>1 DEF IInv, StoresOK, BoundedIds, Bounded
<1>5. TabsOK'
  BY <1>2, Contents DEF IInv, TabsOK
<1>6. FlagsOK'
  BY <1>3, FlagSet, Zenon DEF IInv, FlagsOK
<1>7. MovesOK'
  BY <1>2 DEF IInv, MovesOK, TabsOK, Put
<1>8. /\ auth'[t] = "closed" /\ load'[t] = "idle" /\ initial'[t] = None
      /\ \A u \in Tabs \ {t} : auth'[u] = auth[u] /\ load'[u] = load[u]
                               /\ initial'[u] = initial[u] /\ canvas'[u] = canvas[u]
  BY <1>2 DEF IInv, TabsOK
<1>9. hydrated'[t] = FALSE /\ \A u \in Tabs \ {t} : hydrated'[u] = hydrated[u]
  BY <1>3, FlagSet, Zenon DEF IInv, FlagsOK
<1>10. TabInv(t)'
  BY <1>8, <1>9, Zenon DEF TabInv
<1>11. \A u \in Tabs \ {t} : TabInv(u)'
  BY <1>8, <1>9, TabInvs, TabFrame, Zenon DEF IInv
<1>12. LoadInv' /\ Shows'
  <2>1. \A u \in Tabs : TabInv(u)'
    BY <1>10, <1>11
  <2> QED
    BY <2>1, Zenon DEF LoadInv, Shows, TabInv
<1> QED
  BY <1>4, <1>5, <1>6, <1>7, <1>12, Zenon DEF IInv

LEMMA LeaveKeeps ==
  ASSUME IInv, BoundedIds, NEW t \in Tabs, Close(t) \/ Crash(t)
  PROVE  IInv' /\ BoundedIds'
<1>1. Gone(t)
  BY Zenon DEF Close, Crash
<1>2. /\ Orphaned(t) \subseteq Put /\ Bounded(Orphaned(t))
      /\ \A p \in Orphaned(t) : p.mover # None => p \in puts /\ p.mover # t
  BY OrphanedType DEF IInv
<1>3. CASE puts' = Orphaned(t) /\ local' = local
  <2>1. local' \in Saved
    BY <1>3 DEF IInv, StoresOK
  <2>2. /\ puts' \subseteq Put /\ Bounded(puts')
        /\ \A p \in puts' : p.mover # None => p \in puts /\ p.mover # t
    BY <1>2, <1>3
  <2> QED
    BY <1>1, <2>1, <2>2, GoneKeeps
<1>4. CASE pending[t] # None /\ SaveTo(Orphaned(t), t, pending[t])
  <2>1. pending[t] \in Content
    BY <1>4, Contents DEF IInv, TabsOK
  <2>2. /\ local' \in Saved /\ puts' \subseteq Put /\ Bounded(puts')
        /\ \A p \in puts' : p \in Orphaned(t) \/ p.mover = None
    BY <1>2, <1>4, <2>1, Saves DEF IInv
  <2>3. \A p \in puts' : p.mover # None => p \in puts /\ p.mover # t
    BY <1>2, <2>2
  <2> QED
    BY <1>1, <2>2, <2>3, GoneKeeps
<1> QED
  BY <1>3, <1>4, Zenon DEF Close, Crash

-----------------------------------------------------------------------------
(* The invariant *)

Inv == IInv /\ BoundedIds /\ calm \in BOOLEAN

LEMMA CalmKeeps ==
  ASSUME calm \in BOOLEAN, [Next]_vars
  PROVE  calm' \in BOOLEAN
<1>1. ASSUME NEW t \in Tabs, Page(t)
      PROVE  calm' \in BOOLEAN
  <2>1. CASE \E p \in Prompts : Mount(t, p)
    BY <2>1, Zenon DEF Mount
  <2>2. CASE ResolveGuest(t) \/ ResolveUser(t) \/ ReadRow(t)
    BY <2>2, Zenon DEF ResolveGuest, ResolveUser, ReadRow
  <2>3. CASE Answer(t) \/ AnswerFails(t)
    BY <2>3, Zenon DEF Answer, AnswerFails
  <2>4. CASE TimerFires(t)
    BY <2>4, Zenon DEF TimerFires, SaveTo, StoreLocally
  <2>5. CASE Close(t) \/ Crash(t)
    BY <2>5, Zenon DEF Close, Crash, SaveTo, StoreLocally
  <2>6. CASE Edit(t) \/ StartTurn(t) \/ EndTurn(t)
    BY <2>6, Zenon DEF Edit, StartTurn, EndTurn
  <2> QED
    BY <1>1, <2>1, <2>2, <2>3, <2>4, <2>5, <2>6, Zenon DEF Page
<1>2. ASSUME NEW p \in puts, Land(p) \/ Lose(p)
      PROVE  calm' \in BOOLEAN
  BY <1>2, Zenon DEF Land, Lose
<1>3. ASSUME SignIn \/ UNCHANGED vars
      PROVE  calm' \in BOOLEAN
  BY <1>3, Zenon DEF SignIn, vars
<1> QED
  BY <1>1, <1>2, <1>3, Zenon DEF Next

LEMMA InitInv == Init => Inv
<1> SUFFICES ASSUME Init PROVE Inv
  OBVIOUS
<1>1. /\ session \in {"guest", "user"} /\ puts = {} /\ mounts = 0 /\ owed = 1..made
      /\ \/ server = None /\ local = None /\ made = 0
         \/ server = {1} /\ local = None /\ made = 1
         \/ server = None /\ local = {1} /\ made = 1
  BY Zenon DEF Init
<1>2. /\ auth = [t \in Tabs |-> "closed"] /\ load = [t \in Tabs |-> "idle"]
      /\ initial = [t \in Tabs |-> None] /\ canvas = [t \in Tabs |-> {}]
      /\ pending = [t \in Tabs |-> None]
  BY Zenon DEF Init
<1>3. /\ hydrated = [t \in Tabs |-> FALSE] /\ turn = [t \in Tabs |-> FALSE]
      /\ prompt = [t \in Tabs |-> FALSE] /\ calm = TRUE
  BY Zenon DEF Init
<1>4. BoundedIds
  <2>1. \A p \in puts : p.id <= 0
    BY <1>1
  <2> QED
    BY <2>1 DEF BoundedIds
<1>5. TabsOK
  BY <1>2, Contents DEF TabsOK
<1>6. FlagsOK
  BY <1>3, Zenon DEF FlagsOK
<1>7. MovesOK
  BY <1>1 DEF MovesOK
<1>8. \A t \in Tabs : auth[t] = "closed" /\ load[t] = "idle"
  BY <1>2
<1>9. \A t \in Tabs : hydrated[t] = FALSE
  BY <1>3, Zenon
<1>10. LoadInv /\ Shows
  BY <1>8, <1>9, Zenon DEF LoadInv, Shows
<1>11. StoresOK
  <2>1. MaxEdits \in Nat \ {0} /\ MaxMounts \in Nat
    BY ProjectOK DEF ProjectOK
  <2>2. None \in Saved /\ {1} \in Saved
    BY <2>1, Contents DEF Saved, Content, Edits
  <2>3. made \in 0..MaxEdits /\ mounts \in 0..MaxMounts
    BY <1>1, <2>1
  <2> QED
    BY <1>1, <2>2, <2>3 DEF StoresOK
<1> QED
  BY <1>3, <1>4, <1>5, <1>6, <1>7, <1>10, <1>11, Zenon DEF Inv, IInv

LEMMA Stutters ==
  ASSUME IInv, BoundedIds, UNCHANGED vars
  PROVE  IInv' /\ BoundedIds'
<1>1. /\ session' = session /\ server' = server /\ local' = local /\ puts' = puts /\ made' = made
      /\ mounts' = mounts /\ owed' = owed /\ auth' = auth /\ load' = load /\ initial' = initial
      /\ hydrated' = hydrated /\ canvas' = canvas /\ pending' = pending /\ turn' = turn
      /\ prompt' = prompt
  BY Zenon DEF vars, tabs, bounds
<1>2. StoresOK' /\ BoundedIds'
  BY <1>1 DEF IInv, StoresOK, BoundedIds
<1>3. TabsOK' /\ MovesOK'
  BY <1>1, Zenon DEF IInv, TabsOK, MovesOK
<1>4. FlagsOK' /\ LoadInv' /\ Shows'
  BY <1>1, FlagsFrame, ShowsFrame, Zenon DEF IInv
<1> QED
  BY <1>2, <1>3, <1>4, Zenon DEF IInv

LEMMA NextInv == Inv /\ [Next]_vars => Inv'
<1> SUFFICES ASSUME Inv, [Next]_vars PROVE Inv'
  OBVIOUS
<1>1. IInv /\ BoundedIds /\ calm \in BOOLEAN
  BY Zenon DEF Inv
<1>2. calm' \in BOOLEAN
  BY <1>1, CalmKeeps, Zenon
<1>3. ASSUME NEW t \in Tabs, Page(t)
      PROVE  IInv' /\ BoundedIds'
  <2>1. CASE \E p \in Prompts : Mount(t, p)
    BY <1>1, <2>1, MountKeeps, Zenon
  <2>2. CASE ResolveGuest(t)
    BY <1>1, <2>2, GuestKeeps, Zenon
  <2>3. CASE ResolveUser(t)
    BY <1>1, <2>3, UserKeeps, Zenon
  <2>4. CASE ReadRow(t)
    BY <1>1, <2>4, ReadKeeps, Zenon
  <2>5. CASE Answer(t) \/ AnswerFails(t)
    BY <1>1, <2>5, AnswerKeeps, Zenon
  <2>6. CASE TimerFires(t)
    BY <1>1, <2>6, TimerKeeps, Zenon
  <2>7. CASE Close(t) \/ Crash(t)
    BY <1>1, <2>7, LeaveKeeps, Zenon
  <2>8. CASE Edit(t)
    BY <1>1, <2>8, EditKeeps, Zenon
  <2>9. CASE StartTurn(t) \/ EndTurn(t)
    BY <1>1, <2>9, TurnKeeps, Zenon
  <2> QED
    BY <1>3, <2>1, <2>2, <2>3, <2>4, <2>5, <2>6, <2>7, <2>8, <2>9, Zenon DEF Page
<1>4. ASSUME NEW p \in puts, Land(p) \/ Lose(p)
      PROVE  IInv' /\ BoundedIds'
  BY <1>1, <1>4, EndsKeeps, Zenon
<1>5. ASSUME SignIn
      PROVE  IInv' /\ BoundedIds'
  BY <1>1, <1>5, SignInKeeps, Zenon
<1>6. ASSUME UNCHANGED vars
      PROVE  IInv' /\ BoundedIds'
  BY <1>1, <1>6, Stutters, Zenon
<1>7. IInv' /\ BoundedIds'
  BY <1>3, <1>4, <1>5, <1>6, Zenon DEF Next
<1> QED
  BY <1>2, <1>7, Zenon DEF Inv

LEMMA AlwaysInv == Spec => []Inv
  BY InitInv, NextInv, PTL DEF Spec

(* The stores, the PUTs and the tabs hold what they may, only an open tab  *)
(* has a save waiting, and a migration ends with its page                  *)
(* (use-project-persistence.ts, use-migration.ts).                         *)
THEOREM ProjectTypes == Spec => []TypeOK
<1>1. Inv => TypeOK
  <2> SUFFICES ASSUME Inv PROVE TypeOK
    OBVIOUS
  <2>1. StoresOK /\ TabsOK /\ FlagsOK /\ MovesOK /\ calm \in BOOLEAN
    BY Zenon DEF Inv, IInv
  <2>2. \A t \in Tabs : pending[t] # None => Open(t) /\ pending[t] \subseteq canvas[t]
    BY <2>1, Zenon DEF TabsOK, Open
  <2> QED
    BY <2>1, <2>2, Zenon DEF TypeOK, StoresOK, TabsOK, FlagsOK, MovesOK
<1> QED
  BY <1>1, AlwaysInv, PTL

(* A tab that shows its project shows what it loaded, whichever way Clerk  *)
(* resolved, the load ended and the store changed                          *)
(* (workbench-canvas.tsx:386-400).                                         *)
THEOREM LoadsAreShown == Spec => []ShowsWhatItLoaded
<1>1. Inv => ShowsWhatItLoaded
  <2> SUFFICES ASSUME Inv,
                      NEW t \in Tabs, Open(t), load[t] = "idle", initial[t] # None
               PROVE  hydrated[t] /\ initial[t] \subseteq canvas[t]
    BY Zenon DEF ShowsWhatItLoaded, IsLoaded
  <2>1. hydrated[t] = TRUE /\ initial[t] \subseteq canvas[t]
    BY Zenon DEF Inv, IInv, Shows, Open
  <2> QED
    BY <2>1, Zenon
<1> QED
  BY <1>1, AlwaysInv, PTL
-----------------------------------------------------------------------------
(* What keeps the edits *)

Nonuser(t) == auth[t] \in {"loading", "guest"}
Signed(t) == auth[t] = "user"
Waits(t) == pending[t] # None
Ready == {t \in Tabs : hydrated[t] = TRUE}
Moving == {p \in puts : p.mover # None}

(* S has all of the row and of the PUTs; of what the signed-in tabs have   *)
(* not saved; of what no tab has saved.                                    *)
StoredIn(S) == In(server) \subseteq S /\ \A p \in puts : p.edits \subseteq S
SignedIn(S) == \A u \in Tabs : Signed(u) => In(pending[u]) \subseteq S
UnsavedIn(S) == \A u \in Tabs : In(pending[u]) \subseteq S

(* No content is empty, and none has an edit that was not made. *)
Real(S) == S # {} /\ In(S) \subseteq 1..made

ContentsReal ==
    /\ Real(server) /\ Real(local)
    /\ \A t \in Tabs : Real(initial[t]) /\ Real(pending[t]) /\ canvas[t] \subseteq 1..made
    /\ \A p \in puts : Real(p.edits)

(* A tab that nobody is signed in to saves what it shows, and until        *)
(* somebody signs in there is nothing but local storage.                   *)
TabsShow ==
    \A t \in Tabs :
        /\ auth[t] = "closed" => pending[t] = None /\ canvas[t] = {} /\ initial[t] = None
        /\ Nonuser(t) /\ Waits(t) => t \in Ready /\ pending[t] = canvas[t]
        /\ auth[t] = "guest" => t \in Ready

GuestSession ==
    session = "guest" =>
        /\ puts = {}
        /\ \A t \in Tabs : auth[t] # "user" /\ (t \in Ready /\ auth[t] = "loading" => local # None)

Shape == ContentsReal /\ TabsShow /\ GuestSession

(* While calm, the PUTs in flight are of one content, and the row grows.   *)
RowGrows ==
    /\ \A p, q \in puts : p.edits = q.edits
    /\ \A p \in puts : In(server) \subseteq p.edits
    /\ \A t \in Tabs : load[t] = "read" => In(initial[t]) \subseteq In(server)

(* What a signed-in tab shows or will save has all that the API has or     *)
(* will get.                                                               *)
SignedTabs ==
    \A t \in Tabs : Signed(t) =>
        /\ Waits(t) => StoredIn(pending[t]) /\ SignedIn(pending[t])
        /\ t \in Ready => StoredIn(canvas[t]) /\ SignedIn(canvas[t])

(* The other tabs have all of the local copy, show the same when one of    *)
(* them saves, and hold back for a load only when there is nothing.        *)
LocalTabs ==
    \A t \in Tabs :
        /\ t \in Ready /\ Nonuser(t) =>
              /\ In(local) \subseteq canvas[t]
              /\ local # None /\ ~Waits(t) => canvas[t] \subseteq local
              /\ \A u \in Tabs : Nonuser(u) /\ Waits(u) => pending[u] = canvas[t]
        /\ t \notin Ready /\ auth[t] = "loading" =>
              local = None /\ \A u \in Tabs : Nonuser(u) => ~Waits(u)

(* What such a tab adds to a local copy is new to the API. *)
Fresh ==
    \A t \in Tabs : Nonuser(t) /\ Waits(t) /\ local # None =>
        /\ In(server) \cap pending[t] \subseteq local
        /\ \A p \in puts : p.edits \cap pending[t] \subseteq local
        /\ \A u \in Tabs : Signed(u) => In(pending[u]) \cap pending[t] \subseteq local

(* One migration at a time carries the local copy, when no guest is left   *)
(* to change it.                                                           *)
Migration ==
    \A p \in Moving :
        /\ local = p.edits
        /\ \A q \in Moving : q = p
        /\ \A t \in Tabs :
              /\ auth[t] # "guest"
              /\ auth[t] = "loading" => canvas[t] = local /\ UnsavedIn(local)

(* Without a local copy, a tab that Clerk has not resolved shows           *)
(* everything; a guest's save is the only one and has a new edit.          *)
MovedOut ==
    local = None => \A t \in Tabs :
        /\ auth[t] = "loading" /\ t \in Ready => StoredIn(canvas[t]) /\ UnsavedIn(canvas[t])
        /\ auth[t] = "guest" /\ Waits(t) =>
              /\ \A u \in Tabs \ {t} : ~Waits(u)
              /\ \E e \in pending[t] : e \notin In(server) /\ \A p \in puts : e \notin p.edits
        /\ Nonuser(t) /\ Waits(t) => \A u \in Tabs : Signed(u) =>
              /\ u \in Ready => pending[t] \subseteq canvas[u]
              /\ Waits(u) => pending[t] \subseteq pending[u]

CalmInv == RowGrows /\ SignedTabs /\ LocalTabs /\ Fresh /\ Migration /\ MovedOut

KeepInv == Shape /\ (calm = TRUE => CalmInv)

(* An edit that some store, PUT or timer has. *)
HasEdit(e) ==
    \/ e \in In(server) \/ e \in In(local)
    \/ \E p \in puts : e \in p.edits
    \/ \E u \in Tabs : e \in In(pending[u])

Owing == calm = TRUE => \A e \in owed : HasEdit(e)

LEMMA KeptHas == \A e : e \in Kept <=> HasEdit(e)
  BY DEF Kept, InFlight, Unsaved, HasEdit

(* What a step does to a tab: nothing that matters here, or it empties it. *)
Same(u) ==
    /\ auth'[u] = auth[u] /\ load'[u] = load[u] /\ initial'[u] = initial[u]
    /\ canvas'[u] = canvas[u] /\ pending'[u] = pending[u]
    /\ u \in Ready' <=> u \in Ready

Emptied(t) ==
    /\ auth'[t] = "closed" /\ load'[t] = "idle" /\ initial'[t] = None
    /\ canvas'[t] = {} /\ pending'[t] = None /\ t \notin Ready'

Unchanged(t) ==
    /\ auth'[t] = auth[t] /\ load'[t] = load[t] /\ initial'[t] = initial[t]
    /\ canvas'[t] = canvas[t] /\ pending'[t] = None /\ (t \in Ready' <=> t \in Ready)

(* A save of what tab t holds, if anything, from a timer or from a flush.  *)
SavesOf(t) ==
    /\ \A u \in Tabs \ {t} : Same(u)
    /\ Unchanged(t) \/ Emptied(t)
    /\ session' = session /\ server' = server /\ made' = made /\ owed' = owed
    /\ \A p \in puts' : \/ \E q \in puts : p.edits = q.edits
                        \/ Signed(t) /\ Waits(t) /\ p.edits = pending[t]
    /\ \A q \in puts : \E p \in puts' : p.edits = q.edits
    /\ Moving' \subseteq Moving
    /\ calm' = TRUE => calm = TRUE

SavedToApi(t) ==
    /\ Signed(t) /\ Waits(t) /\ local' = local
    /\ \E p \in puts' : p.edits = pending[t]
    /\ calm' = TRUE => \A q \in puts : q.edits = pending[t]

SavedLocally(t) == Nonuser(t) /\ Waits(t) /\ local' = pending[t]

NotSaved(t) == ~Waits(t) /\ local' = local

LEMMA ReadyIs ==
  ASSUME FlagsOK, NEW t \in Tabs
  PROVE  /\ hydrated[t] = TRUE <=> t \in Ready
         /\ hydrated[t] = FALSE <=> t \notin Ready
<1>1. hydrated[t] \in BOOLEAN
  BY Zenon DEF FlagsOK
<1>2. t \in Ready <=> hydrated[t] = TRUE
  BY Zenon DEF Ready
<1>3. TRUE # FALSE
  OBVIOUS
<1> QED
  BY <1>1, <1>2, <1>3, Zenon

LEMMA AuthIs ==
  ASSUME TabsOK, NEW t \in Tabs
  PROVE  /\ auth[t] \in {"closed", "loading", "guest", "user"}
         /\ load[t] \in {"idle", "sent", "read"}
         /\ canvas[t] \in Content /\ initial[t] \in Saved /\ pending[t] \in Saved
  BY DEF TabsOK

LEMMA Nothing == In(None) = {} /\ \A S : S # None => In(S) = S
  BY DEF In

-----------------------------------------------------------------------------
(* Saves *)

LEMMA SaveShape ==
  ASSUME IInv, Shape, NEW t \in Tabs, SavesOf(t), SavedLocally(t) \/ local' = local
  PROVE  Shape'
<1>1. \A u \in Tabs \ {t} : Same(u)
  BY DEF SavesOf
<1>2. made' = made /\ server' = server /\ session' = session
  BY DEF SavesOf
<1>3. Real(None)
  BY ProjectOK, Nothing DEF Real, ProjectOK
<1>4. ContentsReal'
  <2>1. Real(pending[t]) /\ Real(local) /\ Real(server)
    BY DEF Shape, ContentsReal
  <2>2. \A S : Real(S)' <=> Real(S)
    BY <1>2 DEF Real
  <2>3. Real(local') /\ Real(server')
    BY <1>2, <2>1 DEF SavedLocally
  <2>4. ASSUME NEW p \in puts'
        PROVE  Real(p.edits)
    BY <2>1 DEF SavesOf, Shape, ContentsReal
  <2>5. Real(initial'[t]) /\ Real(pending'[t]) /\ canvas'[t] \subseteq 1..made
    BY <1>3 DEF SavesOf, Unchanged, Emptied, Shape, ContentsReal
  <2>6. ASSUME NEW u \in Tabs \ {t}
        PROVE  Real(initial'[u]) /\ Real(pending'[u]) /\ canvas'[u] \subseteq 1..made
    BY <1>1 DEF Same, Shape, ContentsReal
  <2> QED
    BY <1>2, <2>2, <2>3, <2>4, <2>5, <2>6 DEF ContentsReal
<1>5. TabsShow'
  <2>1. ASSUME NEW u \in Tabs \ {t}
        PROVE  /\ auth'[u] = "closed" => pending'[u] = None /\ canvas'[u] = {} /\ initial'[u] = None
               /\ Nonuser(u)' /\ Waits(u)' => u \in Ready' /\ pending'[u] = canvas'[u]
               /\ auth'[u] = "guest" => u \in Ready'
    BY <1>1 DEF Same, Shape, TabsShow, Nonuser, Waits
  <2>2. /\ auth'[t] = "closed" => pending'[t] = None /\ canvas'[t] = {} /\ initial'[t] = None
        /\ ~Waits(t)'
        /\ auth'[t] = "guest" => t \in Ready'
    BY DEF SavesOf, Unchanged, Emptied, Shape, TabsShow, Nonuser, Waits
  <2> QED
    BY <2>1, <2>2 DEF TabsShow
<1>6. GuestSession'
  <2>1. SUFFICES ASSUME session = "guest" PROVE GuestSession'
    BY <1>2 DEF GuestSession
  <2>2. puts = {} /\ \A u \in Tabs : auth[u] # "user"
    BY <2>1 DEF Shape, GuestSession
  <2>3. puts' = {}
    BY <2>2 DEF SavesOf, Signed
  <2>4. ASSUME NEW u \in Tabs
        PROVE  auth'[u] # "user" /\ (u \in Ready' /\ auth'[u] = "loading" =>
                                       u \in Ready /\ auth[u] = "loading")
    BY <1>1, <2>2 DEF SavesOf, Unchanged, Emptied, Same
  <2>5. local # None => local' # None
    BY DEF SavedLocally, Waits
  <2> QED
    BY <2>1, <2>3, <2>4, <2>5 DEF Shape, GuestSession
<1> QED
  BY <1>4, <1>5, <1>6 DEF Shape

(* The tabs after a save: those there were, without what t held. *)
LEMMA SaveTabs ==
  ASSUME NEW t \in Tabs, SavesOf(t), NEW u \in Tabs
  PROVE  /\ Waits(u)' => u # t /\ Waits(u) /\ pending'[u] = pending[u] /\ Same(u)
         /\ Signed(u)' => Signed(u) /\ canvas'[u] = canvas[u] /\ (u \in Ready' <=> u \in Ready)
                          /\ load'[u] = load[u] /\ initial'[u] = initial[u]
         /\ Nonuser(u)' => Nonuser(u) /\ canvas'[u] = canvas[u] /\ (u \in Ready' <=> u \in Ready)
                           /\ auth'[u] = auth[u]
         /\ auth'[u] \in {"loading", "guest"} => auth'[u] = auth[u]
         /\ load'[u] = "read" => load[u] = "read" /\ initial'[u] = initial[u]
         /\ In(pending'[u]) \subseteq In(pending[u])
<1>1. CASE u = t
  BY <1>1, Nothing DEF SavesOf, Unchanged, Emptied, Waits, Signed, Nonuser
<1>2. CASE u # t
  BY <1>2 DEF SavesOf, Same, Waits, Signed, Nonuser
<1> QED
  BY <1>1, <1>2

LEMMA SaveHas ==
  ASSUME IInv, Shape, CalmInv, NEW t \in Tabs, SavesOf(t),
         SavedToApi(t) \/ SavedLocally(t) \/ NotSaved(t), NEW e, HasEdit(e)
  PROVE  HasEdit(e)'
<1>1. \A u \in Tabs \ {t} : pending'[u] = pending[u]
  BY DEF SavesOf, Same
<1>2. CASE e \in In(server) \/ \E p \in puts : e \in p.edits
  BY <1>2 DEF SavesOf, HasEdit
<1>3. CASE e \in In(pending[t])
  <2>1. Waits(t) /\ In(pending[t]) = pending[t]
    BY <1>3, Nothing DEF Waits
  <2>2. CASE SavedToApi(t)
    BY <1>3, <2>1, <2>2 DEF SavedToApi, HasEdit
  <2>3. CASE SavedLocally(t)
    BY <1>3, <2>3 DEF SavedLocally, HasEdit
  <2> QED
    BY <2>1, <2>2, <2>3 DEF NotSaved
<1>4. CASE e \in In(local)
  <2>1. CASE SavedLocally(t)
    <3>1. t \in Ready /\ pending[t] = canvas[t] /\ In(pending[t]) = pending[t]
      BY <2>1, Nothing DEF SavedLocally, Shape, TabsShow, Waits
    <3>2. In(local) \subseteq In(local')
      BY <2>1, <3>1 DEF SavedLocally, CalmInv, LocalTabs
    <3> QED
      BY <1>4, <3>2 DEF HasEdit
  <2>2. CASE local' = local
    BY <1>4, <2>2 DEF HasEdit
  <2> QED
    BY <2>1, <2>2 DEF SavedToApi, NotSaved
<1>5. CASE \E u \in Tabs \ {t} : e \in In(pending[u])
  BY <1>1, <1>5 DEF HasEdit
<1> QED
  BY <1>2, <1>3, <1>4, <1>5 DEF HasEdit
(* What a save of a signed-in tab adds to the PUTs, the tab held before. *)
LEMMA SaveCalmApi ==
  ASSUME IInv, Shape, CalmInv, NEW t \in Tabs, SavesOf(t), calm' = TRUE,
         SavedToApi(t) \/ NotSaved(t)
  PROVE  CalmInv'
<1>0. local' = local /\ server' = server
  BY DEF SavedToApi, NotSaved, SavesOf
<1>1. ASSUME NEW p \in puts'
      PROVE  \/ \E q \in puts : p.edits = q.edits
             \/ Signed(t) /\ Waits(t) /\ p.edits = pending[t] /\ In(pending[t]) = pending[t]
                /\ \A q \in puts : q.edits = pending[t]
  BY Nothing DEF SavesOf, SavedToApi, NotSaved, Waits
<1>2. RowGrows'
  <2>1. \A p, q \in puts' : p.edits = q.edits
    BY <1>1 DEF CalmInv, RowGrows
  <2>2. \A p \in puts' : In(server) \subseteq p.edits
    BY <1>1 DEF CalmInv, RowGrows, SignedTabs, StoredIn
  <2> QED
    BY <1>0, <2>1, <2>2, SaveTabs DEF CalmInv, RowGrows
(* What had everything still has. *)
<1>3. ASSUME NEW S, StoredIn(S), SignedIn(S)
      PROVE  /\ In(server') \subseteq S /\ \A p \in puts' : p.edits \subseteq S
             /\ \A u \in Tabs : Signed(u)' => In(pending'[u]) \subseteq S
  <2>1. \A p \in puts' : p.edits \subseteq S
    BY <1>1, <1>3 DEF StoredIn, SignedIn
  <2> QED
    BY <1>0, <1>3, <2>1, SaveTabs DEF StoredIn, SignedIn
<1>4. SignedTabs'
  <2> SUFFICES ASSUME NEW u \in Tabs, Signed(u)'
               PROVE  /\ Waits(u)' => StoredIn(pending[u])' /\ SignedIn(pending[u])'
                      /\ u \in Ready' => StoredIn(canvas[u])' /\ SignedIn(canvas[u])'
    BY DEF SignedTabs
  <2>1. ASSUME Waits(u)'
        PROVE  StoredIn(pending[u])' /\ SignedIn(pending[u])'
    <3>1. pending'[u] = pending[u] /\ Waits(u) /\ Signed(u)
      BY <2>1, SaveTabs
    <3>2. StoredIn(pending[u]) /\ SignedIn(pending[u])
      BY <3>1 DEF CalmInv, SignedTabs
    <3> QED
      BY <1>3, <3>1, <3>2 DEF StoredIn, SignedIn
  <2>2. ASSUME u \in Ready'
        PROVE  StoredIn(canvas[u])' /\ SignedIn(canvas[u])'
    <3>1. canvas'[u] = canvas[u] /\ u \in Ready /\ Signed(u)
      BY <2>2, SaveTabs
    <3>2. StoredIn(canvas[u]) /\ SignedIn(canvas[u])
      BY <3>1 DEF CalmInv, SignedTabs
    <3> QED
      BY <1>3, <3>1, <3>2 DEF StoredIn, SignedIn
  <2> QED
    BY <2>1, <2>2
<1>5. LocalTabs'
  <2> SUFFICES ASSUME NEW u \in Tabs
               PROVE  /\ u \in Ready' /\ Nonuser(u)' =>
                           /\ In(local') \subseteq canvas'[u]
                           /\ local' # None /\ ~Waits(u)' => canvas'[u] \subseteq local'
                           /\ \A v \in Tabs : Nonuser(v)' /\ Waits(v)' => pending'[v] = canvas'[u]
                      /\ u \notin Ready' /\ auth'[u] = "loading" =>
                            local' = None /\ \A v \in Tabs : Nonuser(v)' => ~Waits(v)'
    BY DEF LocalTabs
  <2>1. Nonuser(u)' /\ Waits(u) => Waits(u)'
    <3>1. Nonuser(u)' /\ u = t => ~Waits(u)
      BY SaveTabs DEF SavedToApi, NotSaved, Signed, Nonuser
    <3>2. u # t => pending'[u] = pending[u]
      BY DEF SavesOf, Same
    <3> QED
      BY <3>1, <3>2 DEF Waits
  <2> QED
    BY <1>0, <2>1, SaveTabs DEF CalmInv, LocalTabs, Nonuser
<1>6. Fresh'
  <2> SUFFICES ASSUME NEW u \in Tabs, Nonuser(u)', Waits(u)', local' # None
               PROVE  /\ In(server') \cap pending'[u] \subseteq local'
                      /\ \A p \in puts' : p.edits \cap pending'[u] \subseteq local'
                      /\ \A v \in Tabs : Signed(v)' => In(pending'[v]) \cap pending'[u] \subseteq local'
    BY DEF Fresh
  <2>1. Nonuser(u) /\ Waits(u) /\ pending'[u] = pending[u]
    BY SaveTabs
  <2>2. /\ In(server) \cap pending[u] \subseteq local
        /\ \A p \in puts : p.edits \cap pending[u] \subseteq local
        /\ \A v \in Tabs : Signed(v) => In(pending[v]) \cap pending[u] \subseteq local
    BY <1>0, <2>1 DEF CalmInv, Fresh
  <2>3. \A p \in puts' : p.edits \cap pending[u] \subseteq local
    BY <1>1, <2>2
  <2> QED
    BY <1>0, <2>1, <2>2, <2>3, SaveTabs
<1>7. Migration'
  <2> SUFFICES ASSUME NEW p \in Moving'
               PROVE  /\ local' = p.edits
                      /\ \A q \in Moving' : q = p
                      /\ \A u \in Tabs :
                            /\ auth'[u] # "guest"
                            /\ auth'[u] = "loading" => canvas'[u] = local' /\ UnsavedIn(local)'
    BY DEF Migration
  <2>1. p \in Moving /\ Moving' \subseteq Moving
    BY DEF SavesOf
  <2>2. UnsavedIn(local) => UnsavedIn(local)'
    BY <1>0, SaveTabs DEF UnsavedIn
  <2> QED
    BY <1>0, <2>1, <2>2, SaveTabs DEF CalmInv, Migration, Nonuser
<1>8. MovedOut'
  <2> SUFFICES ASSUME local = None, NEW u \in Tabs
               PROVE  /\ auth'[u] = "loading" /\ u \in Ready' => StoredIn(canvas[u])' /\ UnsavedIn(canvas[u])'
                      /\ auth'[u] = "guest" /\ Waits(u)' =>
                           /\ \A v \in Tabs \ {u} : ~Waits(v)'
                           /\ \E e \in pending'[u] : e \notin In(server') /\ \A p \in puts' : e \notin p.edits
                      /\ Nonuser(u)' /\ Waits(u)' => \A v \in Tabs : Signed(v)' =>
                           /\ v \in Ready' => pending'[u] \subseteq canvas'[v]
                           /\ Waits(v)' => pending'[u] \subseteq pending'[v]
    BY <1>0 DEF MovedOut
  <2>1. ASSUME auth'[u] = "loading", u \in Ready'
        PROVE  StoredIn(canvas[u])' /\ UnsavedIn(canvas[u])'
    <3>1. auth[u] = "loading" /\ u \in Ready /\ canvas'[u] = canvas[u]
      BY <2>1, SaveTabs DEF Nonuser
    <3>2. StoredIn(canvas[u]) /\ UnsavedIn(canvas[u])
      BY <3>1 DEF CalmInv, MovedOut
    <3>3. SignedIn(canvas[u])
      BY <3>2 DEF UnsavedIn, SignedIn
    <3>4. StoredIn(canvas[u])'
      BY <1>3, <3>1, <3>2, <3>3 DEF StoredIn
    <3>5. UnsavedIn(canvas[u])'
      BY <3>1, <3>2, SaveTabs DEF UnsavedIn
    <3> QED
      BY <3>4, <3>5
  <2>2. ASSUME auth'[u] = "guest", Waits(u)'
        PROVE  /\ \A v \in Tabs \ {u} : ~Waits(v)'
               /\ \E e \in pending'[u] : e \notin In(server') /\ \A p \in puts' : e \notin p.edits
    <3>1. auth[u] = "guest" /\ Waits(u) /\ pending'[u] = pending[u] /\ u # t
      BY <2>2, SaveTabs
    <3>2. /\ \A v \in Tabs \ {u} : ~Waits(v)
          /\ \E e \in pending[u] : e \notin In(server) /\ \A p \in puts : e \notin p.edits
      BY <3>1 DEF CalmInv, MovedOut
    <3>3. ~Waits(t)
      BY <3>1, <3>2
    <3>4. \A p \in puts' : \E q \in puts : p.edits = q.edits
      BY <1>1, <3>3
    <3> QED
      BY <1>0, <3>1, <3>2, <3>4, SaveTabs
  <2>3. ASSUME Nonuser(u)', Waits(u)', NEW v \in Tabs, Signed(v)'
        PROVE  /\ v \in Ready' => pending'[u] \subseteq canvas'[v]
               /\ Waits(v)' => pending'[u] \subseteq pending'[v]
    BY <2>3, SaveTabs DEF CalmInv, MovedOut
  <2> QED
    BY <2>1, <2>2, <2>3
<1> QED
  BY <1>2, <1>4, <1>5, <1>6, <1>7, <1>8 DEF CalmInv

(* A tab that saves to local storage has all of the local copy, and the    *)
(* other tabs that wait have the same as it.                               *)
LEMMA SaveCalmLocal ==
  ASSUME IInv, Shape, CalmInv, NEW t \in Tabs, SavesOf(t), SavedLocally(t)
  PROVE  CalmInv'
<1> DEFINE S == pending[t]
<1>0. /\ server' = server /\ local' = S /\ S # None /\ In(S) = S
      /\ t \in Ready /\ canvas[t] = S /\ Nonuser(t) /\ Waits(t)
  BY Nothing DEF SavesOf, SavedLocally, Waits, Shape, TabsShow
<1>1. /\ \A p \in puts' : \E q \in puts : p.edits = q.edits
      /\ auth[t] # "user"
  BY <1>0 DEF SavesOf, Signed, Nonuser
<1> HIDE DEF S
<1>2. ASSUME NEW u \in Tabs, u \in Ready, Nonuser(u)
      PROVE  canvas[u] = S
  BY <1>0, <1>2 DEF CalmInv, LocalTabs, S
<1>3. ASSUME NEW u \in Tabs, Nonuser(u), Waits(u)
      PROVE  pending[u] = S
  BY <1>2, <1>3 DEF Shape, TabsShow
<1>4. \A u \in Tabs : Nonuser(u) => u \in Ready
  <2> SUFFICES ASSUME NEW u \in Tabs, Nonuser(u), u \notin Ready PROVE FALSE
    OBVIOUS
  <2>1. auth[u] = "loading"
    BY DEF Nonuser, Shape, TabsShow
  <2> QED
    BY <1>0, <2>1 DEF CalmInv, LocalTabs
<1>5. RowGrows'
  <2>1. \A p, q \in puts' : p.edits = q.edits
    BY <1>1 DEF CalmInv, RowGrows
  <2>2. \A p \in puts' : In(server) \subseteq p.edits
    BY <1>1 DEF CalmInv, RowGrows
  <2> QED
    BY <1>0, <2>1, <2>2, SaveTabs DEF CalmInv, RowGrows
<1>6. SignedTabs'
  <2> SUFFICES ASSUME NEW u \in Tabs, Signed(u)'
               PROVE  /\ Waits(u)' => StoredIn(pending[u])' /\ SignedIn(pending[u])'
                      /\ u \in Ready' => StoredIn(canvas[u])' /\ SignedIn(canvas[u])'
    BY DEF SignedTabs
  <2>1. ASSUME NEW X, StoredIn(X), SignedIn(X)
        PROVE  /\ In(server') \subseteq X /\ \A p \in puts' : p.edits \subseteq X
               /\ \A v \in Tabs : Signed(v)' => In(pending'[v]) \subseteq X
    BY <1>0, <1>1, <2>1, SaveTabs DEF StoredIn, SignedIn
  <2>2. Waits(u)' => StoredIn(pending[u])' /\ SignedIn(pending[u])'
    BY <2>1, SaveTabs DEF CalmInv, SignedTabs, StoredIn, SignedIn
  <2>3. u \in Ready' => StoredIn(canvas[u])' /\ SignedIn(canvas[u])'
    BY <2>1, SaveTabs DEF CalmInv, SignedTabs, StoredIn, SignedIn
  <2> QED
    BY <2>2, <2>3
<1>7. LocalTabs'
  <2> SUFFICES ASSUME NEW u \in Tabs, Nonuser(u)'
               PROVE  /\ u \in Ready' /\ canvas'[u] = S /\ In(local') = S /\ local' = S
                      /\ \A v \in Tabs : Nonuser(v)' /\ Waits(v)' => pending'[v] = S
    BY <1>0 DEF LocalTabs, Nonuser
  <2>1. Nonuser(u) /\ canvas'[u] = canvas[u] /\ (u \in Ready' <=> u \in Ready)
    BY SaveTabs
  <2>2. \A v \in Tabs : Nonuser(v)' /\ Waits(v)' => pending'[v] = S
    BY <1>3, SaveTabs
  <2> QED
    BY <1>0, <1>2, <1>4, <2>1, <2>2
<1>8. Fresh'
  <2>1. \A u \in Tabs : Nonuser(u)' /\ Waits(u)' => pending'[u] = S
    BY <1>3, SaveTabs
  <2> QED
    BY <1>0, <2>1 DEF Fresh
<1>9. Migration'
  <2> SUFFICES ASSUME NEW p \in Moving'
               PROVE  /\ local' = p.edits
                      /\ \A q \in Moving' : q = p
                      /\ \A u \in Tabs :
                            /\ auth'[u] # "guest"
                            /\ auth'[u] = "loading" => canvas'[u] = local' /\ UnsavedIn(local)'
    BY DEF Migration
  <2>1. p \in Moving /\ Moving' \subseteq Moving
    BY DEF SavesOf
  <2>2. auth[t] = "loading"
    BY <1>0, <2>1 DEF CalmInv, Migration, Nonuser
  <2>3. local = S /\ UnsavedIn(local)
    BY <1>0, <2>1, <2>2 DEF CalmInv, Migration
  <2>4. UnsavedIn(local)'
    BY <1>0, <2>3, SaveTabs DEF UnsavedIn
  <2> QED
    BY <1>0, <2>1, <2>3, <2>4, SaveTabs DEF CalmInv, Migration, Nonuser
<1>10. MovedOut'
  BY <1>0 DEF MovedOut
<1> QED
  BY <1>5, <1>6, <1>7, <1>8, <1>9, <1>10 DEF CalmInv
LEMMA SaveHolds ==
  ASSUME IInv, KeepInv, Owing, NEW t \in Tabs, SavesOf(t),
         \/ SavedToApi(t) \/ SavedLocally(t) \/ NotSaved(t)
         \/ calm' = FALSE /\ local' = local
  PROVE  KeepInv' /\ Owing'
<1>1. Shape'
  BY SaveShape DEF KeepInv, SavedToApi, NotSaved
<1>2. ASSUME calm' = TRUE
      PROVE  CalmInv' /\ \A e \in owed' : HasEdit(e)'
  <2>1. FALSE # TRUE
    OBVIOUS
  <2>2. SavedToApi(t) \/ SavedLocally(t) \/ NotSaved(t)
    BY <1>2, <2>1, Zenon
  <2>3. Shape /\ CalmInv /\ \A e \in owed : HasEdit(e)
    BY <1>2 DEF SavesOf, KeepInv, Owing
  <2>4. CalmInv'
    BY <1>2, <2>2, <2>3, SaveCalmApi, SaveCalmLocal
  <2>5. owed' = owed
    BY DEF SavesOf
  <2> QED
    BY <2>2, <2>3, <2>4, <2>5, SaveHas
<1> QED
  BY <1>1, <1>2, Zenon DEF KeepInv, Owing

(* The set of PUTs after a save, from those it joins. *)
LEMMA SavedPuts ==
  ASSUME IInv, BoundedIds, NEW t \in Tabs, Waits(t), NEW kept, SaveTo(kept, t, pending[t]),
         auth[t] # "closed"
  PROVE  /\ \A p \in puts' : p \in kept \/ (Signed(t) /\ p.edits = pending[t] /\ p.mover = None)
         /\ kept \subseteq puts'
         /\ calm' = TRUE => calm = TRUE
         /\ \/ /\ Signed(t) /\ local' = local
               /\ \E p \in puts' : p.edits = pending[t]
               /\ calm' = TRUE => \A q \in puts : q.edits = pending[t]
            \/ Nonuser(t) /\ local' = pending[t]
            \/ calm' = FALSE /\ local' = local
<1>1. CASE auth[t] = "user"
  <2> DEFINE new == [id |-> NextId, edits |-> pending[t], mover |-> None]
  <2>1. /\ puts' = kept \cup {new} /\ local' = local
        /\ calm' = (calm /\ ~Overlaps(pending[t]))
    BY <1>1, Zenon DEF SaveTo
  <2>2. new.edits = pending[t] /\ new.mover = None
    OBVIOUS
  <2> HIDE DEF new
  <2>3. calm' = TRUE => calm = TRUE /\ ~Overlaps(pending[t])
    BY <2>1, Zenon
  <2>4. calm' = TRUE => \A q \in puts : q.edits = pending[t]
    BY <2>3, Zenon DEF Overlaps
  <2>5. \A p \in puts' : p \in kept \/ (p.edits = pending[t] /\ p.mover = None)
    BY <2>1, <2>2, Zenon
  <2>6. kept \subseteq puts' /\ \E p \in puts' : p.edits = pending[t]
    BY <2>1, <2>2
  <2> QED
    BY <1>1, <2>1, <2>3, <2>4, <2>5, <2>6, Zenon DEF Signed
<1>2. CASE auth[t] # "user"
  <2>1. puts' = kept /\ StoreLocally(pending[t])
    BY <1>2, Zenon DEF SaveTo
  <2>2. Nonuser(t)
    BY <1>2, AuthIs DEF Nonuser, IInv
  <2>3. CASE local' = pending[t]
    <3>1. calm' = TRUE => calm = TRUE
      BY <2>1, Zenon DEF StoreLocally
    <3> QED
      BY <2>1, <2>2, <2>3, <3>1, Zenon
  <2>4. CASE local' # pending[t]
    <3>1. local' = local /\ calm' = FALSE
      BY <2>1, <2>4, Zenon DEF StoreLocally
    <3>2. FALSE # TRUE
      OBVIOUS
    <3> QED
      BY <2>1, <3>1, <3>2, Zenon
  <2> QED
    BY <2>3, <2>4
<1> QED
  BY <1>1, <1>2

LEMMA TimerSaves ==
  ASSUME IInv, BoundedIds, NEW t \in Tabs, TimerFires(t)
  PROVE  /\ SavesOf(t)
         /\ \/ SavedToApi(t) \/ SavedLocally(t)
            \/ calm' = FALSE /\ local' = local
<1>1. /\ SaveTo(puts, t, pending[t]) /\ Waits(t) /\ pending' = [pending EXCEPT ![t] = None]
      /\ session' = session /\ server' = server /\ auth' = auth /\ load' = load
      /\ initial' = initial /\ hydrated' = hydrated /\ canvas' = canvas /\ made' = made
      /\ owed' = owed
  BY Zenon DEF TimerFires, TimerRuns, bounds, Waits
<1>2. auth[t] # "closed"
  BY <1>1 DEF IInv, TabsOK, Waits
<1>3. Ready' = Ready
  BY <1>1, Zenon DEF Ready
<1>4. pending'[t] = None /\ \A u \in Tabs \ {t} : pending'[u] = pending[u]
  BY <1>1 DEF IInv, TabsOK
<1>5. Unchanged(t) /\ \A u \in Tabs \ {t} : Same(u)
  BY <1>1, <1>3, <1>4 DEF Unchanged, Same
<1>6. /\ \A p \in puts' : p \in puts \/ (Signed(t) /\ p.edits = pending[t] /\ p.mover = None)
      /\ puts \subseteq puts' /\ (calm' = TRUE => calm = TRUE)
      /\ SavedToApi(t) \/ SavedLocally(t) \/ (calm' = FALSE /\ local' = local)
  BY <1>1, <1>2, SavedPuts, Zenon DEF SavedToApi, SavedLocally
<1>7. Moving' \subseteq Moving
  <2>1. FALSE # TRUE
    OBVIOUS
  <2> QED
    BY <1>6, <2>1, Zenon DEF Moving
<1> QED
  BY <1>1, <1>5, <1>6, <1>7 DEF SavesOf

(* The PUTs of a page that goes keep their contents. *)
LEMMA OrphanedEdits ==
  ASSUME IInv, NEW t \in Tabs
  PROVE  /\ \A p \in Orphaned(t) : \E q \in puts : p.edits = q.edits
         /\ \A q \in puts : \E p \in Orphaned(t) : p.edits = q.edits
<1>1. ASSUME NEW p \in puts
      PROVE  [p EXCEPT !.mover = None].edits = p.edits
  BY DEF IInv, StoresOK, Put
<1> DEFINE f(p) == IF p.mover = t THEN [p EXCEPT !.mover = None] ELSE p
<1>2. \A p \in puts : f(p).edits = p.edits
  BY <1>1
<1>3. Orphaned(t) = {f(p) : p \in puts}
  BY DEF Orphaned
<1> HIDE DEF f
<1> QED
  BY <1>2, <1>3

LEMMA LeaveSaves ==
  ASSUME IInv, BoundedIds, NEW t \in Tabs, Close(t) \/ Crash(t)
  PROVE  /\ SavesOf(t)
         /\ \/ SavedToApi(t) \/ SavedLocally(t) \/ NotSaved(t)
            \/ calm' = FALSE /\ local' = local
<1>1. Gone(t) /\ auth[t] # "closed"
  BY Zenon DEF Close, Crash, Open
<1>2. /\ session' = session /\ server' = server /\ made' = made /\ owed' = owed
      /\ auth' = [auth EXCEPT ![t] = "closed"] /\ load' = [load EXCEPT ![t] = "idle"]
      /\ initial' = [initial EXCEPT ![t] = None] /\ canvas' = [canvas EXCEPT ![t] = {}]
      /\ pending' = [pending EXCEPT ![t] = None]
      /\ hydrated' = [hydrated EXCEPT ![t] = FALSE]
  BY <1>1, Zenon DEF Gone
<1>3. hydrated'[t] = FALSE /\ \A u \in Tabs \ {t} : hydrated'[u] = hydrated[u]
  BY <1>2, FlagSet, Zenon DEF IInv, FlagsOK
<1>4. t \notin Ready' /\ \A u \in Tabs \ {t} : u \in Ready' <=> u \in Ready
  <2>1. FALSE # TRUE
    OBVIOUS
  <2> QED
    BY <1>3, <2>1, Zenon DEF Ready
<1>5. /\ auth'[t] = "closed" /\ load'[t] = "idle" /\ initial'[t] = None
      /\ canvas'[t] = {} /\ pending'[t] = None
      /\ \A u \in Tabs \ {t} :
            /\ auth'[u] = auth[u] /\ load'[u] = load[u] /\ initial'[u] = initial[u]
            /\ canvas'[u] = canvas[u] /\ pending'[u] = pending[u]
  BY <1>2 DEF IInv, TabsOK
<1>6. Emptied(t) /\ \A u \in Tabs \ {t} : Same(u)
  BY <1>4, <1>5 DEF Emptied, Same
<1>7. /\ \A p \in Orphaned(t) : \E q \in puts : p.edits = q.edits
      /\ \A q \in puts : \E p \in Orphaned(t) : p.edits = q.edits
  BY OrphanedEdits
<1>8. \A p \in Orphaned(t) : p.mover # None => p \in puts
  BY OrphanedType, Zenon DEF IInv
<1>9. ASSUME puts' = Orphaned(t), calm' = TRUE => calm = TRUE
      PROVE  SavesOf(t)
  <2>1. Moving' \subseteq Moving
    BY <1>8, <1>9, Zenon DEF Moving
  <2> QED
    BY <1>2, <1>6, <1>7, <1>9, <2>1 DEF SavesOf
<1>10. CASE Crash(t)
  <2>1. puts' = Orphaned(t) /\ local' = local /\ calm' = FALSE
    BY <1>10, Zenon DEF Crash
  <2>2. FALSE # TRUE
    OBVIOUS
  <2> QED
    BY <1>9, <2>1, <2>2, Zenon
<1>11. CASE Close(t) /\ ~Waits(t)
  <2>1. puts' = Orphaned(t) /\ local' = local /\ calm' = calm
    BY <1>11, Zenon DEF Close, Waits
  <2> QED
    BY <1>9, <1>11, <2>1, Zenon DEF NotSaved
<1>12. CASE Close(t) /\ Waits(t)
  <2>1. SaveTo(Orphaned(t), t, pending[t])
    BY <1>12, Zenon DEF Close, Waits
  <2>2. /\ \A p \in puts' : p \in Orphaned(t) \/ (Signed(t) /\ p.edits = pending[t] /\ p.mover = None)
        /\ Orphaned(t) \subseteq puts' /\ (calm' = TRUE => calm = TRUE)
        /\ SavedToApi(t) \/ SavedLocally(t) \/ (calm' = FALSE /\ local' = local)
    BY <1>1, <1>12, <2>1, SavedPuts, Zenon DEF SavedToApi, SavedLocally
  <2>3. Moving' \subseteq Moving
    <3>1. FALSE # TRUE
      OBVIOUS
    <3> QED
      BY <1>8, <2>2, <3>1, Zenon DEF Moving
  <2>4. /\ \A p \in puts' : \/ \E q \in puts : p.edits = q.edits
                            \/ Signed(t) /\ Waits(t) /\ p.edits = pending[t]
        /\ \A q \in puts : \E p \in puts' : p.edits = q.edits
    BY <1>7, <1>12, <2>2
  <2> QED
    BY <1>2, <1>6, <2>2, <2>3, <2>4 DEF SavesOf
<1> QED
  BY <1>10, <1>11, <1>12

-----------------------------------------------------------------------------
(* Steps that change no content *)

LEMMA FrameHolds ==
  ASSUME KeepInv, Owing, session' \in {session, "user"}, hydrated' = hydrated, calm' = calm,
         UNCHANGED <<server, local, puts, made, owed, auth, canvas, pending>>,
         \A u \in Tabs :
            /\ initial'[u] \in {initial[u], server} /\ (auth[u] = "closed" => initial'[u] = initial[u])
            /\ load'[u] = "read" =>
                  (load[u] = "read" /\ initial'[u] = initial[u]) \/ initial'[u] = server
  PROVE  KeepInv' /\ Owing'
<1>1. Ready' = Ready /\ Moving' = Moving /\ calm' = calm
  BY Zenon DEF Ready, Moving
<1>2. Shape'
  <2>1. ContentsReal'
    BY DEF KeepInv, Shape, ContentsReal, Real
  <2>2. TabsShow'
    BY <1>1 DEF KeepInv, Shape, TabsShow, Nonuser, Waits
  <2>3. GuestSession'
    BY <1>1 DEF KeepInv, Shape, GuestSession
  <2> QED
    BY <2>1, <2>2, <2>3 DEF Shape
<1>3. ASSUME calm = TRUE
      PROVE  CalmInv'
  <2>0. RowGrows /\ SignedTabs /\ LocalTabs /\ Fresh /\ Migration /\ MovedOut
    BY <1>3 DEF KeepInv, CalmInv
  <2>1. RowGrows'
    <3>1. \A u \in Tabs : load'[u] = "read" => In(initial'[u]) \subseteq In(server)
      BY <2>0 DEF RowGrows
    <3> QED
      BY <2>0, <3>1 DEF RowGrows
  <2>2. SignedTabs'
    BY <1>1, <2>0 DEF SignedTabs, Signed, Waits, StoredIn, SignedIn
  <2>3. LocalTabs'
    BY <1>1, <2>0 DEF LocalTabs, Nonuser, Waits
  <2>4. Fresh'
    BY <2>0 DEF Fresh, Nonuser, Waits, Signed
  <2>5. Migration'
    BY <1>1, <2>0 DEF Migration, UnsavedIn
  <2>6. MovedOut'
    BY <1>1, <2>0 DEF MovedOut, Nonuser, Waits, Signed, StoredIn, UnsavedIn
  <2> QED
    BY <2>1, <2>2, <2>3, <2>4, <2>5, <2>6 DEF CalmInv
<1>4. \A e : HasEdit(e)' <=> HasEdit(e)
  BY DEF HasEdit
<1>5. Owing'
  BY <1>1, <1>4, Zenon DEF Owing
<1> QED
  BY <1>1, <1>2, <1>3, <1>5, Zenon DEF KeepInv

LEMMA QuietHolds ==
  ASSUME KeepInv, Owing,
         SignIn \/ UNCHANGED vars \/ \E t \in Tabs : StartTurn(t) \/ EndTurn(t)
  PROVE  KeepInv' /\ Owing'
<1>1. /\ session' \in {session, "user"}
      /\ UNCHANGED <<server, local, puts, made, owed, auth, canvas, pending>>
      /\ hydrated' = hydrated /\ calm' = calm /\ load' = load /\ initial' = initial
  BY Zenon DEF SignIn, StartTurn, EndTurn, vars, tabs, bounds
<1> QED
  BY <1>1, FrameHolds

LEMMA ReadHolds ==
  ASSUME IInv, KeepInv, Owing, NEW t \in Tabs, ReadRow(t)
  PROVE  KeepInv' /\ Owing'
<1>1. /\ session' = session
      /\ UNCHANGED <<server, local, puts, made, owed, auth, canvas, pending>>
      /\ hydrated' = hydrated /\ calm' = calm /\ load[t] = "sent"
      /\ load' = [load EXCEPT ![t] = "read"] /\ initial' = [initial EXCEPT ![t] = server]
  BY Zenon DEF ReadRow, bounds
<1>2. auth[t] = "user"
  BY <1>1, Zenon DEF IInv, LoadInv
<1>3. /\ initial'[t] = server
      /\ \A u \in Tabs \ {t} : load'[u] = load[u] /\ initial'[u] = initial[u]
  BY <1>1 DEF IInv, TabsOK
<1> QED
  BY <1>1, <1>2, <1>3, FrameHolds

-----------------------------------------------------------------------------
(* The end of a PUT *)

(* A row that lands has all that the row had; a migration that ends leaves *)
(* the local copy in the row.                                              *)
LEMMA LandHolds ==
  ASSUME IInv, KeepInv, Owing, NEW p \in puts, Land(p)
  PROVE  KeepInv' /\ Owing'
<1>1. /\ server' = p.edits /\ puts' = puts \ {p}
      /\ session' = session /\ made' = made /\ owed' = owed
      /\ auth' = auth /\ load' = load /\ initial' = initial /\ canvas' = canvas
      /\ pending' = pending /\ hydrated' = hydrated /\ calm' = calm
      /\ local' \in IF p.mover = None THEN {local} ELSE {None, local}
  BY Zenon DEF Land, Ends, tabs
<1>2. Ready' = Ready
  BY <1>1, Zenon DEF Ready
<1>3. \/ p \in Moving /\ local' = None /\ Moving' = Moving \ {p}
      \/ local' = local /\ Moving' = Moving \ {p}
  <2>1. Moving' = Moving \ {p}
    BY <1>1 DEF Moving
  <2>2. p \in Moving <=> p.mover # None
    BY DEF Moving
  <2> QED
    BY <1>1, <2>1, <2>2
<1>4. p.edits # None /\ In(p.edits) = p.edits /\ Real(p.edits)
  BY Contents DEF IInv, StoresOK, Put, KeepInv, Shape, ContentsReal
<1>5. Shape'
  <2>1. Real(None)
    BY ProjectOK, Nothing DEF Real, ProjectOK
  <2>2. ContentsReal'
    BY <1>1, <1>3, <1>4, <2>1 DEF KeepInv, Shape, ContentsReal, Real
  <2>3. TabsShow'
    BY <1>1, <1>2 DEF KeepInv, Shape, TabsShow, Nonuser, Waits
  <2>4. GuestSession'
    BY <1>1 DEF KeepInv, Shape, GuestSession
  <2> QED
    BY <2>2, <2>3, <2>4 DEF Shape
<1>6. ASSUME calm = TRUE
      PROVE  CalmInv' /\ \A e \in owed' : HasEdit(e)'
  <2>0. RowGrows /\ SignedTabs /\ LocalTabs /\ Fresh /\ Migration /\ MovedOut
    BY <1>6 DEF KeepInv, CalmInv
  <2>1. In(server) \subseteq p.edits /\ \A q \in puts : q.edits = p.edits
    BY <2>0 DEF RowGrows
  <2>2. In(server') = p.edits
    BY <1>1, <1>4
  <2>3. \A S : StoredIn(S) => In(server') \subseteq S /\ \A q \in puts' : q.edits \subseteq S
    BY <1>1, <2>2 DEF StoredIn
  <2>4. RowGrows'
    <3>1. \A u \in Tabs : load'[u] = "read" => In(initial'[u]) \subseteq In(server')
      BY <1>1, <2>0, <2>1, <2>2 DEF RowGrows
    <3>2. \A q \in puts' : In(server') \subseteq q.edits
      BY <1>1, <2>1, <2>2
    <3> QED
      BY <1>1, <2>1, <3>1, <3>2 DEF RowGrows
  <2>5. SignedTabs'
    BY <1>1, <1>2, <2>0, <2>3 DEF SignedTabs, Signed, Waits, StoredIn, SignedIn
  <2>6. CASE local' = local /\ Moving' = Moving \ {p}
    <3>1. LocalTabs'
      BY <1>1, <1>2, <2>0, <2>6 DEF LocalTabs, Nonuser, Waits
    <3>2. Fresh'
      BY <1>1, <2>0, <2>2, <2>6 DEF Fresh, Nonuser, Waits, Signed
    <3>3. Migration'
      BY <1>1, <2>0, <2>6 DEF Migration, UnsavedIn
    <3>4. MovedOut'
      <4> SUFFICES ASSUME local = None
                   PROVE  MovedOut'
        BY <2>6 DEF MovedOut
      <4>1. \A u \in Tabs : auth'[u] = "loading" /\ u \in Ready' =>
               StoredIn(canvas[u])' /\ UnsavedIn(canvas[u])'
        BY <1>1, <1>2, <2>0, <2>3 DEF MovedOut, StoredIn, UnsavedIn
      <4>2. \A u \in Tabs : auth'[u] = "guest" /\ Waits(u)' =>
               /\ \A v \in Tabs \ {u} : ~Waits(v)'
               /\ \E e \in pending'[u] : e \notin In(server') /\ \A q \in puts' : e \notin q.edits
        BY <1>1, <2>0, <2>2 DEF MovedOut, Waits
      <4> QED
        BY <1>1, <1>2, <2>0, <4>1, <4>2 DEF MovedOut, Nonuser, Waits, Signed
    <3>5. \A e : HasEdit(e) => HasEdit(e)'
      BY <1>1, <2>1, <2>2, <2>6 DEF HasEdit
    <3> QED
      BY <1>1, <1>6, <2>0, <2>4, <2>5, <3>1, <3>2, <3>3, <3>4, <3>5 DEF CalmInv, Owing
  <2>7. CASE local' = None /\ p \in Moving /\ Moving' = Moving \ {p}
    <3>0. /\ local = p.edits /\ Moving' = {}
          /\ \A u \in Tabs : auth[u] # "guest"
          /\ \A u \in Tabs : auth[u] = "loading" => canvas[u] = p.edits /\ UnsavedIn(p.edits)
      BY <2>0, <2>7 DEF Migration
    <3>1. LocalTabs'
      BY <1>1, <1>2, <1>4, <2>0, <2>7, <3>0, Nothing DEF LocalTabs, Nonuser, Waits
    <3>2. Fresh'
      BY <2>7 DEF Fresh
    <3>3. Migration'
      BY <3>0 DEF Migration
    <3>4. MovedOut'
      <4> SUFFICES ASSUME NEW u \in Tabs
                   PROVE  /\ auth'[u] = "loading" /\ u \in Ready' =>
                               StoredIn(canvas[u])' /\ UnsavedIn(canvas[u])'
                          /\ auth'[u] # "guest"
                          /\ Nonuser(u)' /\ Waits(u)' => \A v \in Tabs : Signed(v)' =>
                                /\ v \in Ready' => pending'[u] \subseteq canvas'[v]
                                /\ Waits(v)' => pending'[u] \subseteq pending'[v]
        BY DEF MovedOut
      <4>1. auth'[u] = "loading" => StoredIn(canvas[u])' /\ UnsavedIn(canvas[u])'
        BY <1>1, <2>1, <2>2, <3>0 DEF StoredIn, UnsavedIn
      <4>2. ASSUME Nonuser(u)', Waits(u)', NEW v \in Tabs, Signed(v)'
            PROVE  /\ v \in Ready' => pending'[u] \subseteq canvas'[v]
                   /\ Waits(v)' => pending'[u] \subseteq pending'[v]
        <5>1. pending[u] = p.edits
          BY <1>1, <3>0, <4>2 DEF KeepInv, Shape, TabsShow, Nonuser, Waits
        <5>2. p \in puts
          OBVIOUS
        <5> QED
          BY <1>1, <1>2, <2>0, <4>2, <5>1, <5>2 DEF SignedTabs, Signed, Waits, StoredIn
      <4> QED
        BY <1>1, <3>0, <4>1, <4>2
    <3>5. \A e : HasEdit(e) => HasEdit(e)'
      BY <1>1, <1>4, <2>1, <2>2, <3>0 DEF HasEdit
    <3> QED
      BY <1>1, <1>6, <2>0, <2>4, <2>5, <3>1, <3>2, <3>3, <3>4, <3>5 DEF CalmInv, Owing
  <2> QED
    BY <1>3, <2>6, <2>7
<1> QED
  BY <1>1, <1>5, <1>6, Zenon DEF KeepInv, Owing

LEMMA LoseHolds ==
  ASSUME KeepInv, NEW p \in puts, Lose(p)
  PROVE  KeepInv' /\ Owing'
<1>1. /\ puts' \subseteq puts /\ server' = server
      /\ session' = session /\ made' = made
      /\ auth' = auth /\ initial' = initial /\ canvas' = canvas
      /\ pending' = pending /\ hydrated' = hydrated /\ local' \in {None, local}
  BY Zenon DEF Lose, Ends, tabs
<1>2. Ready' = Ready
  BY <1>1, Zenon DEF Ready
<1>3. Real(None)
  BY ProjectOK, Nothing DEF Real, ProjectOK
<1>4. ContentsReal'
  BY <1>1, <1>3 DEF KeepInv, Shape, ContentsReal, Real
<1>5. TabsShow'
  BY <1>1, <1>2 DEF KeepInv, Shape, TabsShow, Nonuser, Waits
<1>6. GuestSession'
  BY <1>1 DEF KeepInv, Shape, GuestSession
<1>7. calm' = FALSE /\ FALSE # TRUE
  BY DEF Lose
<1> QED
  BY <1>4, <1>5, <1>6, <1>7, Zenon DEF KeepInv, Shape, Owing
-----------------------------------------------------------------------------
(* The page opens *)

(* A tab that waits for its load has nothing yet. *)
LEMMA MountApiHolds ==
  ASSUME KeepInv, Owing, NEW t \in Tabs, auth[t] = "closed", t \notin Ready',
         \A u \in Tabs \ {t} : Same(u),
         auth'[t] = "user", load'[t] = "sent", initial'[t] = initial[t], canvas'[t] = canvas[t],
         pending'[t] = pending[t],
         session' = session, session = "user", server' = server, local' = local, puts' = puts,
         made' = made, owed' = owed, calm' = TRUE => calm = TRUE
  PROVE  KeepInv' /\ Owing'
<1>1. pending' [t] = None /\ pending[t] = None /\ initial'[t] = None /\ canvas'[t] = {}
  BY DEF KeepInv, Shape, TabsShow
<1>2. Moving' = Moving
  BY Zenon DEF Moving
<1>3. Shape'
  <2>1. ContentsReal'
    BY DEF KeepInv, Shape, ContentsReal, Real, Same
  <2>2. TabsShow'
    BY <1>1 DEF KeepInv, Shape, TabsShow, Nonuser, Waits, Same
  <2>3. GuestSession'
    BY DEF GuestSession
  <2> QED
    BY <2>1, <2>2, <2>3 DEF Shape
<1>4. \A u \in Tabs : pending'[u] = pending[u]
  BY DEF Same
<1>5. ASSUME calm = TRUE
      PROVE  CalmInv'
  <2>0. RowGrows /\ SignedTabs /\ LocalTabs /\ Fresh /\ Migration /\ MovedOut
    BY <1>5 DEF KeepInv, CalmInv
  <2>1. RowGrows'
    BY <2>0 DEF RowGrows, Same
  <2>2. SignedTabs'
    BY <1>1, <1>4, <2>0, Nothing DEF SignedTabs, Signed, Waits, StoredIn, SignedIn, Same
  <2>3. LocalTabs'
    BY <1>4, <2>0 DEF LocalTabs, Nonuser, Waits, Same
  <2>4. Fresh'
    BY <1>1, <1>4, <2>0, Nothing DEF Fresh, Nonuser, Waits, Signed, Same
  <2>5. Migration'
    BY <1>2, <1>4, <2>0 DEF Migration, UnsavedIn, Same
  <2>6. MovedOut'
    BY <1>1, <1>4, <2>0 DEF MovedOut, Nonuser, Waits, Signed, StoredIn, UnsavedIn, Same
  <2> QED
    BY <2>1, <2>2, <2>3, <2>4, <2>5, <2>6 DEF CalmInv
<1>6. \A e : HasEdit(e)' <=> HasEdit(e)
  BY <1>4 DEF HasEdit
<1> QED
  BY <1>3, <1>5, <1>6, Zenon DEF KeepInv, Owing

(* A tab that reads the local copy has all that no other has saved. *)
LEMMA MountLocalHolds ==
  ASSUME IInv, KeepInv, Owing, NEW t \in Tabs, auth[t] = "closed",
         NEW a \in {"loading", session}, a # "user", NEW found \in {local, None},
         \A u \in Tabs \ {t} : Same(u),
         auth'[t] = a, load'[t] = "idle", initial'[t] = found, canvas'[t] = In(found),
         pending'[t] = found, t \in Ready' <=> found # None \/ a # "loading",
         session' = session, server' = server, local' = local, puts' = puts,
         made' = made, owed' = owed,
         calm' = TRUE => calm = TRUE /\ found = local /\ Unsaved \subseteq In(local)
  PROVE  KeepInv' /\ Owing'
<1>0. /\ a \in {"loading", "guest"} /\ (a = "guest" => session = "guest")
      /\ pending[t] = None
  BY DEF IInv, StoresOK, KeepInv, Shape, TabsShow
<1>1. Moving' = Moving
  BY Zenon DEF Moving
<1>2. Real(local) /\ In(local) \subseteq 1..made /\ (local # None => In(local) = local)
      /\ (local = None => In(local) = {})
      /\ Real(found) /\ In(found) \subseteq 1..made /\ (found # None => In(found) = found)
      /\ (found # None => local # None)
  BY ProjectOK, Nothing DEF ProjectOK, KeepInv, Shape, ContentsReal, Real
<1>3. Shape'
  <2>1. ContentsReal'
    BY <1>2 DEF KeepInv, Shape, ContentsReal, Real, Same
  <2>2. TabsShow'
    BY <1>0, <1>2 DEF KeepInv, Shape, TabsShow, Nonuser, Waits, Same
  <2>3. GuestSession'
    BY <1>0 DEF KeepInv, Shape, GuestSession, Same
  <2> QED
    BY <2>1, <2>2, <2>3 DEF Shape
<1>4. ASSUME calm = TRUE, found = local, Unsaved \subseteq In(local)
      PROVE  CalmInv'
  <2>0. RowGrows /\ SignedTabs /\ LocalTabs /\ Fresh /\ Migration /\ MovedOut
    BY <1>4 DEF KeepInv, CalmInv
  <2>1. \A u \in Tabs : In(pending[u]) \subseteq In(local)
    BY <1>4 DEF Unsaved
  <2>2. \A u \in Tabs \ {t} : Waits(u) => local # None /\ pending[u] \subseteq local
    BY <1>2, <2>1, Nothing DEF Waits, KeepInv, Shape, ContentsReal, Real
  <2>3. \A u \in Tabs : In(pending'[u]) \subseteq In(local)
    BY <1>4, <2>1 DEF Same
  <2>4. \A u \in Tabs : Signed(u)' => u # t /\ Signed(u) /\ Same(u)
    BY <1>0 DEF Signed, Same
  <2>5. RowGrows'
    BY <2>0 DEF RowGrows, Same
  <2>6. SignedTabs'
    BY <2>0, <2>4 DEF SignedTabs, Signed, Waits, StoredIn, SignedIn, Same
  <2>7. ASSUME NEW u \in Tabs, Nonuser(u)', Waits(u)'
        PROVE  local # None /\ pending'[u] = local
    <3>1. CASE u = t
      BY <1>4, <2>7, <3>1 DEF Waits
    <3>2. CASE u # t
      <4>1. Nonuser(u) /\ Waits(u) /\ pending'[u] = pending[u]
        BY <2>7, <3>2 DEF Same, Nonuser, Waits
      <4>2. local # None /\ pending[u] \subseteq local
        BY <2>2, <3>2, <4>1
      <4>3. u \in Ready /\ pending[u] = canvas[u]
        BY <4>1 DEF KeepInv, Shape, TabsShow
      <4>4. In(local) \subseteq canvas[u]
        BY <2>0, <4>1, <4>3 DEF LocalTabs
      <4> QED
        BY <1>2, <4>1, <4>2, <4>3, <4>4
    <3> QED
      BY <3>1, <3>2
  <2>8. LocalTabs'
    <3> SUFFICES ASSUME NEW u \in Tabs, Nonuser(u)'
                 PROVE  /\ u \in Ready' =>
                              /\ In(local) \subseteq canvas'[u]
                              /\ local # None => canvas'[u] = local
                        /\ u \notin Ready' /\ auth'[u] = "loading" => local = None
      BY <2>7 DEF LocalTabs, Nonuser
    <3>1. CASE u = t
      BY <1>2, <1>4, <3>1
    <3>2. CASE u # t
      <4>1. Same(u) /\ Nonuser(u)
        BY <3>2 DEF Same, Nonuser
      <4>2. u \notin Ready' /\ auth'[u] = "loading" => local = None
        BY <2>0, <4>1 DEF LocalTabs, Same
      <4>3. ASSUME u \in Ready, local # None
            PROVE  canvas[u] = local
        <5>1. In(local) \subseteq canvas[u] /\ (~Waits(u) => canvas[u] \subseteq local)
          BY <2>0, <4>1, <4>3 DEF LocalTabs
        <5>2. Waits(u) => canvas[u] = local
          BY <2>7, <3>2, <4>1 DEF KeepInv, Shape, TabsShow, Same, Waits, Nonuser
        <5> QED
          BY <1>2, <4>3, <5>1, <5>2
      <4> QED
        BY <1>2, <2>0, <4>1, <4>2, <4>3 DEF LocalTabs, Same
    <3> QED
      BY <3>1, <3>2
  <2>9. Fresh'
    BY <2>7 DEF Fresh
  <2>10. Migration'
    <3> SUFFICES ASSUME NEW p \in Moving'
                 PROVE  /\ local' = p.edits
                        /\ \A q \in Moving' : q = p
                        /\ \A u \in Tabs :
                              /\ auth'[u] # "guest"
                              /\ auth'[u] = "loading" => canvas'[u] = local' /\ UnsavedIn(local)'
      BY DEF Migration
    <3>1. p \in Moving /\ p \in puts
      BY <1>1 DEF Moving
    <3>2. local = p.edits /\ (\A q \in Moving : q = p)
          /\ \A u \in Tabs : auth[u] # "guest" /\ (auth[u] = "loading" => canvas[u] = local)
      BY <2>0, <3>1 DEF Migration
    <3>3. p.edits # None
      BY <3>1, Contents DEF IInv, StoresOK, Put
    <3>4. a = "loading"
      BY <1>0, <3>1 DEF KeepInv, Shape, GuestSession
    <3>5. UnsavedIn(local)'
      BY <1>2, <2>3, <3>2, <3>3 DEF UnsavedIn
    <3> QED
      BY <1>1, <1>2, <1>4, <3>2, <3>3, <3>4, <3>5 DEF Same
  <2>11. MovedOut'
    <3> SUFFICES ASSUME local = None, NEW u \in Tabs
                 PROVE  /\ auth'[u] = "loading" /\ u \in Ready' =>
                             StoredIn(canvas[u])' /\ UnsavedIn(canvas[u])'
                        /\ ~(Nonuser(u)' /\ Waits(u)')
      BY DEF MovedOut, Nonuser
    <3>1. ASSUME auth'[u] = "loading", u \in Ready'
          PROVE  StoredIn(canvas[u])' /\ UnsavedIn(canvas[u])'
      <4>1. u # t
        BY <1>4, <3>1
      <4>2. StoredIn(canvas[u])
        BY <2>0, <3>1, <4>1 DEF MovedOut, Same
      <4> QED
        BY <1>2, <2>3, <4>1, <4>2 DEF StoredIn, UnsavedIn, Same
    <3> QED
      BY <2>7, <3>1
  <2> QED
    BY <2>5, <2>6, <2>8, <2>9, <2>10, <2>11 DEF CalmInv
<1>5. \A e : HasEdit(e) => HasEdit(e)'
  <2>1. \A u \in Tabs : In(pending[u]) \subseteq In(pending'[u])
    BY <1>0, Nothing DEF Same
  <2> QED
    BY <2>1 DEF HasEdit
<1> QED
  BY <1>3, <1>4, <1>5, Zenon DEF KeepInv, Owing

LEMMA MountHolds ==
  ASSUME IInv, KeepInv, Owing, NEW t \in Tabs, NEW p \in Prompts, Mount(t, p)
  PROVE  KeepInv' /\ Owing'
<1>1. PICK a \in {"loading", session}, found \in {local, None} :
         /\ auth' = [auth EXCEPT ![t] = a]
         /\ IF a = "user" THEN MountApi(t, p) ELSE MountLocal(t, a, p, found)
         /\ calm' = (calm /\ (a = "user" \/ (found = local /\ Unsaved \subseteq In(local))))
  BY Zenon DEF Mount, LocalAnswers
<1>2. /\ auth[t] = "closed" /\ session' = session /\ server' = server /\ local' = local
      /\ puts' = puts /\ made' = made /\ owed' = owed
  BY Zenon DEF Mount, Open
<1>3. auth'[t] = a /\ \A u \in Tabs \ {t} : auth'[u] = auth[u]
  BY <1>1 DEF IInv, TabsOK
<1>4. calm' = TRUE => calm = TRUE /\ (a = "user" \/ (found = local /\ Unsaved \subseteq In(local)))
  BY <1>1, Zenon
<1>5. CASE a = "user"
  <2>1. /\ load' = [load EXCEPT ![t] = "sent"] /\ initial' = initial /\ canvas' = canvas
        /\ pending' = pending /\ hydrated' = hydrated
    BY <1>1, <1>5, Zenon DEF MountApi
  <2>2. load'[t] = "sent" /\ \A u \in Tabs \ {t} : load'[u] = load[u]
    BY <2>1 DEF IInv, TabsOK
  <2>3. Ready' = Ready
    BY <2>1, Zenon DEF Ready
  <2>4. t \notin Ready
    BY <1>2, ReadyIs DEF IInv, LoadInv
  <2>5. \A u \in Tabs \ {t} : Same(u)
    BY <1>3, <2>1, <2>2, <2>3 DEF Same
  <2>6. session = "user"
    BY <1>5
  <2> QED
    BY <1>2, <1>3, <1>4, <1>5, <2>1, <2>2, <2>3, <2>4, <2>5, <2>6, MountApiHolds
<1>6. CASE a # "user"
  <2>1. /\ load' = [load EXCEPT ![t] = "idle"] /\ initial' = [initial EXCEPT ![t] = found]
        /\ canvas' = [canvas EXCEPT ![t] = In(found)]
        /\ pending' = [pending EXCEPT ![t] = found]
        /\ hydrated' = [hydrated EXCEPT ![t] = Hydrates(found, a)]
    BY <1>1, <1>6, Zenon DEF MountLocal
  <2>2. /\ load'[t] = "idle" /\ initial'[t] = found /\ canvas'[t] = In(found) /\ pending'[t] = found
        /\ \A u \in Tabs \ {t} : /\ load'[u] = load[u] /\ initial'[u] = initial[u]
                                 /\ canvas'[u] = canvas[u] /\ pending'[u] = pending[u]
    BY <2>1 DEF IInv, TabsOK
  <2>3. hydrated'[t] = Hydrates(found, a) /\ \A u \in Tabs \ {t} : hydrated'[u] = hydrated[u]
    <3>1. hydrated \in [Tabs -> BOOLEAN]
      BY Zenon DEF IInv, FlagsOK
    <3>2. Hydrates(found, a) \in BOOLEAN
      BY Zenon DEF Hydrates
    <3> QED
      BY <2>1, <3>1, <3>2, FlagSet, Zenon
  <2>4. \A u \in Tabs \ {t} : u \in Ready' <=> u \in Ready
    BY <2>3, Zenon DEF Ready
  <2>5. t \in Ready' <=> found # None \/ a # "loading"
    <3>1. t \in Ready' <=> Hydrates(found, a) = TRUE
      BY <2>3, Zenon DEF Ready
    <3> QED
      BY <3>1, Zenon DEF Hydrates, HydratesNull
  <2>6. \A u \in Tabs \ {t} : Same(u)
    BY <1>3, <2>2, <2>4 DEF Same
  <2>7. calm' = TRUE => calm = TRUE /\ found = local /\ Unsaved \subseteq In(local)
    BY <1>4, <1>6
  <2> QED
    BY <1>2, <1>3, <1>6, <2>2, <2>5, <2>6, <2>7, MountLocalHolds
<1> QED
  BY <1>5, <1>6
-----------------------------------------------------------------------------
(* Clerk resolves *)

(* Nobody is signed in, so a guest that waits has its copy stored.         *)
LEMMA GuestHolds ==
  ASSUME IInv, KeepInv, Owing, NEW t \in Tabs, ResolveGuest(t)
  PROVE  KeepInv' /\ Owing'
<1>1. /\ session = "guest" /\ session' = session /\ server' = server /\ local' = local
      /\ puts' = puts /\ made' = made /\ owed' = owed /\ load' = load /\ initial' = initial
      /\ canvas' = canvas /\ pending' = pending /\ auth[t] = "loading" /\ calm' = calm
      /\ auth' = [auth EXCEPT ![t] = "guest"] /\ hydrated' = [hydrated EXCEPT ![t] = TRUE]
  BY Zenon DEF ResolveGuest, bounds
<1>2. auth'[t] = "guest" /\ \A u \in Tabs \ {t} : auth'[u] = auth[u]
  BY <1>1 DEF IInv, TabsOK
<1>3. t \in Ready' /\ \A u \in Tabs \ {t} : u \in Ready' <=> u \in Ready
  <2>1. hydrated'[t] = TRUE /\ \A u \in Tabs \ {t} : hydrated'[u] = hydrated[u]
    BY <1>1, FlagSet, Zenon DEF IInv, FlagsOK
  <2> QED
    BY <2>1, Zenon DEF Ready
<1>4. /\ puts = {} /\ \A u \in Tabs : auth[u] # "user"
      /\ t \in Ready => local # None
  BY <1>1 DEF KeepInv, Shape, GuestSession
<1>5. Moving' = {}
  BY <1>1, <1>4, Zenon DEF Moving
<1>6. \A u \in Tabs : /\ Waits(u)' <=> Waits(u)
                      /\ Nonuser(u)' <=> Nonuser(u)
                      /\ Nonuser(u) /\ Waits(u) => u \in Ready
                      /\ ~Signed(u)'
  BY <1>1, <1>2, <1>4 DEF Waits, Nonuser, Signed, KeepInv, Shape, TabsShow
<1>7. Shape'
  <2>1. ContentsReal'
    BY <1>1 DEF KeepInv, Shape, ContentsReal, Real
  <2>2. TabsShow'
    BY <1>1, <1>2, <1>3 DEF KeepInv, Shape, TabsShow, Nonuser, Waits
  <2>3. GuestSession'
    BY <1>1, <1>2, <1>3, <1>4 DEF KeepInv, Shape, GuestSession
  <2> QED
    BY <2>1, <2>2, <2>3 DEF Shape
<1>8. ASSUME calm = TRUE
      PROVE  CalmInv'
  <2>0. RowGrows /\ SignedTabs /\ LocalTabs /\ Fresh /\ Migration /\ MovedOut
    BY <1>8 DEF KeepInv, CalmInv
  <2>1. RowGrows'
    BY <1>1, <2>0 DEF RowGrows
  <2>2. SignedTabs'
    BY <1>6 DEF SignedTabs
  <2>3. LocalTabs'
    <3>1. ASSUME NEW u \in Tabs, u \in Ready', Nonuser(u)'
          PROVE  /\ In(local') \subseteq canvas'[u]
                 /\ local' # None /\ ~Waits(u)' => canvas'[u] \subseteq local'
                 /\ \A v \in Tabs : Nonuser(v)' /\ Waits(v)' => pending'[v] = canvas'[u]
      <4>1. CASE u \in Ready
        BY <1>1, <1>6, <2>0, <3>1, <4>1 DEF LocalTabs
      <4>2. CASE u \notin Ready
        <5>1. u = t
          BY <1>3, <3>1, <4>2
        <5>2. local = None /\ \A v \in Tabs : Nonuser(v) => ~Waits(v)
          BY <1>1, <2>0, <4>2, <5>1 DEF LocalTabs
        <5> QED
          BY <1>1, <1>6, <5>2, Nothing
      <4> QED
        BY <4>1, <4>2
    <3>2. ASSUME NEW u \in Tabs, u \notin Ready', auth'[u] = "loading"
          PROVE  local' = None /\ \A v \in Tabs : Nonuser(v)' => ~Waits(v)'
      BY <1>1, <1>2, <1>3, <1>6, <2>0, <3>2 DEF LocalTabs
    <3> QED
      BY <3>1, <3>2 DEF LocalTabs
  <2>4. Fresh'
    BY <1>1, <1>6, <2>0 DEF Fresh
  <2>5. Migration'
    BY <1>5 DEF Migration
  <2>6. MovedOut'
    <3> SUFFICES ASSUME local = None, NEW u \in Tabs
                 PROVE  /\ auth'[u] = "loading" /\ u \in Ready' =>
                             StoredIn(canvas[u])' /\ UnsavedIn(canvas[u])'
                        /\ auth'[u] = "guest" /\ Waits(u)' =>
                              /\ \A v \in Tabs \ {u} : ~Waits(v)'
                              /\ \E e \in pending'[u] : e \notin In(server') /\ \A p \in puts' : e \notin p.edits
      BY <1>1, <1>6 DEF MovedOut
    <3>1. ~Waits(t) /\ t \notin Ready
      BY <1>1, <1>4, <1>6 DEF Nonuser
    <3>2. CASE u = t
      BY <1>2, <1>6, <3>1, <3>2
    <3>3. CASE u # t
      BY <1>1, <1>2, <1>3, <1>6, <2>0, <3>3 DEF MovedOut, StoredIn, UnsavedIn
    <3> QED
      BY <3>2, <3>3
  <2> QED
    BY <2>1, <2>2, <2>3, <2>4, <2>5, <2>6 DEF CalmInv
<1>9. \A e : HasEdit(e)' <=> HasEdit(e)
  BY <1>1 DEF HasEdit
<1> QED
  BY <1>1, <1>7, <1>8, <1>9, Zenon DEF KeepInv, Owing

(* What signing in does to a tab. *)
SignsIn(t) ==
    /\ \A u \in Tabs \ {t} : Same(u)
    /\ auth'[t] = "user" /\ load'[t] = "sent" /\ initial'[t] = None /\ t \notin Ready'
    /\ canvas'[t] = canvas[t] /\ pending'[t] = pending[t]
    /\ session' = "user" /\ server' = server /\ local' = local /\ made' = made /\ owed' = owed
    /\ calm' = TRUE => calm = TRUE /\ ~Conflict(t)

LEMMA SignsInShape ==
  ASSUME IInv, Shape, NEW t \in Tabs, SignsIn(t),
         \A p \in puts' : p \in puts \/ (p.edits = local /\ local # None)
  PROVE  Shape'
<1>1. Real(None)
  BY ProjectOK, Nothing DEF Real, ProjectOK
<1>2. ContentsReal'
  BY <1>1 DEF SignsIn, Shape, ContentsReal, Real, Same
<1>3. TabsShow'
  BY DEF SignsIn, Shape, TabsShow, Nonuser, Waits, Same
<1>4. GuestSession'
  BY DEF SignsIn, GuestSession
<1> QED
  BY <1>2, <1>3, <1>4 DEF Shape

LEMMA SignsInHas ==
  ASSUME NEW t \in Tabs, SignsIn(t), puts \subseteq puts', NEW e, HasEdit(e)
  PROVE  HasEdit(e)'
<1>1. \A u \in Tabs : pending'[u] = pending[u]
  BY DEF SignsIn, Same
<1> QED
  BY <1>1 DEF SignsIn, HasEdit

(* No local copy: nothing is moved, and what the tab holds has all there   *)
(* is, or is all there is to save.                                         *)
LEMMA SignsInBare ==
  ASSUME IInv, Shape, CalmInv, NEW t \in Tabs, Nonuser(t), SignsIn(t), ~Conflict(t),
         local = None, puts' = puts
  PROVE  CalmInv'
<1>0. RowGrows /\ SignedTabs /\ LocalTabs /\ Fresh /\ Migration /\ MovedOut
  BY DEF CalmInv
<1>1. /\ server' = server /\ local' = None /\ \A u \in Tabs : pending'[u] = pending[u]
      /\ \A u \in Tabs : canvas'[u] = canvas[u]
      /\ \A u \in Tabs : u # t => Same(u)
  BY DEF SignsIn, Same
<1>2. Moving' = {}
  <2>1. \A p \in Moving : FALSE
    <3> SUFFICES ASSUME NEW p \in Moving PROVE FALSE
      OBVIOUS
    <3>1. p \in puts /\ local = p.edits
      BY <1>0 DEF Migration, Moving
    <3> QED
      BY <3>1, Contents DEF IInv, StoresOK, Put
  <2> QED
    BY <2>1, Zenon DEF Moving
<1>3. Waits(t) => t \in Ready /\ pending[t] = canvas[t] /\ In(pending[t]) = pending[t]
  BY Nothing DEF Shape, TabsShow, Waits
<1>4. RowGrows'
  BY <1>0 DEF RowGrows, SignsIn, Same
<1>5. ASSUME Waits(t)
      PROVE  StoredIn(pending[t]) /\ SignedIn(pending[t])
  <2>1. CASE auth[t] = "guest"
    <3>1. StoredIn(pending[t])
      BY <1>3, <1>5, <2>1 DEF Conflict, StoredIn, InFlight
    <3>2. \A u \in Tabs \ {t} : ~Waits(u)
      BY <1>0, <1>5, <2>1 DEF MovedOut
    <3>3. SignedIn(pending[t])
      BY <1>3, <3>2, <1>5, Nothing DEF SignedIn, Waits
    <3> QED
      BY <3>1, <3>3
  <2>2. CASE auth[t] = "loading"
    BY <1>0, <1>3, <1>5, <2>2 DEF MovedOut, UnsavedIn, SignedIn
  <2> QED
    BY <2>1, <2>2 DEF Nonuser
<1>6. SignedTabs'
  <2> SUFFICES ASSUME NEW u \in Tabs, Signed(u)'
               PROVE  /\ Waits(u)' => StoredIn(pending[u])' /\ SignedIn(pending[u])'
                      /\ u \in Ready' => StoredIn(canvas[u])' /\ SignedIn(canvas[u])'
    BY DEF SignedTabs
  <2>1. \A S : StoredIn(S) => In(server') \subseteq S /\ \A p \in puts' : p.edits \subseteq S
    BY <1>1 DEF StoredIn
  <2>2. \A S : SignedIn(S) /\ In(pending[t]) \subseteq S =>
           \A v \in Tabs : Signed(v)' => In(pending'[v]) \subseteq S
    BY <1>1 DEF SignedIn, Signed, Same
  <2>3. CASE u = t
    <3>1. Waits(t) => StoredIn(pending[t])' /\ SignedIn(pending[t])'
      BY <1>1, <1>3, <1>5, <2>1, <2>2 DEF StoredIn, SignedIn
    <3> QED
      BY <1>1, <2>3, <3>1 DEF SignsIn, Waits
  <2>4. CASE u # t
    <3>1. Signed(u) /\ (Waits(u)' <=> Waits(u)) /\ (u \in Ready' <=> u \in Ready)
      BY <1>1, <2>4 DEF Same, Signed, Waits
    <3>2. /\ u \in Ready => In(pending[t]) \subseteq canvas[u]
          /\ Waits(u) => In(pending[t]) \subseteq pending[u]
      BY <1>0, <1>3, <3>1, Nothing DEF MovedOut, Waits
    <3>3. Waits(u) => StoredIn(pending[u])' /\ SignedIn(pending[u])'
      BY <1>0, <1>1, <2>1, <2>2, <3>1, <3>2 DEF SignedTabs, StoredIn, SignedIn
    <3>4. u \in Ready => StoredIn(canvas[u])' /\ SignedIn(canvas[u])'
      BY <1>0, <1>1, <2>1, <2>2, <3>1, <3>2 DEF SignedTabs, StoredIn, SignedIn
    <3> QED
      BY <3>1, <3>3, <3>4
  <2> QED
    BY <2>3, <2>4
<1>7. \A u \in Tabs : Nonuser(u)' => u # t /\ Nonuser(u) /\ Same(u)
  BY <1>1 DEF SignsIn, Nonuser, Same
<1>8. LocalTabs'
  BY <1>0, <1>1, <1>7 DEF LocalTabs, Same, Waits, Nonuser
<1>9. Fresh'
  BY <1>1 DEF Fresh
<1>10. Migration'
  BY <1>2 DEF Migration
<1>11. MovedOut'
  <2> SUFFICES ASSUME NEW u \in Tabs, Nonuser(u)', u # t, Nonuser(u), Same(u)
               PROVE  /\ auth'[u] = "loading" /\ u \in Ready' =>
                           StoredIn(canvas[u])' /\ UnsavedIn(canvas[u])'
                      /\ auth'[u] = "guest" /\ Waits(u)' =>
                            /\ \A v \in Tabs \ {u} : ~Waits(v)'
                            /\ \E e \in pending'[u] : e \notin In(server') /\ \A p \in puts' : e \notin p.edits
                      /\ Waits(u)' => \A v \in Tabs : Signed(v)' =>
                            /\ v \in Ready' => pending'[u] \subseteq canvas'[v]
                            /\ Waits(v)' => pending'[u] \subseteq pending'[v]
    BY <1>7 DEF MovedOut, Nonuser
  <2>1. auth'[u] = "loading" /\ u \in Ready' => StoredIn(canvas[u])' /\ UnsavedIn(canvas[u])'
    BY <1>0, <1>1 DEF MovedOut, Same, StoredIn, UnsavedIn
  <2>2. auth'[u] = "guest" /\ Waits(u)' =>
           /\ \A v \in Tabs \ {u} : ~Waits(v)'
           /\ \E e \in pending'[u] : e \notin In(server') /\ \A p \in puts' : e \notin p.edits
    BY <1>0, <1>1 DEF MovedOut, Same, Waits
  <2>3. ASSUME Waits(u)', NEW v \in Tabs, Signed(v)'
        PROVE  /\ v \in Ready' => pending'[u] \subseteq canvas'[v]
               /\ Waits(v)' => pending'[u] \subseteq pending'[v]
    <3>1. CASE v = t
      <4>1. t \notin Ready'
        BY DEF SignsIn
      <4>2. Waits(t)' => pending[t] = pending[u]
        BY <1>0, <1>1, <1>3, <2>3 DEF LocalTabs, Waits
      <4> QED
        BY <1>1, <3>1, <4>1, <4>2
    <3>2. CASE v # t
      BY <1>0, <1>1, <2>3, <3>2 DEF MovedOut, Same, Signed, Waits
    <3> QED
      BY <3>1, <3>2
  <2> QED
    BY <2>1, <2>2, <2>3
<1> QED
  BY <1>4, <1>6, <1>8, <1>9, <1>10, <1>11 DEF CalmInv

(* A local copy is moved, or cannot be read and stays, when no other page  *)
(* is open, and has all that the row has.                                  *)
LEMMA SignsInMoves ==
  ASSUME IInv, Shape, CalmInv, NEW t \in Tabs, Nonuser(t), SignsIn(t), ~Conflict(t),
         local # None, NEW sent, puts' = puts \cup sent,
         \/ sent = {}
         \/ /\ \A p \in puts : p.edits = local
            /\ \E new : sent = {new} /\ new.edits = local /\ new.mover # None
  PROVE  CalmInv'
<1>0. RowGrows /\ SignedTabs /\ LocalTabs /\ Fresh /\ Migration /\ MovedOut
  BY DEF CalmInv
<1>1. /\ server' = server /\ local' = local /\ auth'[t] = "user" /\ pending'[t] = pending[t]
      /\ t \notin Ready' /\ load'[t] = "sent" /\ In(local) = local
  BY Nothing DEF SignsIn
<1>2. \A u \in Tabs \ {t} : auth[u] = "closed" /\ auth'[u] = "closed" /\ load'[u] = "idle"
  BY DEF Conflict, Others, Open, SignsIn, Same, IInv, LoadInv
<1>3. StoredIn(canvas[t])
  BY DEF Conflict, StoredIn, InFlight
<1>4. t \in Ready
  BY <1>0 DEF Shape, TabsShow, Nonuser, LocalTabs
<1>5. /\ local \subseteq canvas[t] /\ (~Waits(t) => canvas[t] \subseteq local)
      /\ Waits(t) => pending[t] = canvas[t]
  BY <1>0, <1>1, <1>4 DEF LocalTabs, Shape, TabsShow
<1>6. In(server) \subseteq local
  BY <1>0, <1>3, <1>5 DEF Fresh, StoredIn
<1>7. /\ \A p, q \in puts' : p.edits = q.edits
      /\ \A p \in puts' : In(server) \subseteq p.edits /\ p.edits \subseteq canvas[t]
  <2>1. CASE sent = {}
    BY <1>0, <1>3, <2>1 DEF RowGrows, StoredIn
  <2>2. CASE sent # {}
    BY <1>5, <1>6, <2>2
  <2> QED
    BY <2>1, <2>2
<1>8. \A p \in Moving' : p.edits = local /\ \A q \in Moving' : q = p
  <2>1. \A p \in puts : p.mover = None
    <3>1. \A p \in puts : p.mover # None => p.mover \in Tabs /\ auth[p.mover] = "user"
      <4>1. \A p \in puts : p.mover \in Tabs \cup {None}
        BY DEF IInv, StoresOK, Put
      <4>2. \A p \in puts : p.mover # None => auth[p.mover] = "user"
        BY Zenon DEF IInv, MovesOK
      <4> QED
        BY <4>1, <4>2
    <3>2. \A u \in Tabs : auth[u] # "user"
      BY <1>2 DEF Nonuser
    <3> QED
      BY <3>1, <3>2, Zenon
  <2>2. \A p \in Moving' : p \in sent
    BY <2>1 DEF Moving
  <2> QED
    BY <2>2
<1>9. RowGrows'
  BY <1>1, <1>2, <1>7 DEF RowGrows
<1>10. \A u \in Tabs : Nonuser(u)' => FALSE
  BY <1>1, <1>2 DEF Nonuser
<1>11. SignedTabs'
  <2>1. Waits(t)' => StoredIn(pending[t])' /\ SignedIn(pending[t])'
    <3> SUFFICES ASSUME Waits(t)
                 PROVE  StoredIn(pending[t])' /\ SignedIn(pending[t])'
      BY <1>1 DEF Waits
    <3>1. pending'[t] = canvas[t] /\ In(pending'[t]) = canvas[t]
      BY <1>1, <1>5, Nothing DEF Waits
    <3>2. StoredIn(pending[t])'
      BY <1>1, <1>3, <1>5, <1>7, <3>1 DEF StoredIn
    <3>3. SignedIn(pending[t])'
      BY <1>2, <3>1 DEF SignedIn, Signed
    <3> QED
      BY <3>2, <3>3
  <2> QED
    BY <1>1, <1>2, <2>1 DEF SignedTabs, Signed
<1>12. LocalTabs'
  BY <1>10 DEF LocalTabs, Nonuser
<1>13. Fresh'
  BY <1>10 DEF Fresh
<1>14. Migration'
  BY <1>1, <1>2, <1>8 DEF Migration
<1>15. MovedOut'
  BY <1>1 DEF MovedOut
<1> QED
  BY <1>9, <1>11, <1>12, <1>13, <1>14, <1>15 DEF CalmInv

LEMMA UserHolds ==
  ASSUME IInv, BoundedIds, KeepInv, Owing, NEW t \in Tabs, ResolveUser(t)
  PROVE  KeepInv' /\ Owing'
<1> DEFINE new == [id |-> NextId, edits |-> local, mover |-> t]
<1>1. /\ session = "user" /\ session' = session /\ server' = server /\ local' = local
      /\ made' = made /\ owed' = owed /\ canvas' = canvas /\ pending' = pending
      /\ auth[t] \in {"loading", "guest"} /\ auth' = [auth EXCEPT ![t] = "user"]
      /\ load' = [load EXCEPT ![t] = "sent"] /\ initial' = [initial EXCEPT ![t] = None]
      /\ hydrated' = [hydrated EXCEPT ![t] = FALSE]
  BY Zenon DEF ResolveUser, HydratedAfterSwap, bounds
<1>2. /\ auth'[t] = "user" /\ load'[t] = "sent" /\ initial'[t] = None
      /\ \A u \in Tabs \ {t} : auth'[u] = auth[u] /\ load'[u] = load[u] /\ initial'[u] = initial[u]
  BY <1>1 DEF IInv, TabsOK
<1>3. t \notin Ready' /\ \A u \in Tabs \ {t} : u \in Ready' <=> u \in Ready
  <2>1. hydrated'[t] = FALSE /\ \A u \in Tabs \ {t} : hydrated'[u] = hydrated[u]
    BY <1>1, FlagSet, Zenon DEF IInv, FlagsOK
  <2>2. FALSE # TRUE
    OBVIOUS
  <2> QED
    BY <2>1, <2>2, Zenon DEF Ready
<1>4. PICK found \in {local, None} :
         /\ puts' = IF found = None THEN puts
                    ELSE puts \cup {[id |-> NextId, edits |-> found, mover |-> t]}
         /\ calm' = (calm /\ ~Conflict(t) /\ (found = None \/ ~Overlaps(found)))
  BY Zenon DEF ResolveUser, LocalAnswers
<1> DEFINE sent == IF found = None THEN {} ELSE {new}
<1>5. new.edits = local /\ new.mover # None
  BY ProjectOK, Zenon DEF ProjectOK
<1>6. /\ found = None => sent = {}
      /\ found # None => sent = {new} /\ found = local /\ local # None
      /\ puts' = puts \cup sent
  <2>1. CASE found = None
    BY <1>4, <2>1
  <2>2. CASE found # None
    BY <1>4, <2>2
  <2> QED
    BY <2>1, <2>2
<1> HIDE DEF new, sent
<1>7. calm' = TRUE => calm = TRUE /\ ~Conflict(t) /\ (found = None \/ ~Overlaps(found))
  BY <1>4, Zenon
<1>8. SignsIn(t)
  BY <1>1, <1>2, <1>3, <1>7 DEF SignsIn, Same
<1>9. Shape'
  BY <1>5, <1>8, <1>6, SignsInShape DEF KeepInv
<1>10. ASSUME calm' = TRUE
      PROVE  CalmInv'
  <2>1. Shape /\ CalmInv /\ ~Conflict(t) /\ Nonuser(t)
    BY <1>1, <1>7, <1>10 DEF KeepInv, Nonuser
  <2>2. CASE local = None
    <3>1. puts' = puts
      BY <1>6, <2>2
    <3> QED
      BY <1>8, <2>1, <2>2, <3>1, SignsInBare
  <2>3. CASE local # None
    <3>1. found # None => \A p \in puts : p.edits = local
      BY <1>7, <1>10, <1>6 DEF Overlaps
    <3>2. \/ sent = {}
          \/ /\ \A p \in puts : p.edits = local
             /\ \E x : sent = {x} /\ x.edits = local /\ x.mover # None
      BY <1>5, <1>6, <3>1
    <3> QED
      BY <1>8, <1>6, <2>1, <2>3, <3>2, SignsInMoves
  <2> QED
    BY <2>2, <2>3
<1>11. \A e : HasEdit(e) => HasEdit(e)'
  <2>1. puts \subseteq puts'
    BY <1>6
  <2> QED
    BY <1>8, <2>1, SignsInHas
<1> QED
  BY <1>1, <1>7, <1>9, <1>10, <1>11, Zenon DEF KeepInv, Owing
-----------------------------------------------------------------------------
(* The load is answered *)

(* What a load does to its tab, with X on the canvas after it. *)
Loads(t, found, X) ==
    /\ \A u \in Tabs \ {t} : Same(u)
    /\ auth[t] = "user" /\ auth'[t] = auth[t] /\ load'[t] = "idle" /\ initial'[t] = found
    /\ t \notin Ready /\ t \in Ready'
    /\ canvas'[t] = X
    /\ \/ found = None /\ X = canvas[t] /\ pending'[t] = pending[t]
       \/ found # None /\ X = found /\ pending'[t] = found
    /\ session' = session /\ server' = server /\ local' = local /\ puts' = puts
    /\ made' = made /\ owed' = owed

LEMMA LoadEffect ==
  ASSUME IInv, NEW t \in Tabs, NEW found \in Saved, load[t] # "idle", Loaded(t, found)
  PROVE  Loads(t, found, canvas'[t])
<1>1. /\ session' = session /\ server' = server /\ local' = local /\ puts' = puts /\ made' = made
      /\ owed' = owed /\ auth' = auth
      /\ load' = [load EXCEPT ![t] = "idle"] /\ initial' = [initial EXCEPT ![t] = found]
      /\ hydrated' = [hydrated EXCEPT ![t] = TRUE]
  BY Zenon DEF Loaded
<1>2. auth[t] = "user" /\ hydrated[t] = FALSE
  BY Zenon DEF IInv, LoadInv
<1>3. \/ found = None /\ canvas' = canvas /\ pending' = pending
      \/ /\ found # None /\ canvas' = [canvas EXCEPT ![t] = found]
         /\ pending' = [pending EXCEPT ![t] = found]
  BY <1>2, Zenon DEF Loaded
<1>4. t \notin Ready
  BY <1>2, ReadyIs DEF IInv
<1>5. t \in Ready' /\ \A u \in Tabs \ {t} : u \in Ready' <=> u \in Ready
  <2>1. hydrated'[t] = TRUE /\ \A u \in Tabs \ {t} : hydrated'[u] = hydrated[u]
    BY <1>1, FlagSet, Zenon DEF IInv, FlagsOK
  <2> QED
    BY <2>1, Zenon DEF Ready
<1>6. /\ load'[t] = "idle" /\ initial'[t] = found
      /\ \/ found = None /\ canvas'[t] = canvas[t] /\ pending'[t] = pending[t]
         \/ found # None /\ canvas'[t] = found /\ pending'[t] = found
      /\ \A u \in Tabs \ {t} : /\ load'[u] = load[u] /\ initial'[u] = initial[u]
                               /\ canvas'[u] = canvas[u] /\ pending'[u] = pending[u]
  BY <1>1, <1>3 DEF IInv, TabsOK
<1> QED
  BY <1>1, <1>2, <1>4, <1>5, <1>6 DEF Loads, Same

LEMMA LoadShape ==
  ASSUME IInv, Shape, NEW t \in Tabs, NEW found, Real(found), NEW X, Loads(t, found, X)
  PROVE  Shape'
<1>1. X \subseteq 1..made
  BY Nothing DEF Loads, Shape, ContentsReal, Real
<1>2. ContentsReal'
  BY <1>1 DEF Loads, Shape, ContentsReal, Real, Same
<1>3. TabsShow'
  BY DEF Loads, Shape, TabsShow, Nonuser, Waits, Same
<1>4. GuestSession'
  BY DEF Loads, Shape, GuestSession, Same
<1> QED
  BY <1>2, <1>3, <1>4 DEF Shape

(* An answer that has everything, and is no newer than the row. *)
LEMMA LoadCalm ==
  ASSUME IInv, Shape, CalmInv, NEW t \in Tabs, NEW found, In(found) \subseteq In(server),
         NEW X, Loads(t, found, X), StoredIn(X), UnsavedIn(X)
  PROVE  CalmInv'
<1>0. RowGrows /\ SignedTabs /\ LocalTabs /\ Fresh /\ Migration /\ MovedOut
  BY DEF CalmInv
<1>1. /\ server' = server /\ local' = local /\ puts' = puts
      /\ auth'[t] = "user" /\ auth[t] = "user" /\ t \in Ready' /\ t \notin Ready /\ canvas'[t] = X
      /\ \A u \in Tabs \ {t} : Same(u)
  BY DEF Loads
<1>2. Moving' = Moving
  BY <1>1, Zenon DEF Moving
<1>3. \/ pending'[t] = pending[t] /\ found = None
      \/ pending'[t] = X /\ X = found /\ X # None /\ In(X) = X
  BY Nothing DEF Loads
<1>4. \A u \in Tabs : Nonuser(u)' => u # t /\ Nonuser(u) /\ Same(u)
  BY <1>1 DEF Nonuser, Same
<1>5. RowGrows'
  BY <1>0 DEF RowGrows, Loads, Same
(* Nothing new comes into what the tabs have not saved. *)
<1>6. ASSUME NEW S, StoredIn(S)
      PROVE  /\ StoredIn(S) /\ In(server') \subseteq S /\ \A p \in puts' : p.edits \subseteq S
             /\ SignedIn(S) => \A u \in Tabs : Signed(u)' => In(pending'[u]) \subseteq S
             /\ UnsavedIn(S) => \A u \in Tabs : In(pending'[u]) \subseteq S
  <2>1. found # None => In(found) \subseteq S
    BY <1>6 DEF StoredIn
  <2>2. \/ In(pending'[t]) = In(pending[t])
        \/ In(pending'[t]) \subseteq S
    BY <1>3, <2>1
  <2> QED
    BY <1>1, <1>6, <2>2 DEF StoredIn, SignedIn, UnsavedIn, Signed, Same
<1>7. SignedTabs'
  <2> SUFFICES ASSUME NEW u \in Tabs, Signed(u)'
               PROVE  /\ Waits(u)' => StoredIn(pending[u])' /\ SignedIn(pending[u])'
                      /\ u \in Ready' => StoredIn(canvas[u])' /\ SignedIn(canvas[u])'
    BY DEF SignedTabs
  <2>0. SignedIn(X)
    BY DEF UnsavedIn, SignedIn
  <2>1. StoredIn(canvas[t])' /\ SignedIn(canvas[t])'
    BY <1>1, <1>6, <2>0 DEF StoredIn, SignedIn
  <2>2. CASE u = t
    <3>1. CASE pending'[t] = X
      BY <1>1, <2>1, <2>2, <3>1 DEF StoredIn, SignedIn
    <3>2. CASE pending'[t] = pending[t]
      <4>1. Waits(t) => StoredIn(pending[t]) /\ SignedIn(pending[t])
        BY <1>0, <1>1 DEF SignedTabs, Signed
      <4>2. Waits(t) => StoredIn(pending[t])' /\ SignedIn(pending[t])'
        BY <1>6, <3>2, <4>1 DEF StoredIn, SignedIn
      <4> QED
        BY <2>1, <2>2, <3>2, <4>2 DEF Waits
    <3> QED
      BY <1>3, <3>1, <3>2
  <2>3. CASE u # t
    <3>1. Same(u) /\ Signed(u)
      BY <1>1, <2>3 DEF Same, Signed
    <3>2. /\ Waits(u) => StoredIn(pending[u]) /\ SignedIn(pending[u])
          /\ u \in Ready => StoredIn(canvas[u]) /\ SignedIn(canvas[u])
      BY <1>0, <3>1 DEF SignedTabs
    <3>3. Waits(u) => StoredIn(pending[u])' /\ SignedIn(pending[u])'
      BY <1>6, <3>1, <3>2 DEF StoredIn, SignedIn, Same
    <3>4. u \in Ready => StoredIn(canvas[u])' /\ SignedIn(canvas[u])'
      BY <1>6, <3>1, <3>2 DEF StoredIn, SignedIn, Same
    <3> QED
      BY <3>1, <3>3, <3>4 DEF Same, Waits
  <2> QED
    BY <2>2, <2>3
<1>8. LocalTabs'
  BY <1>0, <1>1, <1>4 DEF LocalTabs, Same, Waits, Nonuser
<1>9. Fresh'
  <2> SUFFICES ASSUME NEW u \in Tabs, Nonuser(u), Same(u), Waits(u), u # t, local # None
               PROVE  /\ In(server) \cap pending[u] \subseteq local
                      /\ \A p \in puts : p.edits \cap pending[u] \subseteq local
                      /\ \A v \in Tabs : Signed(v)' => In(pending'[v]) \cap pending[u] \subseteq local
    BY <1>1, <1>4 DEF Fresh, Waits, Same
  <2>1. /\ In(server) \cap pending[u] \subseteq local
        /\ \A p \in puts : p.edits \cap pending[u] \subseteq local
        /\ \A v \in Tabs : Signed(v) => In(pending[v]) \cap pending[u] \subseteq local
    BY <1>0 DEF Fresh
  <2>2. In(pending'[t]) \cap pending[u] \subseteq local
    <3>1. CASE pending'[t] = pending[t]
      BY <1>1, <2>1, <3>1 DEF Signed
    <3>2. CASE pending'[t] = found
      BY <2>1, <3>2
    <3> QED
      BY <1>3, <3>1, <3>2
  <2> QED
    BY <1>1, <2>1, <2>2 DEF Same, Signed
<1>10. Migration'
  <2> SUFFICES ASSUME NEW p \in Moving
               PROVE  /\ local = p.edits
                      /\ \A q \in Moving : q = p
                      /\ \A u \in Tabs :
                            /\ auth'[u] # "guest"
                            /\ auth'[u] = "loading" => canvas'[u] = local /\ UnsavedIn(local)'
    BY <1>1, <1>2 DEF Migration
  <2>1. /\ local = p.edits /\ (\A q \in Moving : q = p) /\ p \in puts
        /\ \A u \in Tabs :
              /\ auth[u] # "guest"
              /\ auth[u] = "loading" => canvas[u] = local /\ UnsavedIn(local)
    BY <1>0 DEF Migration, Moving
  <2>2. StoredIn(local)
    <3>1. \A q \in puts : In(server) \subseteq q.edits /\ q.edits = local
      BY <1>0, <2>1 DEF RowGrows
    <3> QED
      BY <2>1, <3>1 DEF StoredIn
  <2>3. UnsavedIn(local) => UnsavedIn(local)'
    BY <1>1, <1>6, <2>2 DEF UnsavedIn
  <2> QED
    BY <1>1, <2>1, <2>3 DEF Same
<1>11. MovedOut'
  <2> SUFFICES ASSUME local = None, NEW u \in Tabs, Nonuser(u)', u # t, Nonuser(u), Same(u)
               PROVE  /\ auth'[u] = "loading" /\ u \in Ready' =>
                           StoredIn(canvas[u])' /\ UnsavedIn(canvas[u])'
                      /\ auth'[u] = "guest" /\ Waits(u)' =>
                            /\ \A v \in Tabs \ {u} : ~Waits(v)'
                            /\ \E e \in pending'[u] : e \notin In(server') /\ \A p \in puts' : e \notin p.edits
                      /\ Waits(u)' => \A v \in Tabs : Signed(v)' =>
                            /\ v \in Ready' => pending'[u] \subseteq canvas'[v]
                            /\ Waits(v)' => pending'[u] \subseteq pending'[v]
    BY <1>1, <1>4 DEF MovedOut, Nonuser
  <2>0. Waits(u) => pending[u] \subseteq X
    BY Nothing DEF UnsavedIn, Waits
  <2>1. ASSUME auth'[u] = "loading", u \in Ready'
        PROVE  StoredIn(canvas[u])' /\ UnsavedIn(canvas[u])'
    <3>1. StoredIn(canvas[u]) /\ UnsavedIn(canvas[u])
      BY <1>0, <2>1 DEF MovedOut, Same
    <3> QED
      BY <1>6, <3>1 DEF StoredIn, UnsavedIn, Same
  <2>2. ASSUME auth'[u] = "guest", Waits(u)'
        PROVE  /\ \A v \in Tabs \ {u} : ~Waits(v)'
               /\ \E e \in pending'[u] : e \notin In(server') /\ \A p \in puts' : e \notin p.edits
    <3>1. /\ \A v \in Tabs \ {u} : ~Waits(v)
          /\ \E e \in pending[u] : e \notin In(server) /\ \A p \in puts : e \notin p.edits
          /\ Waits(u)
      BY <1>0, <2>2 DEF MovedOut, Same, Waits
    <3>2. pending'[t] = pending[t]
      <4> SUFFICES ASSUME X = found, In(X) = X PROVE FALSE
        BY <1>3
      <4>1. pending[u] \subseteq In(server)
        BY <2>0, <3>1
      <4> QED
        BY <3>1, <4>1
    <3> QED
      BY <1>1, <3>1, <3>2 DEF Same, Waits
  <2>3. ASSUME Waits(u)', NEW v \in Tabs, Signed(v)'
        PROVE  /\ v \in Ready' => pending'[u] \subseteq canvas'[v]
               /\ Waits(v)' => pending'[u] \subseteq pending'[v]
    <3>1. Waits(u) /\ pending'[u] = pending[u]
      BY <2>3 DEF Same, Waits
    <3>2. CASE v = t
      <4>1. pending'[t] = X \/ (Waits(t)' => Waits(t) /\ pending'[t] = pending[t])
        BY <1>3 DEF Waits
      <4> QED
        BY <1>0, <1>1, <2>0, <3>1, <3>2, <4>1 DEF MovedOut, Signed
    <3>3. CASE v # t
      BY <1>0, <1>1, <2>3, <3>1, <3>3 DEF MovedOut, Same, Signed, Waits
    <3> QED
      BY <3>2, <3>3
  <2> QED
    BY <2>1, <2>2, <2>3
<1> QED
  BY <1>5, <1>7, <1>8, <1>9, <1>10, <1>11 DEF CalmInv

LEMMA AnswerHolds ==
  ASSUME IInv, KeepInv, Owing, NEW t \in Tabs, Answer(t)
  PROVE  KeepInv' /\ Owing'
<1> DEFINE X == canvas'[t]
<1>1. /\ load[t] = "read" /\ Loaded(t, initial[t])
      /\ calm' = (calm /\ In(server) \cup InFlight \cup Unsaved \cup canvas[t] \subseteq X)
  BY Zenon DEF Answer
<1>2. initial[t] \in Saved
  BY DEF IInv, TabsOK
<1>3. Loads(t, initial[t], X)
  BY <1>1, <1>2, LoadEffect
<1> HIDE DEF X
<1>4. Real(initial[t])
  BY DEF KeepInv, Shape, ContentsReal
<1>5. Shape'
  BY <1>3, <1>4, LoadShape DEF KeepInv
<1>6. calm' = TRUE => calm = TRUE /\ In(server) \cup InFlight \cup Unsaved \cup canvas[t] \subseteq X
  BY <1>1, Zenon
<1>7. ASSUME calm' = TRUE
      PROVE  CalmInv' /\ \A e : HasEdit(e) => HasEdit(e)'
  <2>1. Shape /\ CalmInv /\ In(initial[t]) \subseteq In(server)
    BY <1>1, <1>6, <1>7 DEF KeepInv, CalmInv, RowGrows
  <2>2. StoredIn(X) /\ UnsavedIn(X)
    BY <1>6, <1>7 DEF StoredIn, UnsavedIn, InFlight, Unsaved
  <2>3. CalmInv'
    BY <1>3, <2>1, <2>2, LoadCalm
  <2>4. \A u \in Tabs : In(pending[u]) \subseteq In(pending'[u])
    <3>1. In(pending[t]) \subseteq X
      BY <2>2 DEF UnsavedIn
    <3>2. pending'[t] = pending[t] \/ In(pending'[t]) = X
      BY <1>3, Nothing DEF Loads
    <3> QED
      BY <1>3, <3>1, <3>2 DEF Loads, Same
  <2>5. ASSUME NEW e, HasEdit(e)
        PROVE  HasEdit(e)'
    BY <1>3, <2>4, <2>5 DEF HasEdit, Loads
  <2> QED
    BY <2>3, <2>5
<1>8. owed' = owed
  BY <1>3 DEF Loads
<1> QED
  BY <1>5, <1>6, <1>7, <1>8, Zenon DEF KeepInv, Owing

LEMMA FailHolds ==
  ASSUME IInv, KeepInv, NEW t \in Tabs, AnswerFails(t)
  PROVE  KeepInv' /\ Owing'
<1>1. load[t] # "idle" /\ Loaded(t, None) /\ calm' = FALSE
  BY Zenon DEF AnswerFails
<1>2. Loads(t, None, canvas'[t])
  BY <1>1, LoadEffect, Contents
<1>3. Real(None)
  BY ProjectOK, Nothing DEF Real, ProjectOK
<1>4. Shape'
  BY <1>2, <1>3, LoadShape DEF KeepInv
<1>5. FALSE # TRUE
  OBVIOUS
<1> QED
  BY <1>1, <1>4, <1>5, Zenon DEF KeepInv, Owing

-----------------------------------------------------------------------------
(* An edit *)

LEMMA EditHolds ==
  ASSUME IInv, KeepInv, Owing, NEW t \in Tabs, Edit(t)
  PROVE  KeepInv' /\ Owing'
<1> DEFINE e == made + 1
<1> DEFINE X == canvas[t] \cup {e}
<1>1. /\ session' = session /\ server' = server /\ local' = local /\ puts' = puts
      /\ auth' = auth /\ load' = load /\ initial' = initial /\ hydrated' = hydrated
      /\ auth[t] # "closed" /\ made' = e /\ canvas' = [canvas EXCEPT ![t] = X]
      /\ calm' = (calm /\ Others(t) = {})
  BY Zenon DEF Edit, Open
<1>2. \/ Autosaves(t) /\ pending' = [pending EXCEPT ![t] = X] /\ owed' = owed \cup {e}
      \/ ~Autosaves(t) /\ pending' = pending /\ owed' = owed
  BY Zenon DEF Edit
<1>3. made \in Nat /\ 1..made \subseteq 1..e /\ e \in 1..e /\ e \notin 1..made
  <2>1. made \in Nat
    BY ProjectOK DEF ProjectOK, IInv, StoresOK
  <2> QED
    BY <2>1
<1> HIDE DEF e
<1>4. Ready' = Ready /\ Moving' = Moving
  BY <1>1, Zenon DEF Ready, Moving
<1>5. Autosaves(t) <=> t \in Ready
  <2>1. t \in Ready <=> hydrated[t] = TRUE
    BY Zenon DEF Ready
  <2>2. hydrated[t] = TRUE => load[t] = "idle"
    BY Zenon DEF IInv, LoadInv
  <2>3. hydrated[t] \in BOOLEAN
    BY Zenon DEF IInv, FlagsOK
  <2> QED
    BY <1>1, <2>1, <2>2, <2>3, Zenon DEF Autosaves, IsLoaded, Open
<1>6. /\ canvas'[t] = X
      /\ \/ t \in Ready /\ pending'[t] = X
         \/ t \notin Ready /\ pending'[t] = pending[t]
      /\ \A u \in Tabs \ {t} : canvas'[u] = canvas[u] /\ pending'[u] = pending[u]
  BY <1>1, <1>2, <1>5 DEF IInv, TabsOK
<1>7. X # None /\ X # {} /\ X \subseteq 1..e /\ In(X) = X
  <2>1. e \in Edits
    BY ProjectOK, <1>3 DEF Edit, Edits, ProjectOK, e
  <2>2. X \in Content
    BY <2>1 DEF IInv, TabsOK, Content
  <2>3. canvas[t] \subseteq 1..made
    BY DEF KeepInv, Shape, ContentsReal
  <2> QED
    BY <1>3, <2>2, <2>3, Contents
<1>8. In(pending[t]) \subseteq canvas[t] /\ In(pending[t]) \subseteq In(pending'[t])
  BY <1>6, <1>7, Nothing DEF IInv, TabsOK
<1>9. Shape'
  <2>1. ContentsReal'
    <3>1. \A S : Real(S) => S # {} /\ In(S) \subseteq 1..e
      BY <1>3 DEF Real
    <3>2. \A u \in Tabs : pending'[u] # {} /\ In(pending'[u]) \subseteq 1..e /\ canvas'[u] \subseteq 1..e
      <4> SUFFICES ASSUME NEW u \in Tabs
                   PROVE  pending'[u] # {} /\ In(pending'[u]) \subseteq 1..e /\ canvas'[u] \subseteq 1..e
        OBVIOUS
      <4>1. Real(pending[u]) /\ canvas[u] \subseteq 1..e
        BY <1>3 DEF KeepInv, Shape, ContentsReal
      <4> QED
        BY <1>6, <1>7, <3>1, <4>1
    <3> QED
      BY <1>1, <3>1, <3>2 DEF KeepInv, Shape, ContentsReal, Real
  <2>2. TabsShow'
    BY <1>1, <1>4, <1>6 DEF KeepInv, Shape, TabsShow, Nonuser, Waits
  <2>3. GuestSession'
    BY <1>1, <1>4 DEF KeepInv, Shape, GuestSession
  <2> QED
    BY <2>1, <2>2, <2>3 DEF Shape
<1>10. calm' = TRUE => calm = TRUE /\ Others(t) = {}
  BY <1>1, Zenon
<1>11. ASSUME calm = TRUE, Others(t) = {}
       PROVE  CalmInv'
  <2>0. RowGrows /\ SignedTabs /\ LocalTabs /\ Fresh /\ Migration /\ MovedOut
    BY <1>11 DEF KeepInv, CalmInv
  <2>1. \A u \in Tabs \ {t} : auth[u] = "closed" /\ pending[u] = None
    BY <1>11 DEF Others, Open, KeepInv, Shape, TabsShow
  <2>2. /\ e \notin In(server) /\ \A p \in puts : e \notin p.edits
    <3>1. \A p \in puts : In(p.edits) = p.edits
      BY Contents DEF IInv, StoresOK, Put
    <3> QED
      BY <1>3, <3>1 DEF KeepInv, Shape, ContentsReal, Real
  <2>3. RowGrows'
    BY <1>1, <2>0 DEF RowGrows
  <2>4. SignedTabs'
    <3> SUFFICES ASSUME auth[t] = "user"
                 PROVE  /\ Waits(t)' => StoredIn(pending[t])' /\ SignedIn(pending[t])'
                        /\ t \in Ready' => StoredIn(canvas[t])' /\ SignedIn(canvas[t])'
      BY <1>1, <2>1 DEF SignedTabs, Signed
    <3>1. \A S : In(pending'[t]) \subseteq S => \A u \in Tabs : Signed(u)' => In(pending'[u]) \subseteq S
      BY <1>1, <2>1 DEF Signed
    <3>2. CASE t \in Ready
      <4>1. StoredIn(canvas[t])
        BY <2>0, <3>2 DEF SignedTabs, Signed
      <4>2. pending'[t] = X /\ canvas'[t] = X
        BY <1>6, <3>2
      <4> HIDE DEF X
      <4>3. canvas[t] \subseteq X
        BY DEF X
      <4> QED
        BY <1>1, <1>7, <3>1, <4>1, <4>2, <4>3 DEF StoredIn, SignedIn
    <3>3. CASE t \notin Ready
      <4>1. Waits(t) => StoredIn(pending[t]) /\ In(pending[t]) \subseteq pending[t]
        BY <2>0, Nothing DEF SignedTabs, Signed, Waits
      <4> QED
        BY <1>1, <1>4, <1>6, <3>1, <3>3, <4>1 DEF StoredIn, SignedIn, Waits
    <3> QED
      BY <3>2, <3>3
  <2>5. LocalTabs'
    <3> SUFFICES ASSUME Nonuser(t)
                 PROVE  /\ t \in Ready =>
                              /\ In(local) \subseteq canvas'[t]
                              /\ ~Waits(t)' => canvas'[t] \subseteq local
                              /\ Waits(t)' => pending'[t] = canvas'[t]
                        /\ t \notin Ready /\ auth[t] = "loading" => local = None /\ ~Waits(t)'
      BY <1>1, <1>4, <2>1 DEF LocalTabs, Nonuser
    <3>1. CASE t \in Ready
      BY <1>6, <1>7, <2>0, <3>1 DEF LocalTabs, Waits
    <3>2. CASE t \notin Ready
      BY <1>6, <2>0, <3>2 DEF LocalTabs, Waits
    <3> QED
      BY <3>1, <3>2
  <2>6. Fresh'
    <3> SUFFICES ASSUME Nonuser(t), Waits(t)', local # None
                 PROVE  /\ In(server) \cap pending'[t] \subseteq local
                        /\ \A p \in puts : p.edits \cap pending'[t] \subseteq local
      BY <1>1, <2>1 DEF Fresh, Nonuser, Signed
    <3>1. t \in Ready
      BY <1>6 DEF KeepInv, Shape, TabsShow, Waits
    <3>2. /\ In(server) \cap canvas[t] \subseteq local
          /\ \A p \in puts : p.edits \cap canvas[t] \subseteq local
      <4>1. CASE Waits(t)
        BY <2>0, <4>1 DEF Fresh, KeepInv, Shape, TabsShow
      <4>2. CASE ~Waits(t)
        BY <2>0, <3>1, <4>2 DEF LocalTabs
      <4> QED
        BY <4>1, <4>2
    <3> QED
      BY <1>6, <2>2, <3>1, <3>2
  <2>7. Migration'
    <3> SUFFICES ASSUME NEW p \in Moving
                 PROVE  /\ local = p.edits /\ \A q \in Moving : q = p
                        /\ \A u \in Tabs : auth[u] # "guest" /\ auth[u] # "loading"
      BY <1>1, <1>4 DEF Migration
    <3>1. p.mover \in Tabs /\ auth[p.mover] = "user"
      BY Zenon DEF Moving, IInv, MovesOK, StoresOK, Put
    <3>2. p.mover = t
      BY <2>1, <3>1
    <3> QED
      BY <2>0, <2>1, <3>1, <3>2 DEF Migration
  <2>8. MovedOut'
    <3> SUFFICES ASSUME local = None, Nonuser(t)
                 PROVE  /\ auth[t] = "loading" /\ t \in Ready => StoredIn(canvas[t])' /\ UnsavedIn(canvas[t])'
                        /\ auth[t] = "guest" /\ Waits(t)' =>
                              \E x \in pending'[t] : x \notin In(server) /\ \A p \in puts : x \notin p.edits
      <4>1. \A u \in Tabs \ {t} : auth'[u] = "closed" /\ ~Waits(u)'
        BY <1>1, <1>6, <2>1 DEF Waits
      <4> QED
        BY <1>1, <1>4, <4>1 DEF MovedOut, Nonuser, Signed
    <3>1. ASSUME auth[t] = "loading", t \in Ready
          PROVE  StoredIn(canvas[t])' /\ UnsavedIn(canvas[t])'
      <4>1. StoredIn(canvas[t]) /\ canvas[t] \subseteq canvas'[t]
        BY <1>6, <2>0, <3>1 DEF MovedOut
      <4>2. In(pending'[t]) \subseteq canvas'[t] /\ \A u \in Tabs \ {t} : In(pending'[u]) = {}
        BY <1>6, <1>7, <2>1, <3>1, Nothing
      <4> QED
        BY <1>1, <4>1, <4>2 DEF StoredIn, UnsavedIn
    <3>2. ASSUME auth[t] = "guest"
          PROVE  \E x \in pending'[t] : x \notin In(server) /\ \A p \in puts : x \notin p.edits
      <4>1. t \in Ready
        BY <3>2 DEF KeepInv, Shape, TabsShow
      <4>2. e \in pending'[t]
        BY <1>6, <4>1
      <4> QED
        BY <2>2, <4>2
    <3> QED
      BY <3>1, <3>2
  <2> QED
    BY <2>3, <2>4, <2>5, <2>6, <2>7, <2>8 DEF CalmInv
<1>12. \A x : HasEdit(x) => HasEdit(x)'
  <2>1. \A u \in Tabs : In(pending[u]) \subseteq In(pending'[u])
    BY <1>6, <1>8
  <2> QED
    BY <1>1, <2>1 DEF HasEdit
<1>13. t \in Ready => \A x : x = e => HasEdit(x)'
  <2> SUFFICES ASSUME t \in Ready, NEW x, x = e
               PROVE  HasEdit(x)'
    OBVIOUS
  <2>1. x \in In(pending'[t])
    BY <1>6, <1>7
  <2> QED
    BY <2>1 DEF HasEdit
<1>14. Owing'
  <2> SUFFICES ASSUME calm' = TRUE, NEW x, x \in owed'
               PROVE  HasEdit(x)'
    BY DEF Owing
  <2>1. \A y \in owed : HasEdit(y)
    BY <1>10 DEF Owing
  <2>2. x \in owed \/ (x = e /\ t \in Ready)
    BY <1>2, <1>5
  <2> QED
    BY <1>12, <1>13, <2>1, <2>2
<1> QED
  BY <1>9, <1>10, <1>11, <1>14, Zenon DEF KeepInv

-----------------------------------------------------------------------------

LEMMA KeepInit == Init => KeepInv /\ Owing
<1> SUFFICES ASSUME Init PROVE KeepInv /\ Owing
  OBVIOUS
<1>1. /\ puts = {} /\ owed = 1..made
      /\ \/ server = None /\ local = None /\ made = 0
         \/ server = {1} /\ local = None /\ made = 1
         \/ server = None /\ local = {1} /\ made = 1
      /\ \A t \in Tabs : /\ auth[t] = "closed" /\ load[t] = "idle" /\ initial[t] = None
                         /\ canvas[t] = {} /\ pending[t] = None
  BY DEF Init
<1>2. Ready = {} /\ Moving = {}
  <2>1. \A t \in Tabs : hydrated[t] = FALSE
    BY Zenon DEF Init
  <2>2. FALSE # TRUE
    OBVIOUS
  <2>3. \A t : t \notin Ready
    BY <2>1, <2>2, Zenon DEF Ready
  <2>4. \A p : p \notin Moving
    BY <1>1, Zenon DEF Moving
  <2> QED
    BY <2>3, <2>4
<1>3. None # {} /\ None # {1} /\ In(None) = {} /\ In({1}) = {1}
  <2>1. {} \in Content /\ {1} \in Content
    BY ProjectOK DEF ProjectOK, Content, Edits
  <2> QED
    BY <2>1, Contents, Nothing
<1>4. Shape
  <2>1. Real(None) /\ Real(server) /\ Real(local)
    <3>1. Real(None)
      BY <1>3 DEF Real
    <3>2. made = 1 => Real({1})
      BY <1>3 DEF Real
    <3> QED
      BY <1>1, <3>1, <3>2
  <2>2. ContentsReal
    BY <1>1, <2>1 DEF ContentsReal
  <2>3. TabsShow
    BY <1>1 DEF TabsShow, Nonuser
  <2>4. GuestSession
    BY <1>1 DEF GuestSession
  <2> QED
    BY <2>2, <2>3, <2>4 DEF Shape
<1>5. CalmInv
  BY <1>1, <1>2 DEF CalmInv, RowGrows, SignedTabs, Signed, LocalTabs, Nonuser, Fresh, Migration,
                    MovedOut, Waits
<1>6. \A e \in owed : HasEdit(e)
  <2> SUFFICES ASSUME NEW e \in owed
               PROVE  HasEdit(e)
    OBVIOUS
  <2>1. e = 1 /\ made = 1
    BY <1>1
  <2>2. server = {1} \/ local = {1}
    BY <1>1, <2>1
  <2> QED
    BY <1>3, <2>1, <2>2 DEF HasEdit
<1> QED
  BY <1>4, <1>5, <1>6 DEF KeepInv, Owing

LEMMA KeepNext ==
  ASSUME Inv, KeepInv, Owing, [Next]_vars
  PROVE  KeepInv' /\ Owing'
<1>0. IInv /\ BoundedIds
  BY Zenon DEF Inv
<1>1. ASSUME NEW t \in Tabs, Page(t)
      PROVE  KeepInv' /\ Owing'
  <2>1. CASE \E p \in Prompts : Mount(t, p)
    BY <1>0, <2>1, MountHolds
  <2>2. CASE ResolveGuest(t)
    BY <1>0, <2>2, GuestHolds
  <2>3. CASE ResolveUser(t)
    BY <1>0, <2>3, UserHolds
  <2>4. CASE ReadRow(t)
    BY <1>0, <2>4, ReadHolds
  <2>5. CASE Answer(t)
    BY <1>0, <2>5, AnswerHolds
  <2>6. CASE AnswerFails(t)
    BY <1>0, <2>6, FailHolds
  <2>7. CASE TimerFires(t)
    BY <1>0, <2>7, TimerSaves, SaveHolds
  <2>8. CASE Close(t) \/ Crash(t)
    BY <1>0, <2>8, LeaveSaves, SaveHolds
  <2>9. CASE Edit(t)
    BY <1>0, <2>9, EditHolds
  <2>10. CASE StartTurn(t) \/ EndTurn(t)
    BY <2>10, QuietHolds
  <2> QED
    BY <1>1, <2>1, <2>2, <2>3, <2>4, <2>5, <2>6, <2>7, <2>8, <2>9, <2>10, Zenon DEF Page
<1>2. ASSUME NEW p \in puts, Land(p) \/ Lose(p)
      PROVE  KeepInv' /\ Owing'
  BY <1>0, <1>2, LandHolds, LoseHolds
<1>3. CASE SignIn \/ UNCHANGED vars
  BY <1>3, QuietHolds
<1> QED
  BY <1>1, <1>2, <1>3, Zenon DEF Next

(* As long as nothing that costs edits has happened, every edit handed to  *)
(* the autosave is in the row, in local storage, in a PUT on its way or    *)
(* waits for a timer: however many tabs are open, whichever way Clerk      *)
(* resolves, and in whatever order saves, loads and migrations end.  What  *)
(* may cost edits includes each failure that either store swallows         *)
(* (use-project-persistence.ts:50-89, use-migration.ts, local-store.ts).   *)
THEOREM EditsAreKept == Spec => []KeepsEdits
<1>1. Inv /\ KeepInv /\ Owing => KeepsEdits
  <2> SUFFICES ASSUME Inv, Owing, calm
               PROVE  owed \subseteq Kept
    BY DEF KeepsEdits
  <2>1. calm = TRUE
    BY Zenon DEF Inv
  <2> QED
    BY <2>1, KeptHas DEF Owing
<1>2. Inv /\ KeepInv /\ Owing /\ [Next]_vars => (KeepInv /\ Owing)'
  BY KeepNext
<1> QED
  BY <1>1, <1>2, AlwaysInv, KeepInit, PTL DEF Spec
=============================================================================
