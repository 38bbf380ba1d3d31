--------------------------- MODULE EditChatProofs ---------------------------
(* Proofs about EditChat, for any surfaces and bounds. *)
EXTENDS EditChat, SequenceTheorems, TLAPS

(* What every token there is has been minted, in a queue or in a request;  *)
(* a confirmation that waits has its request; an unused request is empty.  *)
Bounded ==
    /\ queued # None => sends < MaxSends
    /\ \A r \in Requests : knows[r] \cup minted[r] \cup sent[r] \subseteq 1..made
    /\ \A r \in Requests : \A a \in patched[r] : a.edit \in 1..made
    /\ \A i \in DOMAIN events : events[i].edit \in 0..made
    /\ \A r \in Requests : r > sends => minted[r] = {}

(* The parts of TypeOK. *)
FlagsOK ==
    /\ held \in BOOLEAN /\ overlapped \in BOOLEAN
    /\ held => surface # "drawer" /\ card # None

ScalarsOK ==
    /\ surface \in Surfaces
    /\ card \in 0..made /\ queued \in 0..made
    /\ live \in 0..made /\ told \in 0..made /\ faults \in 0..MaxFaults
    /\ status \in {"idle", "streaming", "error", "needs_api_key"}
    /\ reading \in 0..sends
    /\ made \in 0..MaxEdits /\ sends \in 0..MaxSends
    /\ heard \subseteq 1..made /\ dropped \subseteq 1..made
    /\ queued # None => surface # "drawer" /\ status = "streaming"

TablesOK ==
    /\ events \in Seq(Event)
    /\ running \subseteq 1..sends
    /\ knows \in [Requests -> SUBSET Edits] /\ minted \in [Requests -> SUBSET Edits]
    /\ sent \in [Requests -> SUBSET Edits]
    /\ patched \in [Requests -> SUBSET [edit: Edits, ok: BOOLEAN]]
    /\ work \in [Requests -> 0..MaxWork]

TInv == FlagsOK /\ ScalarsOK /\ TablesOK /\ Bounded

LEMMA Parts == TypeOK <=> FlagsOK /\ ScalarsOK /\ TablesOK
  BY Zenon DEF TypeOK, FlagsOK, ScalarsOK, TablesOK, Drawer

-----------------------------------------------------------------------------
(* The queues of events *)

LEMMA TakenEvents ==
  ASSUME events \in Seq(Event), NEW e, Take(e)
  PROVE  /\ events' \in Seq(Event)
         /\ \E i \in DOMAIN events : events[i] = e
         /\ DOMAIN events' \subseteq Nat
         /\ \A i \in DOMAIN events' : i + 1 \in DOMAIN events /\ events'[i] = events[i + 1]
         /\ \A i \in DOMAIN events' : i + 1 # 1
<1>1. /\ events' \in Seq(Event) /\ Len(events') = Len(events) - 1
      /\ \A i \in 1..Len(events') : events'[i] = events[i + 1]
  BY HeadTailProperties DEF Take
<1>2. events[1] = e /\ Len(events) \in Nat \ {0}
  BY EmptySeq DEF Take
<1>3. DOMAIN events = 1..Len(events) /\ DOMAIN events' = 1..Len(events')
  BY <1>1, LenProperties
<1> QED
  BY <1>1, <1>2, <1>3

LEMMA EmittedEvents ==
  ASSUME events \in Seq(Event), NEW r, NEW type, NEW e, Emit(r, type, e),
         [type |-> type, edit |-> e] \in Event
  PROVE  /\ events' \in Seq(Event)
         /\ DOMAIN events' \subseteq Nat
         /\ \A i \in DOMAIN events' :
               \/ i \in DOMAIN events /\ events'[i] = events[i]
               \/ i \notin DOMAIN events /\ events'[i] = [type |-> type, edit |-> e]
         /\ \A i, j \in DOMAIN events' : i \notin DOMAIN events /\ j \notin DOMAIN events => i = j
<1> DEFINE n == Len(events)
<1> DEFINE new == [type |-> type, edit |-> e]
<1>1. n \in Nat /\ DOMAIN events = 1..n
  BY LenProperties
<1>2. CASE r = reading
  <2>1. events' = Append(events, new)
    BY <1>2 DEF Emit
  <2> HIDE DEF new
  <2>2. /\ events' \in Seq(Event) /\ DOMAIN events' = 1..(n + 1)
        /\ events'[n + 1] = new /\ \A i \in 1..n : events'[i] = events[i]
    BY <1>1, <2>1 DEF new
  <2> HIDE DEF n
  <2>3. \A i \in 1..(n + 1) : i \in 1..n \/ i = n + 1
    BY <1>1
  <2> QED
    BY <1>1, <2>2, <2>3 DEF new
<1>3. CASE r # reading
  BY <1>1, <1>3 DEF Emit
<1> QED
  BY <1>2, <1>3

-----------------------------------------------------------------------------
(* Requests *)

(* What a new request leaves in the chat. *)
LEMMA RequestTypes ==
  ASSUME TInv, NEW left \in SUBSET running, NEW e \in 0..made, sends < MaxSends,
         Request(left, e)
  PROVE  /\ sends' \in 0..MaxSends /\ sends' = sends + 1
         /\ running' \subseteq 1..sends' /\ reading' \in 0..sends'
         /\ knows' \in [Requests -> SUBSET Edits]
         /\ \A r \in Requests : knows'[r] \subseteq 1..made
         /\ heard' \subseteq 1..made /\ events' = <<>> /\ status' = "streaming"
<1>1. /\ MaxSends \in Nat /\ sends \in 0..MaxSends /\ made \in 0..MaxEdits /\ MaxEdits \in Nat
      /\ running \subseteq 1..sends /\ heard \subseteq 1..made
  BY ChatOK DEF ChatOK, TInv, ScalarsOK, TablesOK
<1>2. /\ knows \in [Requests -> SUBSET Edits]
      /\ \A r \in Requests : knows[r] \subseteq 1..made
  BY DEF TInv, TablesOK, Bounded
<1>3. /\ sends + 1 \in 0..MaxSends /\ sends + 1 \in Requests
      /\ 0..sends \subseteq 0..(sends + 1) /\ 1..sends \subseteq 1..(sends + 1)
      /\ 1..made \subseteq Edits
  BY <1>1 DEF Requests, Edits
<1>4. Carried(e) \subseteq 1..made
  BY <1>1 DEF Carried, None
<1>5. History \subseteq 1..made
  BY <1>1 DEF History
<1>6. sends' = sends + 1 /\ running' = left \cup {sends + 1} /\ reading' = sends + 1
      /\ knows' = [knows EXCEPT ![sends + 1] = History \cup Carried(e)]
      /\ heard' = heard \cup Carried(e) /\ events' = <<>> /\ status' = "streaming"
  BY DEF Request
<1>7. /\ knows' \in [Requests -> SUBSET Edits]
      /\ \A r \in Requests : knows'[r] \subseteq 1..made
  <2> DEFINE h == History \cup Carried(e)
  <2>1. h \subseteq 1..made /\ h \in SUBSET Edits
    BY <1>3, <1>4, <1>5
  <2>2. knows' = [knows EXCEPT ![sends + 1] = h]
    BY <1>6
  <2> HIDE DEF h
  <2> QED
    BY <1>2, <2>1, <2>2
<1>8. running' \subseteq 1..sends' /\ reading' \in 0..sends' /\ sends' \in 0..MaxSends
  BY <1>1, <1>3, <1>6
<1> QED
  BY <1>1, <1>4, <1>6, <1>7, <1>8

LEMMA RequestBound ==
  ASSUME TInv, made' = made, minted' = minted, sent' = sent, patched' = patched,
         sends' = sends + 1, events' = <<>>, queued' # None => sends + 1 < MaxSends,
         \A r \in Requests : knows'[r] \subseteq 1..made
  PROVE  Bounded'
<1>1. sends \in Nat /\ DOMAIN <<>> = {} /\ Requests \subseteq Nat
  BY ChatOK DEF ChatOK, TInv, ScalarsOK, Requests
<1> QED
  BY <1>1 DEF TInv, Bounded

(* A request the chat sends, whatever happens to its card. *)
LEMMA SendHolds ==
  ASSUME TInv, NEW left \in SUBSET running, NEW e \in 0..made, sends < MaxSends,
         Request(left, e), queued' = None, card' = card, FlagsOK', faults' \in 0..MaxFaults,
         UNCHANGED <<surface, told, minted, sent, patched, work, live, made, dropped>>
  PROVE  TInv'
<1>1. ScalarsOK'
  <2>1. /\ sends' \in 0..MaxSends /\ reading' \in 0..sends' /\ heard' \subseteq 1..made
        /\ status' = "streaming"
    BY RequestTypes
  <2>2. queued' \in 0..made
    BY ChatOK DEF ChatOK, TInv, ScalarsOK, None
  <2> QED
    BY <2>1, <2>2 DEF TInv, ScalarsOK
<1>2. <<>> \in Seq(Event)
  BY EmptySeq
<1>3. TablesOK'
  BY <1>2, RequestTypes DEF TInv, TablesOK
<1>4. Bounded'
  BY RequestTypes, RequestBound
<1> QED
  BY <1>1, <1>3, <1>4 DEF TInv

LEMMA StreamOverHolds ==
  ASSUME TInv, NEW left \in SUBSET running, NEW s \in {"idle", "error", "needs_api_key", "streaming"},
         StreamOver(left, s), faults' \in 0..MaxFaults,
         UNCHANGED <<surface, card, held, told, minted, sent, patched, work, live, made, dropped,
                     overlapped>>
  PROVE  TInv'
<1>1. FlagsOK'
  BY Zenon DEF TInv, FlagsOK
<1>2. CASE NothingWaits
  <2>1. queued = None
    BY <1>2 DEF NothingWaits, Drawer, TInv, ScalarsOK
  <2>2. /\ reading' = None /\ events' = <<>> /\ running' = left
        /\ UNCHANGED <<sends, knows, heard, queued>>
    BY <1>2 DEF StreamOver
  <2>3. status' \in {"idle", "error", "needs_api_key", "streaming"}
    BY <1>2 DEF StreamOver
  <2>4. ScalarsOK'
    BY <2>1, <2>2, <2>3 DEF TInv, ScalarsOK, None
  <2>5. TablesOK'
    BY <2>2, EmptySeq DEF TInv, TablesOK
  <2>6. Bounded'
    BY <2>1, <2>2 DEF TInv, Bounded
  <2> QED
    BY <1>1, <2>4, <2>5, <2>6 DEF TInv
<1>3. CASE ~NothingWaits
  <2>1. queued # None /\ queued \in 0..made /\ sends < MaxSends
    BY <1>3 DEF NothingWaits, TInv, ScalarsOK, Bounded
  <2>2. Request(left, queued) /\ queued' = None
    BY <1>3 DEF StreamOver
  <2> QED
    BY <1>1, <2>1, <2>2, SendHolds
<1> QED
  BY <1>2, <1>3

LEMMA ChatSends ==
  ASSUME TInv,
         \/ SendText \/ Confirm \/ Cancel \/ StreamClosed \/ LoseConnection
         \/ \E s \in {"error", "needs_api_key"} : Rejected(s)
  PROVE  TInv'
<1>0. faults \in 0..MaxFaults /\ status \in {"idle", "error", "needs_api_key", "streaming"}
  BY DEF TInv, ScalarsOK
<1>1. CASE SendText
  <2>1. FlagsOK'
    BY <1>1, Zenon DEF SendText, TInv, FlagsOK
  <2>2. queued = None
    BY <1>1 DEF SendText, TInv, ScalarsOK
  <2>3. sends < MaxSends /\ None \in 0..made
    BY <1>1, <2>2 DEF SendText, Room, TInv, ScalarsOK, None
  <2> QED
    BY <1>0, <1>1, <2>1, <2>2, <2>3, SendHolds DEF SendText
<1>2. CASE Confirm
  <2>0. card # None /\ card \in 0..made
    BY <1>2 DEF Confirm, TInv, ScalarsOK
  <2>1. FlagsOK'
    BY <1>2, <2>0, Zenon DEF Confirm, TInv, FlagsOK, Drawer
  <2>2. UNCHANGED <<surface, card, told, minted, sent, patched, work, live, made, dropped, faults>>
    BY <1>2 DEF Confirm
  <2>3. CASE ~Drawer /\ status = "streaming"
    <3>1. queued' = card /\ UNCHANGED <<sends, running, knows, heard, reading, events, status>>
      BY <1>2, <2>3 DEF Confirm
    <3>2. sends < MaxSends
      BY <1>2, <2>3 DEF Confirm, Room, TInv, ScalarsOK, Bounded
    <3>3. ScalarsOK'
      BY <2>2, <2>3, <3>1 DEF TInv, ScalarsOK, Drawer
    <3>4. TablesOK'
      BY <2>2, <3>1 DEF TInv, TablesOK
    <3>5. Bounded'
      BY <2>2, <3>1, <3>2 DEF TInv, Bounded
    <3> QED
      BY <2>1, <3>3, <3>4, <3>5 DEF TInv
  <2>4. CASE Drawer \/ status # "streaming"
    <3>1. queued = None
      BY <2>4 DEF TInv, ScalarsOK, Drawer
    <3>2. queued' = None /\ sends < MaxSends /\ Request(running, card)
      BY <1>2, <2>4, <3>1 DEF Confirm, Room, TInv, ScalarsOK
    <3> QED
      BY <1>0, <2>0, <2>1, <2>2, <3>2, SendHolds
  <2> QED
    BY <2>3, <2>4
<1>3. CASE Cancel
  <2>1. FlagsOK'
    BY <1>3, Zenon DEF Cancel, TInv, FlagsOK
  <2>2. dropped' \subseteq 1..made
    BY <1>3 DEF Cancel, TInv, ScalarsOK, None
  <2>3. ScalarsOK'
    BY <1>3, <2>2 DEF Cancel, server, TInv, ScalarsOK, None
  <2>4. TablesOK' /\ Bounded'
    BY <1>3 DEF Cancel, server, TInv, TablesOK, Bounded
  <2> QED
    BY <2>1, <2>3, <2>4 DEF TInv
<1>4. CASE StreamClosed
  BY <1>0, <1>4, StreamOverHolds DEF StreamClosed
<1>5. CASE LoseConnection
  <2>1. faults' \in 0..MaxFaults
    BY <1>0, <1>5, ChatOK DEF LoseConnection, Fault, ChatOK
  <2> QED
    BY <1>5, <2>1, StreamOverHolds DEF LoseConnection
<1>6. ASSUME NEW s \in {"error", "needs_api_key"}, Rejected(s)
      PROVE  TInv'
  <2>1. running \ {reading} \in SUBSET running
    OBVIOUS
  <2> QED
    BY <1>0, <1>6, <2>1, StreamOverHolds DEF Rejected
<1> QED
  BY <1>1, <1>2, <1>3, <1>4, <1>5, <1>6

-----------------------------------------------------------------------------
(* Handlers, and the reading of their streams *)

(* A handler leaves the flags alone, but for overlapped. *)
LEMMA FlagsFrame ==
  ASSUME FlagsOK, UNCHANGED <<surface, card, held>>, overlapped' \in BOOLEAN
  PROVE  FlagsOK'
  BY Zenon DEF FlagsOK

LEMMA EventsBound ==
  ASSUME \A i \in DOMAIN events : events[i].edit \in 0..made, events \in Seq(Event),
         NEW r, NEW type, NEW e \in 0..made', Emit(r, type, e),
         [type |-> type, edit |-> e] \in Event, 0..made \subseteq 0..made'
  PROVE  /\ events' \in Seq(Event)
         /\ \A i \in DOMAIN events' : events'[i].edit \in 0..made'
  BY EmittedEvents

LEMMA ToolsHold ==
  ASSUME TInv, NEW r \in Requests,
         \/ ProposeEdit(r) \/ NextTurn(r)
         \/ \E e \in Edits : ApplyEdit(r, e) \/ Patch(r, e) \/ Refuse(r, e)
  PROVE  TInv'
<1>0. /\ MaxEdits \in Nat /\ MaxWork \in Nat /\ made \in 0..MaxEdits /\ MaxFaults \in Nat
      /\ faults \in 0..MaxFaults /\ overlapped \in BOOLEAN
  BY ChatOK DEF ChatOK, TInv, ScalarsOK, FlagsOK
<1>1. CASE ProposeEdit(r)
  <2>1. FlagsOK'
    BY <1>0, <1>1, FlagsFrame DEF ProposeEdit, chat, TInv
  <2>2. /\ made' = made + 1 /\ made' \in 0..MaxEdits /\ 1..made \subseteq 1..made'
        /\ 0..made \subseteq 0..made' /\ made' \in 1..made' /\ made' \in Edits
    BY <1>0, <1>1 DEF ProposeEdit, Edits
  <2>3. [type |-> "proposed", edit |-> made'] \in Event
    BY <2>2 DEF Event
  <2>4. /\ events' \in Seq(Event)
        /\ \A i \in DOMAIN events' : events'[i].edit \in 0..made'
    <3>1. Emit(r, "proposed", made') /\ made' \in 0..made'
      BY <1>1, <2>2 DEF ProposeEdit
    <3> QED
      BY <2>2, <2>3, <3>1, EventsBound DEF TInv, TablesOK, Bounded
  <2>5. ScalarsOK'
    BY <1>1, <2>2 DEF ProposeEdit, chat, TInv, ScalarsOK
  <2>6. work' \in [Requests -> 0..MaxWork]
    BY <1>0, <1>1 DEF ProposeEdit, Works, TInv, TablesOK
  <2>7. minted' = [minted EXCEPT ![r] = minted[r] \cup {made'}]
    BY <1>1, <2>2 DEF ProposeEdit
  <2>8. TablesOK'
    BY <1>1, <2>2, <2>4, <2>6, <2>7 DEF ProposeEdit, TInv, TablesOK
  <2>9. r \in 1..sends
    BY <1>1 DEF ProposeEdit, Works, TInv, TablesOK
  <2>10. \A x \in Requests : knows'[x] \cup minted'[x] \cup sent'[x] \subseteq 1..made'
    BY <1>1, <2>2, <2>7 DEF ProposeEdit, TInv, TablesOK, Bounded
  <2>11. \A x \in Requests : \A a \in patched'[x] : a.edit \in 1..made'
    BY <1>1, <2>2 DEF ProposeEdit, TInv, Bounded
  <2>12. \A x \in Requests : x > sends' => minted'[x] = {}
    BY <1>1, <2>7, <2>9 DEF ProposeEdit, TInv, TablesOK, ScalarsOK, Bounded
  <2>13. queued' # None => sends' < MaxSends
    BY <1>1 DEF ProposeEdit, chat, TInv, Bounded
  <2> QED
    BY <2>1, <2>4, <2>5, <2>8, <2>10, <2>11, <2>12, <2>13 DEF TInv, Bounded
<1>2. CASE NextTurn(r)
  <2>1. FlagsOK'
    BY <1>0, <1>2, FlagsFrame DEF NextTurn, chat, TInv
  <2>2. ScalarsOK'
    BY <1>2 DEF NextTurn, chat, TInv, ScalarsOK
  <2>3. TablesOK' /\ Bounded'
    BY <1>2 DEF NextTurn, chat, TInv, TablesOK, Bounded
  <2> QED
    BY <2>1, <2>2, <2>3 DEF TInv
<1>3. ASSUME NEW e \in Edits, ApplyEdit(r, e)
      PROVE  TInv'
  <2>1. FlagsOK'
    <3>1. overlapped' \in BOOLEAN
      BY <1>3, Zenon DEF ApplyEdit
    <3> QED
      BY <1>3, <3>1, FlagsFrame DEF ApplyEdit, chat, TInv
  <2>2. ScalarsOK'
    BY <1>3 DEF ApplyEdit, chat, TInv, ScalarsOK
  <2>3. /\ sent' = [sent EXCEPT ![r] = sent[r] \cup {e}] /\ e \in knows[r]
        /\ work[r] < MaxWork /\ work' = [work EXCEPT ![r] = work[r] + 1]
        /\ UNCHANGED <<events, running, knows, minted, patched, made, sends, queued>>
    BY <1>3 DEF ApplyEdit, Works, chat
  <2>4. TablesOK'
    BY <1>0, <2>3 DEF TInv, TablesOK
  <2>5. Bounded'
    BY <2>3 DEF TInv, TablesOK, Bounded
  <2> QED
    BY <2>1, <2>2, <2>4, <2>5 DEF TInv
<1>4. ASSUME NEW e \in Edits, Patch(r, e) \/ Refuse(r, e)
      PROVE  TInv'
  <2>1. FlagsOK'
    BY <1>0, <1>4, FlagsFrame DEF Patch, Refuse, chat, TInv
  <2>2. e \in sent[r] /\ e \in 1..made
    BY <1>4 DEF Patch, Refuse, TInv, Bounded
  <2>3. live' \in 0..made /\ faults' \in 0..MaxFaults
    <3>1. live' = e \/ live' = live
      BY <1>4 DEF Patch, Refuse
    <3>2. faults' = faults \/ (faults < MaxFaults /\ faults' = faults + 1)
      BY <1>4, Zenon DEF Patch, Refuse, Fault
    <3> QED
      BY <1>0, <2>2, <3>1, <3>2 DEF TInv, ScalarsOK
  <2>4. ScalarsOK'
    BY <1>4, <2>3 DEF Patch, Refuse, chat, TInv, ScalarsOK
  <2>5. PICK ok \in BOOLEAN : Answered(r, e, ok)
    <3>1. CASE Patch(r, e)
      <4>1. (live # e) \in BOOLEAN
        BY Zenon
      <4> QED
        BY <3>1, <4>1, Zenon DEF Patch
    <3>2. CASE Refuse(r, e)
      BY <3>2, Zenon DEF Refuse
    <3> QED
      BY <1>4, <3>1, <3>2
  <2>6. /\ sent' = [sent EXCEPT ![r] = sent[r] \ {e}]
        /\ \/ patched' = [patched EXCEPT ![r] = patched[r] \cup {[edit |-> e, ok |-> ok]}]
           \/ patched' = patched
    <3>1. patched = [patched EXCEPT ![r] = patched[r]]
      BY DEF TInv, TablesOK
    <3> QED
      BY <2>5, <3>1 DEF Answered
  <2>7. UNCHANGED <<events, running, knows, minted, made, sends, queued, work>>
    BY <1>4 DEF Patch, Refuse, chat
  <2>8. TablesOK'
    BY <2>6, <2>7 DEF TInv, TablesOK
  <2>9. Bounded'
    <3>1. \A x \in Requests : sent'[x] \subseteq sent[x]
      BY <2>6 DEF TInv, TablesOK
    <3>2. ASSUME NEW x \in Requests, NEW a \in patched'[x]
          PROVE  a \in patched[x] \/ a.edit = e
      <4> DEFINE new == [edit |-> e, ok |-> ok]
      <4>1. patched' = [patched EXCEPT ![r] = patched[r] \cup {new}] \/ patched' = patched
        BY <2>6
      <4>2. new.edit = e
        OBVIOUS
      <4> HIDE DEF new
      <4>3. a \in patched[x] \/ a = new
        BY <4>1 DEF TInv, TablesOK
      <4> QED
        BY <4>2, <4>3
    <3>3. ASSUME NEW x \in Requests, NEW a \in patched'[x]
          PROVE  a.edit \in 1..made
      <4>1. CASE a \in patched[x]
        BY <4>1 DEF TInv, Bounded
      <4>2. CASE a.edit = e
        BY <2>2, <4>2
      <4> QED
        BY <3>2, <4>1, <4>2
    <3>4. ASSUME NEW x \in Requests
          PROVE  knows'[x] \cup minted'[x] \cup sent'[x] \subseteq 1..made
      <4>1. knows' = knows /\ minted' = minted
        BY <2>7
      <4>2. knows[x] \cup minted[x] \cup sent[x] \subseteq 1..made
        BY DEF TInv, Bounded
      <4>3. sent'[x] \subseteq sent[x]
        BY <3>1
      <4> QED
        BY <4>1, <4>2, <4>3, Zenon
    <3> QED
      BY <2>7, <3>3, <3>4 DEF TInv, Bounded
  <2> QED
    BY <2>1, <2>4, <2>8, <2>9 DEF TInv
<1> QED
  BY <1>1, <1>2, <1>3, <1>4

LEMMA EndsHold ==
  ASSUME TInv, NEW r \in Requests,
         \/ Finish(r) \/ Stop(r)
         \/ \E a \in patched[r] : Result(r, a)
  PROVE  TInv'
<1>0. overlapped \in BOOLEAN /\ 0 \in 0..MaxWork /\ None \in 0..made /\ 0..made = 0..made
  BY ChatOK DEF ChatOK, TInv, FlagsOK, ScalarsOK, None
<1>1. CASE Finish(r) \/ Stop(r)
  <2>1. FlagsOK'
    BY <1>0, <1>1, FlagsFrame DEF Finish, Stop, chat, TInv
  <2>2. ScalarsOK'
    BY <1>1 DEF Finish, Stop, chat, TInv, ScalarsOK
  <2>3. Over(r) /\ UNCHANGED <<sent, made, sends, queued>>
    BY <1>1 DEF Finish, Stop, chat
  <2>4. /\ events' \in Seq(Event)
        /\ \A i \in DOMAIN events' : events'[i].edit \in 0..made
    <3>1. CASE Finish(r)
      <4>1. \A type \in {"done", "error"} : [type |-> type, edit |-> None] \in Event
        BY DEF Event
      <4>2. Emit(r, "done", None) \/ Emit(r, "error", None)
        BY <3>1 DEF Finish, Announce
      <4> QED
        BY <1>0, <2>3, <4>1, <4>2, EventsBound DEF TInv, TablesOK, Bounded
    <3>2. CASE Stop(r)
      BY <3>2 DEF Stop, TInv, TablesOK, Bounded
    <3> QED
      BY <1>1, <3>1, <3>2
  <2>5. TablesOK'
    BY <1>0, <2>3, <2>4 DEF Over, TInv, TablesOK
  <2>6. Bounded'
    BY <2>3, <2>4 DEF Over, TInv, TablesOK, Bounded
  <2> QED
    BY <2>1, <2>2, <2>5, <2>6 DEF TInv
<1>2. ASSUME NEW a \in patched[r], Result(r, a)
      PROVE  TInv'
  <2>1. FlagsOK'
    BY <1>0, <1>2, FlagsFrame DEF Result, chat, TInv
  <2>2. ScalarsOK'
    BY <1>2 DEF Result, chat, TInv, ScalarsOK
  <2>3. a.edit \in 0..made /\ a.edit \in Edits
    BY DEF TInv, ScalarsOK, TablesOK, Bounded
  <2>4. PICK type \in {"applied", "failed"} : Emit(r, type, a.edit)
    BY <1>2, Zenon DEF Result
  <2>5. [type |-> type, edit |-> a.edit] \in Event
    BY <2>3 DEF Event
  <2>6. UNCHANGED <<running, knows, minted, sent, made, sends, queued, work>>
    BY <1>2 DEF Result, chat
  <2>7. /\ events' \in Seq(Event)
        /\ \A i \in DOMAIN events' : events'[i].edit \in 0..made
    BY <2>3, <2>4, <2>5, <2>6, EventsBound DEF TInv, TablesOK, Bounded
  <2>8. patched' = [patched EXCEPT ![r] = patched[r] \ {a}]
    BY <1>2 DEF Result
  <2>9. TablesOK'
    BY <2>6, <2>7, <2>8 DEF TInv, TablesOK
  <2>10. Bounded'
    BY <2>6, <2>7, <2>8 DEF TInv, TablesOK, Bounded
  <2> QED
    BY <2>1, <2>2, <2>9, <2>10 DEF TInv
<1> QED
  BY <1>1, <1>2

LEMMA ReadHolds ==
  ASSUME TInv, Read
  PROVE  TInv'
<1>1. UNCHANGED <<surface, queued, reading, running, knows, minted, sent, patched, work, live, made,
                  sends, heard, dropped, faults, overlapped>>
  BY DEF Read, server
<1>2. PICK event \in Event : Take(event)
  <2>1. \A e \in Edits, type \in {"proposed", "applied", "failed"} :
           [type |-> type, edit |-> e] \in Event
    BY DEF Event
  <2>2. \A type \in {"done", "error"} : [type |-> type, edit |-> None] \in Event
    BY DEF Event
  <2> QED
    BY <2>1, <2>2, Zenon DEF Read, Proposed, Applied, Failed, Ended
<1>3. events' \in Seq(Event) /\ \A i \in DOMAIN events' : events'[i].edit \in 0..made
  BY <1>2, TakenEvents DEF TInv, TablesOK, Bounded
<1>4. TablesOK' /\ Bounded'
  BY <1>1, <1>3 DEF TInv, TablesOK, Bounded
<1>5. ASSUME NEW e \in Edits, NEW type, Take([type |-> type, edit |-> e])
      PROVE  e \in 1..made
  <2>1. PICK i \in DOMAIN events : events[i] = [type |-> type, edit |-> e]
    BY <1>5, TakenEvents DEF TInv, TablesOK
  <2>2. e \in 0..made /\ e # 0
    BY <2>1, ChatOK DEF TInv, Bounded, Edits, ChatOK
  <2> QED
    BY <2>2 DEF TInv, ScalarsOK
<1>6. None \in 0..made /\ made \in Nat
  BY ChatOK DEF ChatOK, TInv, ScalarsOK, None
<1>7. card' \in 0..made /\ told' \in 0..made
  <2>1. card \in 0..made /\ told \in 0..made /\ 1..made \subseteq 0..made
    BY <1>6 DEF TInv, ScalarsOK
  <2>2. ASSUME NEW e \in Edits, Proposed(e) \/ Applied(e) \/ Failed(e)
        PROVE  card' \in {e, None} /\ told' \in {e, told} /\ e \in 1..made
    BY <1>5, <2>2 DEF Proposed, Applied, Failed
  <2>3. ASSUME Ended("done", "idle") \/ Ended("error", "error")
        PROVE  card' = card /\ told' = told
    BY <2>3 DEF Ended
  <2> QED
    BY <1>6, <2>1, <2>2, <2>3 DEF Read
<1>8. /\ status' \in {"idle", "streaming", "error", "needs_api_key"}
      /\ surface # "drawer" => status' = status
  BY DEF Read, Proposed, Applied, Failed, Ended, Drawer, TInv, ScalarsOK
<1>9. ScalarsOK'
  BY <1>1, <1>7, <1>8 DEF TInv, ScalarsOK
<1>10. FlagsOK'
  <2>1. held' = FALSE \/ (held' = held /\ card' = card)
    BY Zenon DEF Read, Proposed, Applied, Failed, Ended
  <2> QED
    <3>1. overlapped' \in BOOLEAN /\ surface' = surface
      BY <1>1, Zenon DEF TInv, FlagsOK
    <3>2. CASE held' = FALSE
      BY <3>1, <3>2, Zenon DEF FlagsOK
    <3>3. CASE held' = held /\ card' = card
      BY <3>1, <3>3, FlagsFrame DEF TInv
    <3> QED
      BY <2>1, <3>2, <3>3
<1> QED
  BY <1>4, <1>9, <1>10 DEF TInv

LEMMA TypesHold == TInv /\ [Next]_vars => TInv'
<1> SUFFICES ASSUME TInv, [Next]_vars PROVE TInv'
  OBVIOUS
<1>1. CASE UNCHANGED vars
  <2>1. FlagsOK'
    <3>1. UNCHANGED <<surface, card, held>> /\ overlapped' = overlapped
      BY <1>1 DEF vars, chat
    <3>2. overlapped' \in BOOLEAN
      BY <3>1, Zenon DEF TInv, FlagsOK
    <3>3. FlagsOK
      BY DEF TInv
    <3> QED
      BY <3>1, <3>2, <3>3, FlagsFrame
  <2>2. ScalarsOK' /\ TablesOK' /\ Bounded'
    BY <1>1 DEF vars, chat, server, TInv, ScalarsOK, TablesOK, Bounded
  <2> QED
    BY <2>1, <2>2 DEF TInv
<1> QED
  BY <1>1, ChatSends, ToolsHold, EndsHold, ReadHolds DEF Next, Handler

LEMMA TypesInit == Init => TInv
<1> SUFFICES ASSUME Init PROVE TInv
  OBVIOUS
<1>1. FlagsOK
  BY Zenon DEF Init, FlagsOK
<1>2. ScalarsOK
  BY ChatOK DEF ChatOK, Init, ScalarsOK, None
<1>3. TablesOK
  BY ChatOK DEF ChatOK, Init, TablesOK
<1>4. Bounded
  BY DEF Init, Bounded, None
<1> QED
  BY <1>1, <1>2, <1>3, <1>4 DEF TInv

-----------------------------------------------------------------------------
(* What is cancelled in time stays out *)

(* No request has, or will be given, the token of e. *)
Unknown(e) ==
    \A r \in Requests :
        e \notin sent[r] /\ (r \in running => e \notin knows[r] \cup minted[r])

(* The stream holds a proposal the chat has not shown. *)
Coming(e) == \E i \in DOMAIN events : events[i] = [type |-> "proposed", edit |-> e]

DropInv ==
    \A e \in dropped :
        /\ Unknown(e) /\ ~Coming(e)
        /\ e # card /\ e # queued
        /\ surface = "drawer" \/ e \notin heard

(* A proposal is shown once, and before it nothing confirms it. *)
ComingInv ==
    /\ \A e \in 1..made : Coming(e) => e # card /\ e # queued /\ e \notin heard
    /\ \A i, j \in DOMAIN events : events[i].type = "proposed" /\ events[i] = events[j] => i = j

(* The buttons of a card that was confirmed stay disabled. *)
HeldInv == surface # "drawer" /\ card # None /\ (card \in heard \/ card = queued) => held

CInv == TInv /\ DropInv /\ ComingInv /\ HeldInv

LEMMA HeldFrame ==
  ASSUME HeldInv, UNCHANGED <<surface, card, held, queued, heard>>
  PROVE  HeldInv'
  BY Zenon DEF HeldInv

LEMMA HeldSends ==
  ASSUME HeldInv, UNCHANGED <<surface, card, held>>,
         card # None /\ (card \in heard' \/ card = queued') => card \in heard \/ card = queued
  PROVE  HeldInv'
  BY Zenon DEF HeldInv

(* Steps of a handler that send the chat nothing. *)
LEMMA SilentStep ==
  ASSUME CInv, UNCHANGED <<surface, card, held, queued, heard, dropped, events, made>>,
         \A e \in dropped : Unknown(e)'
  PROVE  DropInv' /\ ComingInv' /\ HeldInv'
<1>1. HeldInv'
  BY HeldFrame DEF CInv
<1>2. \A e : Coming(e)' <=> Coming(e)
  BY DEF Coming
<1> QED
  BY <1>1, <1>2 DEF CInv, DropInv, ComingInv

LEMMA ToolsDrop ==
  ASSUME CInv, NEW r \in Requests,
         \/ NextTurn(r) \/ Stop(r)
         \/ \E e \in Edits : ApplyEdit(r, e) \/ Patch(r, e) \/ Refuse(r, e)
  PROVE  DropInv' /\ ComingInv' /\ HeldInv'
<1>1. UNCHANGED <<surface, card, held, queued, heard, dropped, events, made>>
  BY DEF NextTurn, Stop, ApplyEdit, Patch, Refuse, chat
<1> SUFFICES ASSUME NEW d \in dropped PROVE Unknown(d)'
  BY <1>1, SilentStep
<1>2. Unknown(d)
  BY DEF CInv, DropInv
<1>3. TablesOK
  BY DEF CInv, TInv
<1>4. CASE NextTurn(r)
  BY <1>2, <1>3, <1>4 DEF NextTurn, Unknown, TablesOK
<1>5. CASE Stop(r)
  BY <1>2, <1>3, <1>5 DEF Stop, Over, Unknown, TablesOK
<1>6. ASSUME NEW e \in Edits, ApplyEdit(r, e)
      PROVE  Unknown(d)'
  <2>1. e # d /\ UNCHANGED <<running, knows, minted>>
    BY <1>2, <1>6 DEF ApplyEdit, Works, Unknown
  <2>2. sent' = [sent EXCEPT ![r] = sent[r] \cup {e}]
    BY <1>6 DEF ApplyEdit
  <2> QED
    BY <1>2, <1>3, <2>1, <2>2 DEF Unknown, TablesOK
<1>7. ASSUME NEW e \in Edits, Patch(r, e) \/ Refuse(r, e)
      PROVE  Unknown(d)'
  <2>1. UNCHANGED <<running, knows, minted>> /\ sent' = [sent EXCEPT ![r] = sent[r] \ {e}]
    BY <1>7 DEF Patch, Refuse, Answered
  <2> QED
    BY <1>2, <1>3, <2>1 DEF Unknown, TablesOK
<1> QED
  BY <1>4, <1>5, <1>6, <1>7

(* A handler that sends the chat an event which is no proposal. *)
LEMMA EmitsDrop ==
  ASSUME CInv, NEW r, NEW type, type # "proposed", NEW e, Emit(r, type, e),
         [type |-> type, edit |-> e] \in Event,
         UNCHANGED <<surface, card, held, queued, heard, dropped, made>>,
         \A d \in dropped : Unknown(d)'
  PROVE  DropInv' /\ ComingInv' /\ HeldInv'
<1>1. HeldInv'
  BY HeldFrame DEF CInv
<1>2. \A i \in DOMAIN events' :
         \/ i \in DOMAIN events /\ events'[i] = events[i]
         \/ events'[i].type # "proposed"
  BY EmittedEvents DEF CInv, TInv, TablesOK
<1>3. \A d : Coming(d)' => Coming(d)
  BY <1>2 DEF Coming
<1>4. \A i, j \in DOMAIN events' :
         events'[i].type = "proposed" /\ events'[i] = events'[j] => i = j
  BY <1>2 DEF CInv, ComingInv
<1> QED
  BY <1>1, <1>3, <1>4 DEF CInv, DropInv, ComingInv

LEMMA EndsDrop ==
  ASSUME CInv, NEW r \in Requests, Finish(r) \/ \E a \in patched[r] : Result(r, a)
  PROVE  DropInv' /\ ComingInv' /\ HeldInv'
<1>0. TablesOK
  BY DEF CInv, TInv
<1>1. UNCHANGED <<surface, card, held, queued, heard, dropped, made>>
  BY DEF Finish, Result, chat
<1>2. \A d \in dropped : Unknown(d)
  BY DEF CInv, DropInv
<1>3. CASE Finish(r)
  <2>1. \A d \in dropped : Unknown(d)'
    BY <1>0, <1>2, <1>3 DEF Finish, Over, Unknown, TablesOK
  <2>2. \A type \in {"done", "error"} : [type |-> type, edit |-> None] \in Event
    BY DEF Event
  <2>3. PICK type \in {"done", "error"} : Emit(r, type, None)
    BY <1>3 DEF Finish, Announce
  <2> QED
    BY <1>1, <2>1, <2>2, <2>3, EmitsDrop
<1>4. ASSUME NEW a \in patched[r], Result(r, a)
      PROVE  DropInv' /\ ComingInv' /\ HeldInv'
  <2>1. \A d \in dropped : Unknown(d)'
    BY <1>2, <1>4 DEF Result, Unknown
  <2>2. PICK type \in {"applied", "failed"} : Emit(r, type, a.edit)
    BY <1>4, Zenon DEF Result
  <2>3. [type |-> type, edit |-> a.edit] \in Event
    BY <1>0 DEF Event, TablesOK
  <2> QED
    BY <1>1, <2>1, <2>2, <2>3, EmitsDrop
<1> QED
  BY <1>3, <1>4

LEMMA ProposeDrop ==
  ASSUME CInv, NEW r \in Requests, ProposeEdit(r)
  PROVE  DropInv' /\ ComingInv' /\ HeldInv'
<1> DEFINE e == made + 1
<1>0. /\ TablesOK /\ Bounded /\ made \in Nat /\ e \in Edits
      /\ card \in 0..made /\ queued \in 0..made /\ heard \subseteq 1..made
      /\ dropped \subseteq 1..made
  BY ChatOK DEF ChatOK, CInv, TInv, ScalarsOK, ProposeEdit, Edits
<1>1. UNCHANGED <<surface, card, held, queued, heard, dropped, running, knows, sent>> /\ made' = e
  BY DEF ProposeEdit, chat
<1>2. HeldInv'
  BY <1>1, HeldFrame DEF CInv
<1>3. /\ e \notin 0..made /\ e \notin heard /\ e \notin dropped /\ e # card /\ e # queued
      /\ \A d \in 1..e : d \in 1..made \/ d = e
  BY <1>0
<1>4. minted' = [minted EXCEPT ![r] = minted[r] \cup {e}] /\ Emit(r, "proposed", e)
  BY DEF ProposeEdit
<1> HIDE DEF e
<1>5. [type |-> "proposed", edit |-> e] \in Event
  BY <1>0 DEF Event
<1>6. /\ \A i \in DOMAIN events' :
            \/ i \in DOMAIN events /\ events'[i] = events[i]
            \/ i \notin DOMAIN events /\ events'[i] = [type |-> "proposed", edit |-> e]
      /\ \A i, j \in DOMAIN events' : i \notin DOMAIN events /\ j \notin DOMAIN events => i = j
  BY <1>0, <1>4, <1>5, EmittedEvents DEF TablesOK
<1>7. \A i \in DOMAIN events : events[i].edit # e
  BY <1>0, <1>3 DEF Bounded
<1>8. \A d : Coming(d)' => Coming(d) \/ d = e
  BY <1>6 DEF Coming
<1>9. \A i, j \in DOMAIN events' :
         events'[i].type = "proposed" /\ events'[i] = events'[j] => i = j
  BY <1>6, <1>7 DEF CInv, ComingInv
<1>10. \A d \in dropped : Unknown(d)'
  BY <1>0, <1>1, <1>3, <1>4 DEF CInv, DropInv, Unknown, TablesOK
<1>11. DropInv'
  BY <1>1, <1>3, <1>8, <1>10 DEF CInv, DropInv
<1>12. ComingInv'
  BY <1>1, <1>3, <1>8, <1>9 DEF CInv, ComingInv
<1> QED
  BY <1>2, <1>11, <1>12

(* A request knows the token of what it confirms and what the user has     *)
(* sent before, and of that nothing is cancelled.                          *)
LEMMA RequestDrop ==
  ASSUME CInv, NEW left \in SUBSET running, NEW e \in 0..made, sends < MaxSends,
         Request(left, e), e \notin dropped, queued' \in {queued, None},
         UNCHANGED <<surface, card, dropped, minted, sent, made>>, HeldInv'
  PROVE  DropInv' /\ ComingInv' /\ HeldInv'
<1>0. /\ TablesOK /\ sends \in Nat /\ sends + 1 \in Requests /\ sends + 1 > sends
      /\ dropped \subseteq 1..made
  BY ChatOK DEF ChatOK, CInv, TInv, ScalarsOK, Requests
<1>1. /\ running' = left \cup {sends + 1} /\ heard' = heard \cup Carried(e) /\ events' = <<>>
      /\ knows' = [knows EXCEPT ![sends + 1] = History \cup Carried(e)]
  BY DEF Request
<1>2. minted[sends + 1] = {}
  BY <1>0 DEF CInv, TInv, Bounded
<1>3. \A d : ~Coming(d)'
  BY <1>1 DEF Coming
<1>4. ASSUME NEW d \in dropped
      PROVE  d \notin Carried(e) /\ d \notin History /\ d # None
  <2>1. surface = "drawer" \/ d \notin heard
    BY DEF CInv, DropInv
  <2> QED
    BY <1>0, <2>1 DEF Carried, History, Drawer, None
<1>5. ASSUME NEW d \in dropped
      PROVE  Unknown(d)'
  <2>1. Unknown(d)
    BY DEF CInv, DropInv
  <2> DEFINE h == History \cup Carried(e)
  <2>2. d \notin h /\ knows' = [knows EXCEPT ![sends + 1] = h]
    BY <1>1, <1>4
  <2> HIDE DEF h
  <2> QED
    BY <1>0, <1>1, <1>2, <2>1, <2>2 DEF Unknown, TablesOK
<1>6. DropInv'
  BY <1>1, <1>3, <1>4, <1>5 DEF CInv, DropInv
<1>7. ComingInv'
  BY <1>1, <1>3 DEF ComingInv
<1> QED
  BY <1>6, <1>7

LEMMA StreamOverDrop ==
  ASSUME CInv, NEW left \in SUBSET running, NEW s, StreamOver(left, s),
         UNCHANGED <<surface, card, held, minted, sent, made, dropped>>
  PROVE  DropInv' /\ ComingInv' /\ HeldInv'
<1>1. CASE NothingWaits
  <2>1. /\ events' = <<>> /\ running' \subseteq running
        /\ UNCHANGED <<knows, heard, queued>>
    BY <1>1 DEF StreamOver
  <2>2. HeldInv'
    BY <2>1, HeldFrame DEF CInv
  <2>3. \A d : ~Coming(d)'
    BY <2>1 DEF Coming
  <2>4. \A d \in dropped : Unknown(d)'
    BY <2>1 DEF CInv, DropInv, Unknown
  <2> QED
    BY <2>1, <2>2, <2>3, <2>4 DEF CInv, DropInv, ComingInv
<1>2. CASE ~NothingWaits
  <2>1. queued # None /\ queued \in 0..made /\ sends < MaxSends
    BY <1>2 DEF NothingWaits, CInv, TInv, ScalarsOK, Bounded
  <2>2. Request(left, queued) /\ queued' = None /\ heard' = heard \cup Carried(queued)
    BY <1>2 DEF StreamOver, Request
  <2>3. queued \notin dropped
    BY DEF CInv, DropInv
  <2>4. HeldInv'
    <3>1. card # None /\ (card \in heard' \/ card = queued') => card \in heard \/ card = queued
      BY <2>2 DEF Carried
    <3> QED
      BY <3>1, HeldSends DEF CInv
  <2> QED
    BY <2>1, <2>2, <2>3, <2>4, RequestDrop
<1> QED
  BY <1>1, <1>2

LEMMA SendsDrop ==
  ASSUME CInv,
         \/ SendText \/ Confirm \/ StreamClosed \/ LoseConnection
         \/ \E s \in {"error", "needs_api_key"} : Rejected(s)
  PROVE  DropInv' /\ ComingInv' /\ HeldInv'
<1>1. CASE SendText
  <2>1. queued = None
    BY <1>1 DEF SendText, CInv, TInv, ScalarsOK
  <2>2. sends < MaxSends /\ None \in 0..made /\ None \notin dropped
    BY <1>1, <2>1, ChatOK DEF ChatOK, SendText, Room, CInv, TInv, ScalarsOK, None
  <2>3. Request(running, None) /\ heard' = heard
    BY <1>1 DEF SendText, Request, Carried
  <2>4. HeldInv'
    BY <1>1, <2>3, HeldFrame DEF SendText, CInv
  <2> QED
    BY <1>1, <2>2, <2>3, <2>4, RequestDrop DEF SendText
<1>2. CASE Confirm
  <2>1. /\ UNCHANGED <<surface, card, dropped, minted, sent, made>> /\ held' = ~Drawer
        /\ card # None
    BY <1>2 DEF Confirm
  <2>2. HeldInv'
    BY <2>1, Zenon DEF HeldInv, Drawer
  <2>3. CASE ~Drawer /\ status = "streaming"
    <3>1. queued' = card /\ UNCHANGED <<running, knows, heard, events>>
      BY <1>2, <2>3 DEF Confirm
    <3>2. \A d : Coming(d)' <=> Coming(d)
      BY <3>1 DEF Coming
    <3>3. \A d \in dropped : Unknown(d)'
      BY <2>1, <3>1 DEF CInv, DropInv, Unknown
    <3> QED
      BY <2>1, <2>2, <3>1, <3>2, <3>3 DEF CInv, DropInv, ComingInv
  <2>4. CASE Drawer \/ status # "streaming"
    <3>1. queued = None /\ card \in 0..made
      BY <2>4 DEF CInv, TInv, ScalarsOK, Drawer
    <3>2. queued' = queued /\ sends < MaxSends /\ Request(running, card)
      BY <1>2, <2>4, <3>1 DEF Confirm, Room, CInv, TInv, ScalarsOK
    <3>3. card \notin dropped
      BY DEF CInv, DropInv
    <3> QED
      BY <2>1, <2>2, <3>1, <3>2, <3>3, RequestDrop
  <2> QED
    BY <2>3, <2>4
<1>3. CASE StreamClosed
  BY <1>3, StreamOverDrop DEF StreamClosed
<1>4. CASE LoseConnection
  BY <1>4, StreamOverDrop DEF LoseConnection
<1>5. ASSUME NEW s \in {"error", "needs_api_key"}, Rejected(s)
      PROVE  DropInv' /\ ComingInv' /\ HeldInv'
  <2>1. running \ {reading} \in SUBSET running
    OBVIOUS
  <2> QED
    BY <1>5, <2>1, StreamOverDrop DEF Rejected
<1> QED
  BY <1>1, <1>2, <1>3, <1>4, <1>5

(* A card with enabled buttons was never confirmed in the workbench.       *)
LEMMA CancelDrop ==
  ASSUME CInv, Cancel
  PROVE  DropInv' /\ ComingInv' /\ HeldInv'
<1>1. /\ card # None /\ card' = None /\ card \in 1..made
      /\ UNCHANGED <<surface, queued, running, knows, minted, sent, heard, events, made>>
  BY ChatOK DEF ChatOK, Cancel, server, CInv, TInv, ScalarsOK, None
<1>2. HeldInv'
  BY <1>1, Zenon DEF HeldInv
<1>3. \A d : (Coming(d)' <=> Coming(d)) /\ (Unknown(d)' <=> Unknown(d))
  BY <1>1 DEF Coming, Unknown
<1>4. ComingInv'
  <2>1. \A e \in 1..made : e # None
    BY DEF None
  <2> QED
    BY <1>1, <1>3, <2>1 DEF CInv, ComingInv
<1>5. ASSUME card \in dropped', card \notin dropped
      PROVE  /\ Unknown(card) /\ ~Coming(card) /\ card # queued
             /\ surface = "drawer" \/ card \notin heard
  <2>1. Knowing(card) = {}
    BY <1>5 DEF Cancel
  <2>2. Unknown(card)
    BY <2>1 DEF Knowing, Unknown
  <2>3. ~Coming(card)
    BY <1>1 DEF CInv, ComingInv
  <2>4. surface # "drawer" => card \notin heard /\ card # queued
    <3>1. surface # "drawer" => ~held
      BY Zenon DEF Cancel, CanPress, Drawer
    <3> QED
      BY <1>1, <3>1, Zenon DEF CInv, HeldInv
  <2>5. surface = "drawer" => card # queued
    BY <1>1 DEF CInv, TInv, ScalarsOK
  <2> QED
    BY <2>2, <2>3, <2>4, <2>5
<1>6. dropped' \subseteq dropped \cup {card} /\ \A d \in dropped \cup {card} : d # None
  BY <1>1 DEF Cancel, CInv, TInv, ScalarsOK, None
<1>7. DropInv'
  BY <1>1, <1>3, <1>5, <1>6 DEF CInv, DropInv
<1> QED
  BY <1>2, <1>4, <1>7

LEMMA ReadDrop ==
  ASSUME CInv, Read
  PROVE  DropInv' /\ ComingInv' /\ HeldInv'
<1>0. /\ events \in Seq(Event) /\ card \in 0..made /\ made \in Nat /\ queued \in 0..made
  BY ChatOK DEF ChatOK, CInv, TInv, ScalarsOK, TablesOK
<1>1. UNCHANGED <<surface, queued, running, knows, minted, sent, heard, dropped, made>>
  BY DEF Read, server
<1>2. PICK event \in Event : Take(event)
  <2>1. \A e \in Edits, type \in {"proposed", "applied", "failed"} :
           [type |-> type, edit |-> e] \in Event
    BY DEF Event
  <2>2. \A type \in {"done", "error"} : [type |-> type, edit |-> None] \in Event
    BY DEF Event
  <2> QED
    BY <2>1, <2>2, Zenon DEF Read, Proposed, Applied, Failed, Ended
<1>3. /\ \A i \in DOMAIN events' : i + 1 \in DOMAIN events /\ events'[i] = events[i + 1]
      /\ DOMAIN events' \subseteq Nat /\ \A i \in DOMAIN events' : i + 1 # 1
  BY <1>0, <1>2, TakenEvents
<1>4. \A d : Coming(d)' => Coming(d)
  BY <1>3 DEF Coming
<1>5. ASSUME NEW d \in Edits, Take([type |-> "proposed", edit |-> d])
      PROVE  Coming(d) /\ ~Coming(d)' /\ d \in 1..made
  <2> DEFINE p == [type |-> "proposed", edit |-> d]
  <2>1. 1 \in DOMAIN events /\ events[1] = p
    <3>1. events # <<>> /\ events[1] = p
      BY <1>0, <1>5 DEF Take
    <3> QED
      BY <1>0, <3>1, EmptySeq, LenProperties
  <2>2. p.type = "proposed" /\ p.edit = d
    OBVIOUS
  <2> HIDE DEF p
  <2>3. Coming(d)
    BY <2>1 DEF Coming, p
  <2>4. ~Coming(d)'
    <3>1. SUFFICES ASSUME NEW i \in DOMAIN events', events'[i] = p
                   PROVE  FALSE
      BY DEF Coming, p
    <3>2. i + 1 \in DOMAIN events /\ events[i + 1] = events[1] /\ i + 1 # 1
      BY <1>3, <2>1, <3>1
    <3>3. events[1].type = "proposed"
      BY <2>1, <2>2
    <3> QED
      BY <2>1, <3>2, <3>3 DEF CInv, ComingInv
  <2>5. d \in 0..made /\ d # 0
    BY <2>1, <2>2, ChatOK DEF CInv, TInv, Bounded, Edits, ChatOK
  <2> QED
    BY <1>0, <2>3, <2>4, <2>5
<1>6. \A i, j \in DOMAIN events' :
         events'[i].type = "proposed" /\ events'[i] = events'[j] => i = j
  <2> SUFFICES ASSUME NEW i \in DOMAIN events', NEW j \in DOMAIN events',
                      events'[i].type = "proposed", events'[i] = events'[j]
               PROVE  i = j
    OBVIOUS
  <2>1. i + 1 = j + 1
    BY <1>3 DEF CInv, ComingInv
  <2> QED
    BY <1>3, <2>1
<1>7. \A d \in dropped : Unknown(d)' /\ ~Coming(d)'
  BY <1>1, <1>4 DEF CInv, DropInv, Unknown
(* The card is the proposal that was read, gone, or the one it was. *)
<1>8. ASSUME NEW d \in Edits, Proposed(d)
      PROVE  DropInv' /\ ComingInv' /\ HeldInv'
  <2>1. /\ card' = d /\ Coming(d) /\ ~Coming(d)' /\ d \in 1..made
    BY <1>5, <1>8 DEF Proposed
  <2>2. d \notin dropped /\ d \notin heard /\ d # queued
    BY <2>1 DEF CInv, DropInv, ComingInv
  <2>3. HeldInv'
    BY <1>1, <2>1, <2>2, Zenon DEF HeldInv
  <2> QED
    BY <1>1, <1>4, <1>6, <1>7, <2>1, <2>2, <2>3 DEF CInv, DropInv, ComingInv
<1>9. ASSUME card' = None
      PROVE  DropInv' /\ ComingInv' /\ HeldInv'
  <2>1. HeldInv'
    BY <1>9, Zenon DEF HeldInv
  <2>2. None \notin 1..made /\ dropped \subseteq 1..made
    BY DEF None, CInv, TInv, ScalarsOK
  <2> QED
    BY <1>1, <1>4, <1>6, <1>7, <1>9, <2>1, <2>2 DEF CInv, DropInv, ComingInv
<1>10. ASSUME NEW type, NEW s, Ended(type, s)
       PROVE  DropInv' /\ ComingInv' /\ HeldInv'
  <2>1. HeldInv'
    BY <1>1, <1>10, HeldFrame DEF Ended, CInv
  <2> QED
    BY <1>1, <1>4, <1>6, <1>7, <1>10, <2>1 DEF Ended, CInv, DropInv, ComingInv
<1> QED
  BY <1>8, <1>9, <1>10 DEF Read, Applied, Failed

-----------------------------------------------------------------------------

LEMMA StepHolds == CInv /\ [Next]_vars => CInv'
<1> SUFFICES ASSUME CInv, [Next]_vars PROVE DropInv' /\ ComingInv' /\ HeldInv'
  BY TypesHold DEF CInv
<1>1. CASE UNCHANGED vars
  <2>1. UNCHANGED <<surface, card, held, queued, heard, dropped, events, made>>
        /\ UNCHANGED <<running, knows, minted, sent>>
    BY <1>1 DEF vars, chat, server
  <2>2. \A d \in dropped : Unknown(d)'
    BY <2>1 DEF CInv, DropInv, Unknown
  <2> QED
    BY <2>1, <2>2, SilentStep
<1> QED
  BY <1>1, SendsDrop, CancelDrop, ReadDrop, ToolsDrop, EndsDrop, ProposeDrop DEF Next, Handler

LEMMA Inductive == Spec => []CInv
<1>1. Init => CInv
  <2> SUFFICES ASSUME Init PROVE DropInv /\ ComingInv /\ HeldInv
    BY TypesInit DEF CInv
  <2>1. DropInv /\ ComingInv
    BY DEF Init, DropInv, ComingInv
  <2>2. HeldInv
    BY Zenon DEF Init, HeldInv
  <2> QED
    BY <2>1, <2>2
<1> QED
  BY <1>1, StepHolds, PTL DEF Spec

(* Every reachable state is well typed: only the workbench holds buttons   *)
(* back and queues a confirmation, and only while a stream is open         *)
(* (workbench-canvas.tsx:1341-1461).                                       *)
THEOREM ChatTypes == Spec => []TypeOK
<1>1. CInv => TypeOK
  BY Parts DEF CInv, TInv
<1> QED
  BY <1>1, Inductive, PTL

(* An edit cancelled before any request could know its token never goes    *)
(* live, however many proposals, requests and lost answers there are       *)
(* (workbench-canvas.tsx:1435-1461, ChatDrawer.tsx:175-186).               *)
THEOREM CancelHolds == Spec => CancelledStaysOut
<1>1. CInv /\ [Next]_vars => [live' # live => live' \notin dropped]_vars
  <2> SUFFICES ASSUME CInv, Next, live' # live
               PROVE  live' \notin dropped
    BY DEF vars
  <2>1. PICK r \in Requests, e \in Edits : Patch(r, e)
    BY DEF Next, Handler, SendText, Confirm, Cancel, Read, StreamClosed, LoseConnection, Rejected,
           ProposeEdit, NextTurn, Finish, Stop, ApplyEdit, Refuse, Result
  <2>2. live' = e /\ e \in sent[r]
    BY <2>1 DEF Patch
  <2> QED
    BY <2>2 DEF CInv, DropInv, Unknown
<1> QED
  BY <1>1, Inductive, PTL DEF Spec, CancelledStaysOut

-----------------------------------------------------------------------------
(* What the chat says is live *)

(* As long as no connection breaks, one handler runs at a time, the one    *)
(* the chat reads; it has tried something before an answer is on its way,  *)
(* the chat streams until it has read the last event, and that event is    *)
(* the only one of its kind.                                               *)
OneHandler ==
    /\ running \subseteq {reading}
    /\ \A r \in Requests : r \notin running \/ work[r] = 0 => sent[r] = {} /\ patched[r] = {}
    /\ status # "streaming" => running = {} /\ events = <<>>
    /\ \A i \in DOMAIN events : events[i].type \in {"error", "done"} =>
          running = {} /\ \A j \in DOMAIN events : j <= i

(* Until applications overlap, a handler has one of them under way.        *)
OneEdit ==
    \A r \in Requests :
        /\ \A e, f \in sent[r] : e = f
        /\ \A a, b \in patched[r] : a = b
        /\ sent[r] = {} \/ patched[r] = {}

Claims(i) == events[i].type = "applied"

(* The successes that a handler has not passed on yet. *)
Successes == {a \in UNION {patched[r] : r \in Requests} : a.ok = TRUE}

(* The last word about the field, told or still to be told, is live: a     *)
(* success that is not passed on, else the last claim in the stream, else  *)
(* what the chat was told.                                                 *)
LastWordIsLive ==
    /\ \A a \in Successes : a.edit = live
    /\ Successes = {} =>
          /\ \A i \in DOMAIN events :
                Claims(i) /\ (\A j \in DOMAIN events : Claims(j) => j <= i)
                    => events[i].edit = live
          /\ (\A i \in DOMAIN events : ~Claims(i)) => told = live

(* What a step can do to the stream of the one handler. *)
LEMMA NextEvent ==
  ASSUME events \in Seq(Event), NEW r \in running, running \subseteq {reading},
         NEW type, NEW e, Emit(r, type, e), [type |-> type, edit |-> e] \in Event
  PROVE  \E n \in DOMAIN events' :
            /\ n \notin DOMAIN events /\ events'[n] = [type |-> type, edit |-> e]
            /\ \A i \in DOMAIN events' : i <= n
            /\ DOMAIN events \subseteq DOMAIN events'
            /\ \A i \in DOMAIN events' : i # n => i \in DOMAIN events /\ events'[i] = events[i]
<1> DEFINE new == [type |-> type, edit |-> e]
<1> DEFINE n == Len(events)
<1>1. n \in Nat /\ DOMAIN events = 1..n
  BY LenProperties
<1>2. events' = Append(events, new)
  BY DEF Emit
<1> HIDE DEF new
<1>3. /\ DOMAIN events' = 1..(n + 1)
      /\ events'[n + 1] = new /\ \A i \in 1..n : events'[i] = events[i]
  BY <1>1, <1>2 DEF new
<1> HIDE DEF n
<1>4. /\ n + 1 \in 1..(n + 1) /\ n + 1 \notin 1..n /\ 1..n \subseteq 1..(n + 1)
      /\ \A i \in 1..(n + 1) : i <= n + 1 /\ (i # n + 1 => i \in 1..n)
  BY <1>1
<1> QED
  BY <1>1, <1>3, <1>4 DEF new

LEMMA FirstEvent ==
  ASSUME events \in Seq(Event), NEW e, Take(e)
  PROVE  /\ 1 \in DOMAIN events /\ events[1] = e
         /\ DOMAIN events \subseteq Nat \ {0}
         /\ \A i \in DOMAIN events' :
               i \in Nat \ {0} /\ i + 1 \in DOMAIN events /\ events'[i] = events[i + 1]
         /\ \A i \in DOMAIN events : i = 1 \/ i - 1 \in DOMAIN events'
         /\ events' \in Seq(Event)
         /\ DOMAIN events' = {} => events' = <<>>
<1>1. /\ events' \in Seq(Event) /\ Len(events') = Len(events) - 1
      /\ \A i \in 1..Len(events') : events'[i] = events[i + 1]
  BY HeadTailProperties DEF Take
<1>2. events[1] = e /\ Len(events) \in Nat \ {0}
  BY EmptySeq DEF Take
<1>3. DOMAIN events = 1..Len(events) /\ DOMAIN events' = 1..Len(events')
  BY <1>1, LenProperties
<1>4. Len(events') = 0 => events' = <<>>
  BY <1>1, EmptySeq
<1> QED
  BY <1>1, <1>2, <1>3, <1>4

-----------------------------------------------------------------------------
(* One handler *)

LEMMA Handling ==
  ASSUME TInv, OneHandler
  PROVE  /\ TablesOK
         /\ \A r \in Requests : sent[r] # {} \/ patched[r] # {} => r \in running
         /\ \A r \in running : r \in Requests /\ r = reading /\ status = "streaming"
         /\ \A r \in Requests \ running : sent[r] = {} /\ patched[r] = {}
         /\ running # {} => \A i \in DOMAIN events : events[i].type \notin {"error", "done"}
<1>1. TablesOK /\ MaxSends \in Nat /\ sends \in 0..MaxSends
  BY ChatOK DEF TInv, ScalarsOK, ChatOK
<1>2. running \subseteq Requests
  BY <1>1 DEF TablesOK, Requests
<1> QED
  BY <1>1, <1>2 DEF OneHandler

(* A new request starts when no other runs. *)
LEMMA OneRequest ==
  ASSUME TInv, OneHandler, NEW e, Request({}, e),
         UNCHANGED <<sent, patched, work>>, \A r \in Requests : sent[r] = {} /\ patched[r] = {}
  PROVE  OneHandler'
<1>1. /\ running' = {sends + 1} /\ reading' = sends + 1 /\ events' = <<>>
      /\ status' = "streaming"
  BY DEF Request
<1>2. DOMAIN events' = {}
  BY <1>1
<1> QED
  BY <1>1, <1>2 DEF OneHandler

LEMMA OverOne ==
  ASSUME TInv, OneHandler, NEW s, StreamOver({}, s), UNCHANGED <<sent, patched, work>>,
         \A r \in Requests : sent[r] = {} /\ patched[r] = {}
  PROVE  OneHandler'
<1>1. CASE NothingWaits
  <2>1. running' = {} /\ events' = <<>>
    BY <1>1 DEF StreamOver
  <2>2. DOMAIN events' = {}
    BY <2>1
  <2> QED
    BY <2>1, <2>2 DEF OneHandler
<1>2. CASE ~NothingWaits
  BY <1>2, OneRequest DEF StreamOver
<1> QED
  BY <1>1, <1>2

LEMMA ChatOne ==
  ASSUME TInv, OneHandler, faults' = 0,
         \/ SendText \/ Confirm \/ Cancel \/ StreamClosed \/ LoseConnection
         \/ \E s \in {"error", "needs_api_key"} : Rejected(s)
  PROVE  OneHandler'
<1>0. TInv /\ OneHandler /\ faults \in Nat
  BY ChatOK DEF TInv, ScalarsOK, ChatOK
<1>1. CASE SendText
  <2>1. running = {} /\ Request(running, None) /\ UNCHANGED <<sent, patched, work>>
    BY <1>1 DEF SendText, OneHandler
  <2> QED
    BY <2>1, Handling, OneRequest
<1>2. CASE Confirm
  <2>1. UNCHANGED <<sent, patched, work>>
    BY <1>2 DEF Confirm
  <2>2. CASE ~Drawer /\ status = "streaming"
    <3>1. UNCHANGED <<running, reading, events, status>>
      BY <1>2, <2>2 DEF Confirm
    <3> QED
      BY <2>1, <3>1 DEF OneHandler
  <2>3. CASE Drawer \/ status # "streaming"
    <3>1. status # "streaming" /\ Request(running, card)
      BY <1>2, <2>3 DEF Confirm, CanPress
    <3>2. running = {}
      BY <3>1 DEF OneHandler
    <3> QED
      BY <2>1, <3>1, <3>2, Handling, OneRequest
  <2> QED
    BY <2>2, <2>3
<1>3. CASE Cancel
  BY <1>3 DEF Cancel, server, OneHandler
<1>4. CASE StreamClosed
  <2>1. running = {} /\ StreamOver(running, status) /\ UNCHANGED <<sent, patched, work>>
    BY <1>4 DEF StreamClosed, OneHandler
  <2> QED
    BY <2>1, Handling, OverOne
<1>5. CASE LoseConnection
  BY <1>0, <1>5 DEF LoseConnection, Fault
<1>6. ASSUME NEW s \in {"error", "needs_api_key"}, Rejected(s)
      PROVE  OneHandler'
  <2>1. /\ StreamOver(running \ {reading}, s) /\ UNCHANGED <<sent, patched, work>>
        /\ reading \in running /\ work[reading] = 0
    BY <1>6 DEF Rejected
  <2>2. running \ {reading} = {} /\ StreamOver({}, s)
    <3>1. running \ {reading} = {}
      BY DEF OneHandler
    <3> QED
      BY <2>1, <3>1
  <2>3. \A r \in Requests : sent[r] = {} /\ patched[r] = {}
    BY <2>1 DEF OneHandler
  <2> QED
    BY <2>1, <2>2, <2>3, OverOne
<1> QED
  BY <1>1, <1>2, <1>3, <1>4, <1>5, <1>6

(* The running handler emits an event that is not its last. *)
LEMMA EmitsOne ==
  ASSUME TInv, OneHandler, NEW r \in running, NEW type, type \notin {"error", "done"}, NEW e,
         Emit(r, type, e), [type |-> type, edit |-> e] \in Event,
         UNCHANGED <<running, reading, status>>,
         \A x \in Requests : x \notin running \/ work'[x] = 0 => sent'[x] = {} /\ patched'[x] = {}
  PROVE  OneHandler'
<1>1. events \in Seq(Event) /\ running \subseteq {reading} /\ running # {}
  BY Handling DEF TablesOK, OneHandler
<1>2. PICK n \in DOMAIN events' :
            /\ n \notin DOMAIN events /\ events'[n] = [type |-> type, edit |-> e]
            /\ \A i \in DOMAIN events' : i <= n
            /\ DOMAIN events \subseteq DOMAIN events'
            /\ \A i \in DOMAIN events' : i # n => i \in DOMAIN events /\ events'[i] = events[i]
  BY <1>1, NextEvent
<1>3. \A i \in DOMAIN events' : events'[i].type \notin {"error", "done"}
  BY <1>1, <1>2, Handling
<1>4. status' = "streaming"
  BY Handling
<1> QED
  BY <1>1, <1>3, <1>4 DEF OneHandler

LEMMA HandlerOne ==
  ASSUME TInv, OneHandler, NEW r \in Requests, Handler(r)
  PROVE  OneHandler'
<1>0. TablesOK /\ r \in Requests
  BY DEF TInv
<1>1. CASE ProposeEdit(r)
  <2>1. /\ r \in running /\ work' = [work EXCEPT ![r] = work[r] + 1]
        /\ Emit(r, "proposed", made + 1) /\ UNCHANGED <<running, reading, status, sent, patched>>
        /\ made < MaxEdits
    BY <1>1 DEF ProposeEdit, Works, chat
  <2>2. [type |-> "proposed", edit |-> made + 1] \in Event
    BY <2>1, ChatOK DEF ChatOK, Event, TInv, ScalarsOK, Edits
  <2>3. \A x \in Requests : x \notin running \/ work'[x] = 0 => sent'[x] = {} /\ patched'[x] = {}
    <3>1. work[r] + 1 # 0
      BY <1>0, ChatOK DEF TablesOK, ChatOK
    <3> QED
      BY <1>0, <2>1, <3>1 DEF OneHandler, TablesOK
  <2> QED
    BY <2>1, <2>2, <2>3, EmitsOne
<1>2. CASE NextTurn(r)
  BY <1>2 DEF NextTurn, chat, OneHandler
<1>3. CASE Finish(r)
  <2>1. /\ r \in running /\ Outstanding(r) = {} /\ Over(r) /\ Announce(r)
        /\ UNCHANGED <<reading, status, sent>>
    BY <1>3 DEF Finish, chat
  <2>2. running' = {}
    BY <2>1, Handling DEF Over, OneHandler
  <2>3. \A x \in Requests : sent'[x] = {} /\ patched'[x] = {}
    BY <1>0, <2>1, Handling DEF Over, Outstanding, OneHandler, TablesOK
  <2>4. \A type \in {"done", "error"} : [type |-> type, edit |-> None] \in Event
    BY DEF Event
  <2>5. PICK type \in {"done", "error"} : Emit(r, type, None)
    BY <2>1 DEF Announce
  <2>6. events \in Seq(Event) /\ running \subseteq {reading}
    BY <1>0 DEF TablesOK, OneHandler
  <2>7. PICK n \in DOMAIN events' :
            /\ \A i \in DOMAIN events' : i <= n
            /\ \A i \in DOMAIN events' : i # n => i \in DOMAIN events /\ events'[i] = events[i]
    BY <2>1, <2>4, <2>5, <2>6, NextEvent
  <2>8. \A i \in DOMAIN events' : events'[i].type \in {"error", "done"} => i = n
    BY <2>1, <2>7, Handling
  <2>9. status' = "streaming"
    BY <2>1, Handling
  <2> QED
    BY <2>2, <2>3, <2>7, <2>8, <2>9 DEF OneHandler
<1>4. CASE Stop(r)
  BY <1>4 DEF Stop, OneHandler
<1>5. ASSUME NEW e \in Edits, ApplyEdit(r, e)
      PROVE  OneHandler'
  <2>1. /\ r \in running /\ work' = [work EXCEPT ![r] = work[r] + 1]
        /\ sent' = [sent EXCEPT ![r] = sent[r] \cup {e}]
        /\ UNCHANGED <<running, reading, status, events, patched>>
    BY <1>5 DEF ApplyEdit, Works, chat
  <2>2. work[r] + 1 # 0
    BY <1>0, ChatOK DEF TablesOK, ChatOK
  <2> QED
    BY <1>0, <2>1, <2>2 DEF OneHandler, TablesOK
<1>6. ASSUME NEW e \in Edits, Patch(r, e) \/ Refuse(r, e)
      PROVE  OneHandler'
  <2>1. e \in sent[r] /\ UNCHANGED <<running, reading, status, events, work>>
    BY <1>6 DEF Patch, Refuse, chat
  <2>2. r \in running /\ work[r] # 0
    BY <2>1 DEF OneHandler
  <2>3. \A x \in Requests \ {r} : sent'[x] = sent[x] /\ patched'[x] = patched[x]
    BY <1>0, <1>6 DEF Patch, Refuse, Answered, TablesOK
  <2> QED
    BY <2>1, <2>2, <2>3 DEF OneHandler
<1>7. ASSUME NEW a \in patched[r], Result(r, a)
      PROVE  OneHandler'
  <2>1. /\ r \in running /\ patched' = [patched EXCEPT ![r] = patched[r] \ {a}]
        /\ UNCHANGED <<running, reading, status, work, sent>>
    BY <1>7 DEF Result, chat
  <2>2. PICK type \in {"applied", "failed"} : Emit(r, type, a.edit)
    BY <1>7, Zenon DEF Result
  <2>3. [type |-> type, edit |-> a.edit] \in Event
    BY <1>0 DEF Event, TablesOK
  <2>4. \A x \in Requests : x \notin running \/ work'[x] = 0 => sent'[x] = {} /\ patched'[x] = {}
    BY <1>0, <2>1 DEF OneHandler, TablesOK
  <2> QED
    BY <2>1, <2>2, <2>3, <2>4, EmitsOne
<1> QED
  BY <1>1, <1>2, <1>3, <1>4, <1>5, <1>6, <1>7 DEF Handler

LEMMA ReadOne ==
  ASSUME TInv, OneHandler, Read
  PROVE  OneHandler'
<1>1. UNCHANGED <<reading, running, sent, patched, work>>
  BY DEF Read, server
<1>2. ASSUME NEW event, Take(event), status' = status
      PROVE  OneHandler'
  <2>1. status = "streaming"
    BY <1>2 DEF Take, OneHandler
  <2>2. events \in Seq(Event)
    BY DEF TInv, TablesOK
  <2>3. /\ DOMAIN events \subseteq Nat \ {0}
        /\ \A i \in DOMAIN events' :
              i \in Nat \ {0} /\ i + 1 \in DOMAIN events /\ events'[i] = events[i + 1]
    BY <1>2, <2>2, FirstEvent
  <2>4. \A i \in DOMAIN events' : events'[i].type \in {"error", "done"} =>
           running = {} /\ \A j \in DOMAIN events' : j <= i
    BY <2>3 DEF OneHandler
  <2> QED
    BY <1>1, <1>2, <2>1, <2>4 DEF OneHandler
<1>3. ASSUME NEW type \in {"error", "done"}, NEW s, Ended(type, s)
      PROVE  OneHandler'
  <2>1. Take([type |-> type, edit |-> None])
    BY <1>3 DEF Ended
  <2>2. events \in Seq(Event)
    BY DEF TInv, TablesOK
  <2>3. /\ 1 \in DOMAIN events /\ events[1] = [type |-> type, edit |-> None]
        /\ DOMAIN events \subseteq Nat \ {0}
        /\ \A i \in DOMAIN events' : i \in Nat \ {0} /\ i + 1 \in DOMAIN events
        /\ DOMAIN events' = {} => events' = <<>>
    BY <2>1, <2>2, FirstEvent
  <2>4. running = {} /\ \A j \in DOMAIN events : j <= 1
    BY <2>3 DEF OneHandler
  <2>5. events' = <<>> /\ DOMAIN events' = {}
    BY <2>3, <2>4
  <2> QED
    BY <1>1, <2>4, <2>5 DEF OneHandler
<1> QED
  BY <1>2, <1>3 DEF Read, Proposed, Applied, Failed

-----------------------------------------------------------------------------
(* One application of each handler *)

LEMMA EditFrame ==
  ASSUME OneEdit, UNCHANGED <<sent, patched>>
  PROVE  OneEdit'
  BY DEF OneEdit

LEMMA EditOne ==
  ASSUME TablesOK, OneEdit, Next, overlapped' = FALSE
  PROVE  OneEdit'
<1>0. CASE \/ SendText \/ Confirm \/ Cancel \/ Read \/ StreamClosed \/ LoseConnection
           \/ \E s \in {"error", "needs_api_key"} : Rejected(s)
  BY <1>0, EditFrame DEF SendText, Confirm, Cancel, Read, StreamClosed, LoseConnection, Rejected,
                         server
<1>1. SUFFICES ASSUME NEW r \in Requests, Handler(r)
               PROVE  OneEdit'
  BY <1>0 DEF Next
<1>2. CASE ProposeEdit(r) \/ NextTurn(r)
  BY <1>2, EditFrame DEF ProposeEdit, NextTurn
<1>3. CASE Finish(r) \/ Stop(r)
  <2>1. sent' = sent /\ patched' = [patched EXCEPT ![r] = {}]
    BY <1>3 DEF Finish, Stop, Over
  <2> QED
    BY <2>1 DEF OneEdit, TablesOK
<1>4. ASSUME NEW e \in Edits, ApplyEdit(r, e)
      PROVE  OneEdit'
  <2>1. Outstanding(r) = {}
    BY <1>4, Zenon DEF ApplyEdit
  <2>2. sent[r] = {} /\ patched[r] = {}
    BY <2>1 DEF Outstanding
  <2>3. sent' = [sent EXCEPT ![r] = sent[r] \cup {e}] /\ patched' = patched
    BY <1>4 DEF ApplyEdit
  <2> QED
    BY <2>2, <2>3 DEF OneEdit, TablesOK
<1>5. ASSUME NEW e \in Edits, Patch(r, e) \/ Refuse(r, e)
      PROVE  OneEdit'
  <2>1. PICK ok : e \in sent[r] /\ Answered(r, e, ok)
    BY <1>5, Zenon DEF Patch, Refuse
  <2> DEFINE answer == [edit |-> e, ok |-> ok]
  <2>2. /\ sent' = [sent EXCEPT ![r] = sent[r] \ {e}]
        /\ \/ patched' = [patched EXCEPT ![r] = patched[r] \cup {answer}]
           \/ patched' = [patched EXCEPT ![r] = patched[r]]
    BY <2>1 DEF Answered
  <2> HIDE DEF answer
  <2>3. sent[r] \ {e} = {} /\ patched[r] = {}
    BY <2>1 DEF OneEdit
  <2>4. /\ sent'[r] = {} /\ patched'[r] \subseteq {answer}
        /\ \A x \in Requests : x # r => sent'[x] = sent[x] /\ patched'[x] = patched[x]
    BY <2>2, <2>3 DEF TablesOK
  <2> QED
    BY <2>4 DEF OneEdit
<1>6. ASSUME NEW a \in patched[r], Result(r, a)
      PROVE  OneEdit'
  <2>1. sent' = sent /\ patched' = [patched EXCEPT ![r] = patched[r] \ {a}]
    BY <1>6 DEF Result
  <2> QED
    BY <2>1 DEF OneEdit, TablesOK
<1> QED
  BY <1>1, <1>2, <1>3, <1>4, <1>5, <1>6 DEF Handler

-----------------------------------------------------------------------------
(* The last word *)

LEMMA WordFrame ==
  ASSUME LastWordIsLive, UNCHANGED <<events, live, told>>, Successes' = Successes
  PROVE  LastWordIsLive'
  BY DEF LastWordIsLive, Claims

LEMMA SameSuccesses ==
  ASSUME patched' = patched
  PROVE  Successes' = Successes
  BY DEF Successes

(* No event that makes no claim changes the last word. *)
LEMMA EmitsWord ==
  ASSUME TInv, OneHandler, LastWordIsLive, NEW r \in running, NEW type, type # "applied", NEW e,
         Emit(r, type, e), [type |-> type, edit |-> e] \in Event,
         UNCHANGED <<live, told>>, Successes' = Successes
  PROVE  LastWordIsLive'
<1>1. events \in Seq(Event) /\ running \subseteq {reading}
  BY DEF TInv, TablesOK, OneHandler
<1>2. PICK n \in DOMAIN events' :
            /\ n \notin DOMAIN events /\ events'[n] = [type |-> type, edit |-> e]
            /\ \A i \in DOMAIN events' : i <= n
            /\ DOMAIN events \subseteq DOMAIN events'
            /\ \A i \in DOMAIN events' : i # n => i \in DOMAIN events /\ events'[i] = events[i]
  BY <1>1, NextEvent
<1>3. \A i \in DOMAIN events' : events'[i].type = "applied" =>
         i \in DOMAIN events /\ events'[i] = events[i]
  BY <1>2
<1>4. \A i \in DOMAIN events : i \in DOMAIN events' /\ events'[i] = events[i]
  BY <1>2
<1> QED
  BY <1>3, <1>4 DEF LastWordIsLive, Claims

(* What the one handler has heard is all there is. *)
LEMMA AllSuccesses ==
  ASSUME TInv, OneHandler, NEW r \in running
  PROVE  /\ r \in Requests
         /\ Successes = {a \in patched[r] : a.ok = TRUE}
         /\ \A x \in Requests : x # r => patched[x] = {}
<1>1. r \in Requests /\ \A x \in Requests : x # r => patched[x] = {}
  BY Handling
<1> QED
  BY <1>1 DEF Successes

LEMMA ChatWord ==
  ASSUME TInv, OneHandler, LastWordIsLive, faults' = 0,
         \/ SendText \/ Confirm \/ Cancel \/ StreamClosed \/ LoseConnection
         \/ \E s \in {"error", "needs_api_key"} : Rejected(s)
  PROVE  LastWordIsLive'
<1>0. faults \in Nat
  BY ChatOK DEF TInv, ScalarsOK, ChatOK
<1>1. patched' = patched /\ live' = live /\ told' = told
  BY DEF SendText, Confirm, Cancel, StreamClosed, LoseConnection, Rejected, server
<1>2. events' = events
  <2>1. ASSUME NEW left, NEW s, StreamOver(left, s)
        PROVE  events' = <<>>
    BY <2>1 DEF StreamOver, Request
  <2>2. CASE SendText
    BY <2>2 DEF SendText, Request, OneHandler
  <2>3. CASE Confirm
    <3>1. CASE ~Drawer /\ status = "streaming"
      BY <2>3, <3>1 DEF Confirm
    <3>2. CASE Drawer \/ status # "streaming"
      <4>1. status # "streaming" /\ Request(running, card)
        BY <2>3, <3>2 DEF Confirm, CanPress
      <4> QED
        BY <4>1 DEF Request, OneHandler
    <3> QED
      BY <3>1, <3>2
  <2>4. CASE Cancel
    BY <2>4 DEF Cancel
  <2>5. CASE StreamClosed
    BY <2>1, <2>5 DEF StreamClosed
  <2>6. CASE LoseConnection
    BY <1>0, <2>6 DEF LoseConnection, Fault
  <2>7. CASE \E s \in {"error", "needs_api_key"} : Rejected(s)
    BY <2>1, <2>7 DEF Rejected
  <2> QED
    BY <2>2, <2>3, <2>4, <2>5, <2>6, <2>7
<1> QED
  BY <1>1, <1>2, SameSuccesses, WordFrame

LEMMA HandlerWord ==
  ASSUME TInv, OneHandler, OneEdit, LastWordIsLive, faults' = 0, NEW r \in Requests, Handler(r)
  PROVE  LastWordIsLive'
<1>0. TablesOK /\ faults \in Nat
  BY ChatOK DEF TInv, ScalarsOK, ChatOK
<1>1. CASE ProposeEdit(r)
  <2>1. /\ r \in running /\ Emit(r, "proposed", made + 1) /\ UNCHANGED <<patched, live, told>>
        /\ made < MaxEdits
    BY <1>1 DEF ProposeEdit, Works, chat
  <2>2. [type |-> "proposed", edit |-> made + 1] \in Event
    BY <2>1, ChatOK DEF ChatOK, Event, TInv, ScalarsOK, Edits
  <2> QED
    BY <2>1, <2>2, SameSuccesses, EmitsWord
<1>2. CASE NextTurn(r)
  BY <1>2, SameSuccesses, WordFrame DEF NextTurn, chat
<1>3. CASE Finish(r)
  <2>1. /\ r \in running /\ Outstanding(r) = {} /\ UNCHANGED <<live, told>>
        /\ patched' = [patched EXCEPT ![r] = {}]
    BY <1>3 DEF Finish, Over, chat
  <2>2. patched[r] = {}
    BY <2>1 DEF Outstanding
  <2>3. patched' = patched
    BY <1>0, <2>1, <2>2 DEF TablesOK
  <2>4. PICK type \in {"done", "error"} : Emit(r, type, None)
    BY <1>3 DEF Finish, Announce
  <2>5. [type |-> type, edit |-> None] \in Event
    BY DEF Event
  <2> QED
    BY <2>1, <2>3, <2>4, <2>5, SameSuccesses, EmitsWord
<1>4. CASE Stop(r)
  BY <1>4 DEF Stop, OneHandler
<1>5. ASSUME NEW e \in Edits, ApplyEdit(r, e)
      PROVE  LastWordIsLive'
  BY <1>5, SameSuccesses, WordFrame DEF ApplyEdit, chat
<1>6. ASSUME NEW e \in Edits, Patch(r, e) \/ Refuse(r, e)
      PROVE  LastWordIsLive'
  <2>1. e \in sent[r] /\ UNCHANGED <<told, events, running>>
    BY <1>6 DEF Patch, Refuse, chat
  <2>2. r \in running /\ patched[r] = {}
    BY <2>1, Handling DEF OneEdit
  <2>3. Successes = {}
    BY <2>2, AllSuccesses
  <2>4. \A x \in Requests : x # r => patched[x] = {}
    BY <2>2, AllSuccesses
  <2>5. ASSUME NEW ok, Answered(r, e, ok)
        PROVE  /\ \A a \in Successes' : a.edit = e /\ ok = TRUE
               /\ ok = TRUE => Successes' # {}
    <3> DEFINE answer == [edit |-> e, ok |-> ok]
    <3>1. patched' = [patched EXCEPT ![r] = patched[r] \cup {answer}]
      BY <2>2, <2>5 DEF Answered
    <3> HIDE DEF answer
    <3>2. patched'[r] = {answer} /\ \A x \in Requests : x # r => patched'[x] = {}
      BY <1>0, <2>2, <2>4, <3>1 DEF TablesOK
    <3>3. UNION {patched'[x] : x \in Requests} = {answer}
      BY <3>2
    <3> QED
      <4>1. answer.edit = e /\ answer.ok = ok
        BY Zenon DEF answer
      <4>2. Successes' = {a \in {answer} : a.ok = TRUE}
        BY <3>3 DEF Successes
      <4> QED
        BY <4>1, <4>2, Zenon
  <2>6. CASE Refuse(r, e)
    <3>1. live' = live /\ Answered(r, e, FALSE)
      BY <2>6 DEF Refuse
    <3>2. Successes' = {}
      <4>1. FALSE # TRUE
        OBVIOUS
      <4> QED
        BY <2>5, <3>1, <4>1, Zenon
    <3> QED
      BY <2>1, <2>3, <3>1, <3>2, WordFrame
  <2>7. CASE Patch(r, e)
    <3>1. live' = e
      BY <2>7 DEF Patch
    <3>2. PICK ok : ok = (live # e) /\ Answered(r, e, ok)
      <4>1. ~Fault
        BY <1>0 DEF Fault
      <4> QED
        BY <2>7, <4>1, Zenon DEF Patch
    <3>3. CASE live = e
      <4>1. ok = FALSE
        BY <3>2, <3>3, Zenon
      <4>2. Successes' = {}
        <5>1. FALSE # TRUE
          OBVIOUS
        <5> QED
          BY <2>5, <3>2, <4>1, <5>1, Zenon
      <4> QED
        BY <2>1, <2>3, <3>1, <3>3, <4>2, WordFrame
    <3>4. CASE live # e
      <4>1. ok = TRUE
        BY <3>2, <3>4, Zenon
      <4>2. Successes' # {} /\ \A a \in Successes' : a.edit = e
        BY <2>5, <3>2, <4>1, Zenon
      <4> QED
        BY <3>1, <4>2 DEF LastWordIsLive
    <3> QED
      BY <3>3, <3>4
  <2> QED
    BY <1>6, <2>6, <2>7
<1>7. ASSUME NEW a \in patched[r], Result(r, a)
      PROVE  LastWordIsLive'
  <2>1. /\ r \in running /\ UNCHANGED <<live, told>>
        /\ patched' = [patched EXCEPT ![r] = patched[r] \ {a}]
    BY <1>7 DEF Result, chat
  <2>2. patched[r] \ {a} = {}
    BY DEF OneEdit
  <2>3. patched'[r] = {} /\ \A x \in Requests : x # r => patched'[x] = {}
    BY <1>0, <2>1, <2>2, AllSuccesses DEF TablesOK
  <2>4. Successes' = {}
    BY <2>3 DEF Successes
  <2>5. a.edit \in Edits /\ a.ok \in BOOLEAN
    BY <1>0 DEF TablesOK
  <2>6. CASE a.ok = TRUE
    <3>1. Emit(r, "applied", a.edit)
      BY <1>7, <2>6, Zenon DEF Result
    <3>2. a \in Successes
      BY <2>1, <2>6, AllSuccesses
    <3>3. a.edit = live
      BY <3>2 DEF LastWordIsLive
    <3>4. [type |-> "applied", edit |-> a.edit] \in Event
      BY <2>5 DEF Event
    <3>5. PICK n \in DOMAIN events' :
            /\ events'[n] = [type |-> "applied", edit |-> a.edit]
            /\ \A i \in DOMAIN events' : i <= n
            /\ \A i \in DOMAIN events' : i # n => i \in DOMAIN events /\ events'[i] = events[i]
      <4>1. events \in Seq(Event) /\ running \subseteq {reading}
        BY <1>0 DEF TablesOK, OneHandler
      <4> QED
        BY <2>1, <3>1, <3>4, <4>1, NextEvent
    <3>6. events'[n].type = "applied" /\ events'[n].edit = live
      BY <3>3, <3>5
    <3>7. DOMAIN events' \subseteq Nat
      <4>1. events' \in Seq(Event)
        BY <1>0, <3>1, <3>4, EmittedEvents DEF TablesOK
      <4> QED
        BY <4>1, LenProperties
    <3>8. \A i \in DOMAIN events' : n <= i => i = n
      BY <3>5, <3>7
    <3> QED
      BY <2>1, <2>4, <3>6, <3>8 DEF LastWordIsLive, Claims
  <2>7. CASE a.ok = FALSE
    <3>1. Emit(r, "failed", a.edit)
      BY <1>7, <2>7, Zenon DEF Result
    <3>2. Successes = {}
      BY <2>1, <2>2, <2>7, AllSuccesses
    <3>3. [type |-> "failed", edit |-> a.edit] \in Event
      BY <2>5 DEF Event
    <3> QED
      BY <2>1, <2>4, <3>1, <3>2, <3>3, EmitsWord
  <2> QED
    BY <2>5, <2>6, <2>7
<1> QED
  BY <1>1, <1>2, <1>3, <1>4, <1>5, <1>6, <1>7 DEF Handler

(* A claim that is read is what the chat says; the last one stays the last.*)
LEMMA ReadWord ==
  ASSUME TInv, LastWordIsLive, Read
  PROVE  LastWordIsLive'
<1>1. patched' = patched /\ live' = live
  BY DEF Read, server
<1>2. Successes' = Successes
  BY <1>1, SameSuccesses
<1>3. events \in Seq(Event)
  BY DEF TInv, TablesOK
<1>4. ASSUME NEW event, Take(event), event.type # "applied", told' = told
      PROVE  LastWordIsLive'
  <2>1. /\ 1 \in DOMAIN events /\ events[1] = event
        /\ DOMAIN events \subseteq Nat \ {0}
        /\ \A i \in DOMAIN events' :
              i \in Nat \ {0} /\ i + 1 \in DOMAIN events /\ events'[i] = events[i + 1]
        /\ \A i \in DOMAIN events : i = 1 \/ i - 1 \in DOMAIN events'
    BY <1>3, <1>4, FirstEvent
  <2>2. \A i \in DOMAIN events : Claims(i) => i - 1 \in DOMAIN events' /\ Claims(i - 1)'
    BY <1>4, <2>1 DEF Claims
  <2>3. \A i \in DOMAIN events' : Claims(i)' => Claims(i + 1)
    BY <2>1 DEF Claims
  <2>4. ASSUME NEW i \in DOMAIN events', Claims(i)', Successes = {},
               \A j \in DOMAIN events' : Claims(j)' => j <= i
        PROVE  events'[i].edit = live
    <3>1. \A j \in DOMAIN events : Claims(j) => j <= i + 1
      BY <2>1, <2>2, <2>4
    <3>2. i + 1 \in DOMAIN events /\ Claims(i + 1) /\ events'[i] = events[i + 1]
      BY <2>1, <2>3, <2>4
    <3> QED
      BY <2>4, <3>1, <3>2 DEF LastWordIsLive
  <2>5. ASSUME \A i \in DOMAIN events' : ~Claims(i)', Successes = {}
        PROVE  told = live
    <3>1. \A i \in DOMAIN events : ~Claims(i)
      BY <2>2, <2>5
    <3> QED
      BY <2>5, <3>1 DEF LastWordIsLive
  <2>6. \A a \in Successes' : a.edit = live'
    BY <1>1, <1>2 DEF LastWordIsLive
  <2> QED
    BY <1>1, <1>2, <1>4, <2>4, <2>5, <2>6 DEF LastWordIsLive
<1>5. ASSUME NEW e \in Edits, Applied(e)
      PROVE  LastWordIsLive'
  <2> DEFINE event == [type |-> "applied", edit |-> e]
  <2>1. Take(event) /\ told' = e
    BY <1>5 DEF Applied
  <2>2. event.type = "applied" /\ event.edit = e
    OBVIOUS
  <2> HIDE DEF event
  <2>3. /\ 1 \in DOMAIN events /\ events[1] = event
        /\ DOMAIN events \subseteq Nat \ {0}
        /\ \A i \in DOMAIN events' :
              i \in Nat \ {0} /\ i + 1 \in DOMAIN events /\ events'[i] = events[i + 1]
        /\ \A i \in DOMAIN events : i = 1 \/ i - 1 \in DOMAIN events'
    BY <1>3, <2>1, FirstEvent
  <2>4. ASSUME NEW i \in DOMAIN events', Claims(i)', Successes = {},
               \A j \in DOMAIN events' : Claims(j)' => j <= i
        PROVE  events'[i].edit = live
    <3>1. ASSUME NEW j \in DOMAIN events, Claims(j)
          PROVE  j <= i + 1
      <4>1. CASE j = 1
        BY <2>3, <4>1
      <4>2. CASE j # 1
        <5>1. j - 1 \in DOMAIN events' /\ j \in Nat /\ j - 1 + 1 = j
          BY <2>3, <4>2
        <5>2. events'[j - 1] = events[j]
          BY <2>3, <5>1
        <5>3. Claims(j - 1)'
          BY <3>1, <5>2 DEF Claims
        <5> QED
          BY <2>3, <2>4, <5>1, <5>3
      <4> QED
        BY <4>1, <4>2
    <3>2. i + 1 \in DOMAIN events /\ Claims(i + 1) /\ events'[i] = events[i + 1]
      BY <2>3, <2>4 DEF Claims
    <3> QED
      BY <2>4, <3>1, <3>2 DEF LastWordIsLive
  <2>5. ASSUME \A i \in DOMAIN events' : ~Claims(i)', Successes = {}
        PROVE  told' = live
    <3>1. \A j \in DOMAIN events : Claims(j) => j <= 1
      <4>1. SUFFICES ASSUME NEW j \in DOMAIN events, Claims(j), j # 1
                     PROVE  FALSE
        BY <2>3
      <4>2. j - 1 \in DOMAIN events' /\ j \in Nat /\ j - 1 + 1 = j
        BY <2>3, <4>1
      <4>3. events'[j - 1] = events[j]
        BY <2>3, <4>2
      <4> QED
        BY <2>5, <4>1, <4>2, <4>3 DEF Claims
    <3>2. Claims(1) /\ events[1].edit = e
      BY <2>2, <2>3 DEF Claims
    <3> QED
      BY <2>1, <2>3, <2>5, <3>1, <3>2 DEF LastWordIsLive
  <2>6. \A a \in Successes' : a.edit = live'
    BY <1>1, <1>2 DEF LastWordIsLive
  <2> QED
    BY <1>1, <1>2, <2>4, <2>5, <2>6 DEF LastWordIsLive
<1>6. ASSUME NEW e \in Edits, Proposed(e) \/ Failed(e)
      PROVE  LastWordIsLive'
  <2>1. PICK type \in {"proposed", "failed"} : Take([type |-> type, edit |-> e]) /\ told' = told
    BY <1>6, Zenon DEF Proposed, Failed
  <2>2. [type |-> type, edit |-> e].type # "applied"
    OBVIOUS
  <2> QED
    BY <1>4, <2>1, <2>2
<1>7. ASSUME NEW type \in {"done", "error"}, NEW s, Ended(type, s)
      PROVE  LastWordIsLive'
  <2>1. Take([type |-> type, edit |-> None]) /\ told' = told
    BY <1>7 DEF Ended
  <2>2. [type |-> type, edit |-> None].type # "applied"
    OBVIOUS
  <2> QED
    BY <1>4, <2>1, <2>2
<1> QED
  BY <1>5, <1>6, <1>7 DEF Read

-----------------------------------------------------------------------------

WordInv ==
    /\ TInv
    /\ faults = 0 => OneHandler
    /\ ~overlapped => OneEdit
    /\ faults = 0 /\ ~overlapped => LastWordIsLive

(* Neither history is undone. *)
LEMMA Lasting ==
  ASSUME TInv, [Next]_vars
  PROVE  (faults' = 0 => faults = 0) /\ (~overlapped' => ~overlapped)
<1>1. faults \in Nat
  BY ChatOK DEF TInv, ScalarsOK, ChatOK
<1>2. faults' = faults \/ Fault
  BY Zenon DEF Next, Handler, SendText, Confirm, Cancel, Read, StreamClosed, LoseConnection, Rejected,
     ProposeEdit, NextTurn, Finish, Stop, ApplyEdit, Patch, Refuse, Result, vars
<1>3. faults' = 0 => faults = 0
  BY <1>1, <1>2 DEF Fault
<1>4. ~overlapped' => ~overlapped
  BY Zenon DEF Next, Handler, SendText, Confirm, Cancel, Read, StreamClosed, LoseConnection, Rejected,
     ProposeEdit, NextTurn, Finish, Stop, ApplyEdit, Patch, Refuse, Result, vars
<1> QED
  BY <1>3, <1>4

LEMMA WordStep == WordInv /\ [Next]_vars => WordInv'
<1> SUFFICES ASSUME WordInv, [Next]_vars PROVE WordInv'
  OBVIOUS
<1>1. TInv /\ TInv' /\ TablesOK
  BY TypesHold DEF WordInv, TInv
<1>2. ASSUME faults' = 0
      PROVE  OneHandler /\ OneHandler'
  <2>1. OneHandler
    BY <1>1, <1>2, Lasting DEF WordInv
  <2>2. CASE UNCHANGED vars
    BY <2>1, <2>2 DEF vars, chat, server, OneHandler
  <2> QED
    BY <1>1, <1>2, <2>1, <2>2, ChatOne, HandlerOne, ReadOne DEF Next
<1>3. ASSUME ~overlapped'
      PROVE  OneEdit /\ OneEdit'
  <2>1. OneEdit
    BY <1>1, <1>3, Lasting, Zenon DEF WordInv
  <2>2. CASE UNCHANGED vars
    BY <2>1, <2>2, EditFrame DEF vars, server
  <2>3. overlapped' = FALSE
    BY <1>1, <1>3, Zenon DEF TInv, FlagsOK
  <2> QED
    BY <1>1, <2>1, <2>2, <2>3, EditOne
<1>4. ASSUME faults' = 0, ~overlapped'
      PROVE  LastWordIsLive'
  <2>1. LastWordIsLive
    BY <1>1, <1>4, Lasting, Zenon DEF WordInv
  <2>2. CASE UNCHANGED vars
    BY <2>1, <2>2, SameSuccesses, WordFrame DEF vars, chat, server
  <2>3. OneHandler /\ OneEdit
    BY <1>2, <1>3, <1>4
  <2> QED
    BY <1>1, <1>4, <2>1, <2>2, <2>3, ChatWord, HandlerWord, ReadWord DEF Next
<1> QED
  BY <1>1, <1>2, <1>3, <1>4, Zenon DEF WordInv

(* Told or still to be told, the last word about the field is live: what   *)
(* the chat says once nothing is on its way is true, unless an answer was  *)
(* lost or two applications overlapped (route.ts:240-262,                  *)
(* use-agent-chat.ts:216-285).                                             *)
THEOREM SaysHolds == Spec => []SaysWhatIsLive
<1>1. Init => WordInv
  <2> SUFFICES ASSUME Init PROVE OneHandler /\ OneEdit /\ LastWordIsLive
    BY TypesInit DEF WordInv
  <2>1. /\ running = {} /\ events = <<>> /\ live = told /\ DOMAIN events = {}
        /\ \A r \in Requests : sent[r] = {} /\ patched[r] = {}
    BY DEF Init
  <2>2. Successes = {}
    BY <2>1 DEF Successes
  <2> QED
    BY <2>1, <2>2 DEF OneHandler, OneEdit, LastWordIsLive
<1>2. WordInv => SaysWhatIsLive
  <2> SUFFICES ASSUME WordInv, faults = 0, ~overlapped, Quiet
               PROVE  told = live
    BY DEF SaysWhatIsLive
  <2>1. LastWordIsLive
    BY Zenon DEF WordInv
  <2>2. Successes = {} /\ DOMAIN events = {}
    BY DEF Quiet, Successes
  <2> QED
    BY <2>1, <2>2 DEF LastWordIsLive
<1> QED
  BY <1>1, <1>2, WordStep, PTL DEF Spec
=============================================================================
