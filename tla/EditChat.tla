------------------------------ MODULE EditChat ------------------------------
(***************************************************************************)
(* A record field, one chat that edits it, and the requests the chat has   *)
(* sent.  The agent proposes an edit and gets a token, the chat shows it   *)
(* on a card, the user confirms, and the confirmation is a message that    *)
(* carries the token to the next request, whose agent applies it.          *)
(*                                                                         *)
(* There are two such chats: the drawer on a record page and the agent     *)
(* panel of the workbench.  They share the tools and differ in most else.  *)
(*                                                                         *)
(* An edit is its token; applied, it makes the field its own value.        *)
(***************************************************************************)
EXTENDS Naturals, Sequences

CONSTANTS
    Surfaces,   \* the chats to look at
    MaxEdits,   \* bound: proposals
    MaxSends,   \* bound: requests
    MaxWork,    \* bound: proposals and applications of a request
    MaxFaults   \* bound: connections and answers that are lost

Edits == 1..MaxEdits
Requests == 1..MaxSends
None == 0       \* no edit, no request

ASSUME ChatOK ==
    /\ Surfaces \subseteq {"drawer", "workbench"}
    /\ MaxEdits \in Nat /\ MaxSends \in Nat /\ MaxWork \in Nat
    /\ MaxFaults \in Nat

VARIABLES
    surface,    \* which chat this is
    card,       \* pendingConfirmation, pendingDataEdit
    held,       \* pendingDataEditBusy
    status,     \* status of the drawer; isStreaming of the workbench
    queued,     \* queuedConfirmMessageRef
    reading,    \* the request whose stream the chat reads
    events,     \* what the stream holds
    running,    \* requests whose handler runs
    knows,      \* the tokens the model of each request has been given
    minted,     \* and those of its current turn, which it has not
    sent,       \* applications on their way to the API
    patched,    \* and those it has answered
    work,       \* tool calls so far
    live,       \* the field
    made, sends,
    heard,      \* tokens in the messages the user sent
    told,       \* history: the last edit the chat called live
    dropped,    \* history: edits cancelled when no request could know them
    faults,     \* connections and answers lost so far
    overlapped  \* history: a handler had two applications under way

chat == <<card, held, status, queued, reading, told>>
server == <<running, knows, minted, sent, patched, work>>
vars == <<surface, chat, server, events, live, made, sends, heard, dropped, faults, overlapped>>

Event == [type: {"proposed", "applied", "failed"}, edit: Edits]
    \cup [type: {"error", "done"}, edit: {None}]

Drawer == surface = "drawer"

Outstanding(r) == sent[r] \cup {a.edit : a \in patched[r]}

-----------------------------------------------------------------------------
(* Requests *)

(* seeded fault: the conversation holds the results of the tools *)
HistoryWithResults == 1..made

(* The workbench sends the conversation: the messages of the user, with    *)
(* every token in them, but not the results of the tools.                  *)
History == IF Drawer THEN {} ELSE heard

Carried(e) == {e} \ {None}

(* sendMessage, with the token of e if it confirms e; left: the handlers   *)
(* that still run                                                          *)
Request(left, e) ==
    LET r == sends + 1 IN
    /\ sends' = r
    /\ running' = left \cup {r}
    /\ knows' = [knows EXCEPT ![r] = History \cup Carried(e)]
    /\ heard' = heard \cup Carried(e)
    /\ reading' = r
    /\ events' = <<>>
    /\ status' = "streaming"

(* Room for a request under the bound, and for the one that is queued. *)
Room == sends + (IF queued = None THEN 0 ELSE 1) < MaxSends

(* seeded fault: nothing dispatches what is queued *)
Forgets == TRUE

NothingWaits == Drawer \/ queued = None

(* The stream of the chat is over.  The workbench unlocks and sends the    *)
(* confirmation that waits.                                                *)
StreamOver(left, s) ==
    IF NothingWaits
    THEN /\ reading' = None
         /\ status' = IF Drawer THEN s ELSE "idle"
         /\ events' = <<>>
         /\ running' = left
         /\ UNCHANGED <<sends, knows, heard, queued>>
    ELSE Request(left, queued) /\ queued' = None

(* 401, 429, 5xx: no stream *)
Rejected(s) ==
    /\ reading \in running
    /\ events = <<>> /\ work[reading] = 0
    /\ StreamOver(running \ {reading}, s)
    /\ UNCHANGED <<surface, card, held, told, minted, sent, patched, work, live, made,
                   dropped, faults, overlapped>>

Fault == faults < MaxFaults /\ faults' = faults + 1

LoseConnection ==
    /\ reading # None
    /\ Fault
    /\ StreamOver(running, "error")
    /\ UNCHANGED <<surface, card, held, told, minted, sent, patched, work, live, made,
                   dropped, overlapped>>

(* The handler has closed the stream and the chat has read all of it. *)
StreamClosed ==
    /\ reading # None
    /\ reading \notin running
    /\ events = <<>>
    /\ StreamOver(running, status)
    /\ UNCHANGED <<surface, card, held, told, minted, sent, patched, work, live, made,
                   dropped, faults, overlapped>>

-----------------------------------------------------------------------------
(* The handler of a request and its tools *)

Emit(r, type, e) ==
    events' = IF r = reading THEN Append(events, [type |-> type, edit |-> e]) ELSE events

(* The drawer runs its tools one after the other. *)
ToolMayStart(r) == Drawer => Outstanding(r) = {}

Works(r) ==
    /\ r \in running
    /\ work[r] < MaxWork
    /\ ToolMayStart(r)
    /\ work' = [work EXCEPT ![r] = @ + 1]

ProposeEdit(r) ==
    /\ Works(r)
    /\ made < MaxEdits
    /\ made' = made + 1
    /\ minted' = [minted EXCEPT ![r] = @ \cup {made + 1}]
    /\ Emit(r, "proposed", made + 1)
    /\ UNCHANGED <<surface, chat, running, knows, sent, patched, live, sends, heard, dropped, faults, overlapped>>

(* executeApplyEdit: the token is good, the PATCH leaves *)
ApplyEdit(r, e) ==
    /\ e \in knows[r] \ Outstanding(r)
    /\ Works(r)
    /\ sent' = [sent EXCEPT ![r] = @ \cup {e}]
    /\ overlapped' = (overlapped \/ Outstanding(r) # {})
    /\ UNCHANGED <<surface, chat, events, running, knows, minted, patched, live, made, sends, heard,
                   dropped, faults>>

(* The handler hears of e, if it still runs. *)
Answered(r, e, ok) ==
    /\ sent' = [sent EXCEPT ![r] = @ \ {e}]
    /\ patched' = [patched EXCEPT ![r] = IF r \in running THEN @ \cup {[edit |-> e, ok |-> ok]} ELSE @]

(* The write route: a value that is there already makes no mutation. *)
Patch(r, e) ==
    /\ e \in sent[r]
    /\ live' = e
    /\ \/ Answered(r, e, live # e) /\ UNCHANGED faults
       \/ Answered(r, e, FALSE) /\ Fault
    /\ UNCHANGED <<surface, chat, events, running, knows, minted, work, made, sends, heard, dropped, overlapped>>

(* Expired, another user's, no key, over quota, not editable, no network. *)
Refuse(r, e) ==
    /\ e \in sent[r]
    /\ Answered(r, e, FALSE)
    /\ UNCHANGED <<surface, chat, events, running, knows, minted, work, live, made, sends, heard,
                   dropped, faults, overlapped>>

Result(r, a) ==
    /\ r \in running
    /\ a \in patched[r]
    /\ patched' = [patched EXCEPT ![r] = @ \ {a}]
    /\ Emit(r, IF a.ok THEN "applied" ELSE "failed", a.edit)
    /\ UNCHANGED <<surface, chat, running, knows, minted, sent, work, live, made, sends, heard,
                   dropped, faults, overlapped>>

(* The results of a turn are the model's input in the next. *)
NextTurn(r) ==
    /\ r \in running
    /\ Outstanding(r) = {}
    /\ minted[r] # {}
    /\ knows' = [knows EXCEPT ![r] = @ \cup minted[r]]
    /\ minted' = [minted EXCEPT ![r] = {}]
    /\ UNCHANGED <<surface, chat, events, running, sent, patched, work, live, made, sends, heard,
                   dropped, faults, overlapped>>

(* what a handler leaves behind *)
Over(r) ==
    /\ running' = running \ {r}
    /\ knows' = [knows EXCEPT ![r] = {}]
    /\ minted' = [minted EXCEPT ![r] = {}]
    /\ patched' = [patched EXCEPT ![r] = {}]
    /\ work' = [work EXCEPT ![r] = 0]

(* seeded fault: running out of turns is not announced *)
LastEvents(r) == UNCHANGED events \/ Emit(r, "error", None)

Announce(r) == Emit(r, "done", None) \/ Emit(r, "error", None)

(* The model is done, out of turns, or its provider fails. *)
Finish(r) ==
    /\ r \in running
    /\ Outstanding(r) = {}
    /\ Over(r)
    /\ Announce(r)
    /\ UNCHANGED <<surface, chat, sent, live, made, sends, heard, dropped, faults, overlapped>>

(* A handler whose chat is gone fails at its next event, or dies; a PATCH  *)
(* that left is not called back.                                           *)
Stop(r) ==
    /\ r \in running
    /\ r # reading
    /\ Over(r)
    /\ UNCHANGED <<surface, chat, events, sent, live, made, sends, heard, dropped, faults, overlapped>>

-----------------------------------------------------------------------------
(* The chat reads its stream *)

Take(e) == events # <<>> /\ Head(events) = e /\ events' = Tail(events)

Proposed(e) ==
    /\ Take([type |-> "proposed", edit |-> e])
    /\ card' = e
    /\ held' = FALSE
    /\ UNCHANGED <<status, told>>

(* The card that the result closes need not be the one it is about. *)
Applied(e) ==
    /\ Take([type |-> "applied", edit |-> e])
    /\ card' = None
    /\ held' = FALSE
    /\ told' = e
    /\ UNCHANGED status

Failed(e) ==
    /\ Take([type |-> "failed", edit |-> e])
    /\ card' = None
    /\ held' = FALSE
    /\ UNCHANGED <<status, told>>

Ended(type, s) ==
    /\ Take([type |-> type, edit |-> None])
    /\ status' = IF Drawer THEN s ELSE status
    /\ UNCHANGED <<card, held, told>>

Read ==
    /\ reading # None
    /\ \/ \E e \in Edits : Proposed(e) \/ Applied(e) \/ Failed(e)
       \/ Ended("done", "idle") \/ Ended("error", "error")
    /\ UNCHANGED <<surface, queued, reading, server, live, made, sends, heard, dropped,
                   faults, overlapped>>

-----------------------------------------------------------------------------
(* The user *)

(* A connection drawn during a stream sends a message as well, past the    *)
(* guard, because onConnect's closure is stale: left out.                  *)
SendText ==
    /\ status # "streaming" /\ status # "needs_api_key"
    /\ Room
    /\ Request(running, None)
    /\ UNCHANGED <<surface, card, held, queued, told, minted, sent, patched, work, live, made,
                   dropped, faults, overlapped>>

(* seeded fault: the buttons are never disabled *)
AlwaysPressed == TRUE

(* the buttons of the card *)
CanPress == IF Drawer THEN status # "streaming" ELSE ~held

(* The workbench waits for its stream to end; the drawer never does: it    *)
(* would break off a stream it still reads.                                *)
Confirm ==
    /\ card # None /\ CanPress
    /\ held' = ~Drawer
    /\ IF ~Drawer /\ status = "streaming"
       THEN /\ queued # None \/ Room
            /\ queued' = card
            /\ UNCHANGED <<sends, running, knows, heard, reading, events, status>>
       ELSE Room /\ Request(running, card) /\ UNCHANGED queued
    /\ UNCHANGED <<surface, card, told, minted, sent, patched, work, live, made, dropped,
                   faults, overlapped>>

(* requests that have the token of e, or may have it in their next turn *)
Knowing(e) == {r \in running : e \in knows[r] \cup minted[r]} \cup {r \in Requests : e \in sent[r]}

Cancel ==
    /\ card # None /\ CanPress
    /\ card' = None
    /\ held' = FALSE
    /\ dropped' = IF Knowing(card) = {} THEN dropped \cup {card} ELSE dropped
    /\ UNCHANGED <<surface, status, queued, reading, told, server, events, live, made,
                   sends, heard, faults, overlapped>>

-----------------------------------------------------------------------------

Init ==
    /\ surface \in Surfaces
    /\ card = None /\ held = FALSE /\ status = "idle" /\ queued = None
    /\ reading = None /\ events = <<>>
    /\ running = {}
    /\ knows = [r \in Requests |-> {}]
    /\ minted = [r \in Requests |-> {}]
    /\ sent = [r \in Requests |-> {}]
    /\ patched = [r \in Requests |-> {}]
    /\ work = [r \in Requests |-> 0]
    /\ live = None /\ made = 0 /\ sends = 0
    /\ heard = {} /\ told = None /\ dropped = {}
    /\ faults = 0 /\ overlapped = FALSE

Handler(r) ==
    \/ ProposeEdit(r) \/ NextTurn(r) \/ Finish(r) \/ Stop(r)
    \/ \E e \in Edits : ApplyEdit(r, e) \/ Patch(r, e) \/ Refuse(r, e)
    \/ \E a \in patched[r] : Result(r, a)

Next ==
    \/ SendText \/ Confirm \/ Cancel
    \/ Read \/ StreamClosed \/ LoseConnection
    \/ \E s \in {"error", "needs_api_key"} : Rejected(s)
    \/ \E r \in Requests : Handler(r)

Spec == Init /\ [][Next]_vars

(* Calls have time limits, the turns of a request are counted, and a chat  *)
(* reads what has come.  Nothing is assumed of the user or the model.      *)
FairSpec ==
    /\ Spec
    /\ WF_vars(Read) /\ WF_vars(StreamClosed)
    /\ \A r \in Requests :
          /\ WF_vars(Finish(r))
          /\ \A e \in Edits : WF_vars(Patch(r, e) \/ Refuse(r, e))
          /\ WF_vars(\E a \in patched[r] : Result(r, a))
-----------------------------------------------------------------------------
(* Properties *)

TypeOK ==
    /\ surface \in Surfaces
    /\ card \in 0..made /\ queued \in 0..made
    /\ live \in 0..made /\ told \in 0..made
    /\ held \in BOOLEAN /\ overlapped \in BOOLEAN /\ faults \in 0..MaxFaults
    /\ status \in {"idle", "streaming", "error", "needs_api_key"}
    /\ reading \in 0..sends
    /\ events \in Seq(Event)
    /\ running \subseteq 1..sends
    /\ knows \in [Requests -> SUBSET Edits] /\ minted \in [Requests -> SUBSET Edits]
    /\ sent \in [Requests -> SUBSET Edits]
    /\ patched \in [Requests -> SUBSET [edit: Edits, ok: BOOLEAN]]
    /\ work \in [Requests -> 0..MaxWork]
    /\ made \in 0..MaxEdits /\ sends \in 0..MaxSends
    /\ heard \subseteq 1..made /\ dropped \subseteq 1..made
    /\ queued # None => ~Drawer /\ status = "streaming"
    /\ held => ~Drawer /\ card # None

(* An edit the user cancelled when no request could know its token never   *)
(* goes live (workbench-canvas.tsx:1435-1461, ChatDrawer.tsx:175-186).     *)
CancelledStaysOut == [][live' # live => live' \notin dropped]_vars

Quiet == events = <<>> /\ \A r \in Requests : sent[r] = {} /\ patched[r] = {}

(* When nothing is on its way, the edit the chat last called live is live, *)
(* unless an answer was lost or the workbench applied two edits at a time  *)
(* (route.ts:240-262, use-agent-chat.ts:216-285).                          *)
SaysWhatIsLive == faults = 0 /\ ~overlapped /\ Quiet => told = live

(* A chat that streams unlocks (use-agent-chat.ts:288-300,                 *)
(* workbench-canvas.tsx:1341-1363).                                        *)
Unlocks == status = "streaming" ~> status # "streaming"

(* A confirmation that waits for the stream to close is sent, or gives way *)
(* to a later one (workbench-canvas.tsx:1368-1376).                        *)
QueuedIsSent == \A e \in Edits : queued = e ~> queued # e
=============================================================================
