------------------------------ MODULE AgentLoop ------------------------------
(***************************************************************************)
(* One request to the workbench agent: turns of the model, the blocks of   *)
(* its messages sent to the canvas as they come, the tools of a turn run   *)
(* side by side, and the closing messages the route adds when the model    *)
(* forgot them.                                                            *)
(*                                                                         *)
(* A robot node waits for its record from the API in a queue of its own;   *)
(* every other block goes out at once.  The canvas has one robot, whose    *)
(* node can be added again and updated.  The stream and the canvas keep    *)
(* the order of events, so an event is handled where it is sent.           *)
(***************************************************************************)
EXTENDS Naturals

CONSTANTS
    MaxTurns,   \* MAX_TURNS, 40 in the code
    NudgeLead,  \* turns before the last from which the nudge is due, 5
    MaxBlocks   \* bound: blocks of a message

ASSUME LoopOK == MaxTurns \in Nat /\ NudgeLead \in Nat /\ MaxBlocks \in Nat

VARIABLES
    phase,      \* where the route is
    turn,       \* turnCount
    blocks,     \* blocks of this message so far
    searches,   \* robot searches of this message without an answer
    queued,     \* robot nodes that wait for their record: canvasEmitQueue
    types,      \* addedNodeTypes
    said,       \* what the canvas was sent: the flags of the route, and its fallbacks
    candidates, \* searchRobotsHadCandidates
    nudged,     \* silentEndRetryUsed
    canvas,     \* the robot on the canvas
    failed,     \* history: the request met an error
    counted,    \* history: robot nodes the model added
    shipped,    \* history: robot nodes sent to the canvas
    intended,   \* history: the canvas, had it been sent every block in order
    overtaken   \* history: an update came when its node was queued

flags == <<types, said, candidates, nudged>>
vars == <<phase, turn, blocks, searches, queued, flags, canvas, failed, counted, shipped, intended,
          overtaken>>

Closers == {"hardware", "deployment", "question"}

Drawings == {"absent", "added", "updated"}

(* update_node maps over the nodes there are *)
Updated(drawing) == IF drawing = "absent" THEN "absent" ELSE "updated"

-----------------------------------------------------------------------------
(* A turn *)

(* seeded fault: an unfinished turn is not counted *)
NotCounted(n) == n

Counted(n) == n + 1

StartTurn ==
    /\ phase = "turn"
    /\ turn < MaxTurns
    /\ turn' = Counted(turn)
    /\ phase' = "message"
    /\ blocks' = 0
    /\ UNCHANGED <<searches, queued, flags, canvas, failed, counted, shipped, intended, overtaken>>

OutOfTurns ==
    /\ phase = "turn"
    /\ turn >= MaxTurns
    /\ phase' = "closers"
    /\ UNCHANGED <<turn, blocks, searches, queued, flags, canvas, failed, counted, shipped, intended,
                   overtaken>>

NextBlock ==
    /\ phase = "message"
    /\ blocks < MaxBlocks
    /\ blocks' = blocks + 1
    /\ UNCHANGED <<phase, turn, candidates, nudged, failed, shipped>>

(* add_node of a robot: counted now, sent when its record is there *)
AddRobot ==
    /\ NextBlock
    /\ types' = types \cup {"robot"}
    /\ queued' = queued + 1
    /\ counted' = counted + 1
    /\ intended' = "added"
    /\ UNCHANGED <<searches, said, canvas, overtaken>>

(* add_node of a policy or an environment *)
AddOther ==
    /\ NextBlock
    /\ types' = types \cup {"other"}
    /\ UNCHANGED <<searches, queued, said, canvas, counted, intended, overtaken>>

UpdateRobot ==
    /\ NextBlock
    /\ canvas' = Updated(canvas)
    /\ intended' = Updated(intended)
    /\ overtaken' = (overtaken \/ queued > 0)
    /\ UNCHANGED <<searches, queued, types, said, counted>>

(* show_agent_message of the two specialists that matter, or ask_user *)
Say(closer) ==
    /\ NextBlock
    /\ said' = said \cup {closer}
    /\ UNCHANGED <<searches, queued, types, canvas, counted, intended, overtaken>>

Search ==
    /\ NextBlock
    /\ searches' = searches + 1
    /\ UNCHANGED <<queued, types, said, canvas, counted, intended, overtaken>>

(* The record comes, or the API fails and the model's own data are used.   *)
(* Once the stream is closed, the event throws and so ends the queue.      *)
ShipRobot ==
    /\ queued > 0
    /\ phase # "closed"
    /\ queued' = queued - 1
    /\ shipped' = shipped + 1
    /\ canvas' = "added"
    /\ UNCHANGED <<phase, turn, blocks, searches, flags, failed, counted, intended, overtaken>>

(* seeded fault: the queue is not awaited *)
NotAwaited == TRUE

Drained == queued = 0

(* finalMessage and the queue; tools run only if the model stopped for them *)
MessageEnds ==
    /\ phase = "message"
    /\ Drained
    /\ \/ phase' = "tools" /\ blocks > 0 /\ UNCHANGED searches
       \/ phase' = "closers" /\ searches' = 0
    /\ UNCHANGED <<turn, blocks, queued, flags, canvas, failed, counted, shipped, intended, overtaken>>

(* Overloaded or broken off: the retries surround only the call that opens *)
(* the stream, whose errors come with finalMessage.                        *)
MessageFails ==
    /\ phase = "message"
    /\ phase' = "closers"
    /\ searches' = 0
    /\ failed' = TRUE
    /\ UNCHANGED <<turn, blocks, queued, flags, canvas, counted, shipped, intended, overtaken>>

SearchAnswers ==
    /\ phase = "tools"
    /\ searches > 0
    /\ searches' = searches - 1
    /\ \E found \in BOOLEAN : candidates' = (candidates \/ found)
    /\ UNCHANGED <<phase, turn, blocks, queued, types, said, nudged, canvas, failed, counted, shipped,
                   intended, overtaken>>

(* seeded fault: the nudge does not ask whether there were candidates *)
NudgeAnyway == "robot" \notin types /\ turn + NudgeLead >= MaxTurns

NudgeDue == candidates /\ "robot" \notin types /\ turn + NudgeLead >= MaxTurns

TurnEnds ==
    /\ phase = "tools"
    /\ searches = 0
    /\ phase' = "turn"
    /\ nudged' = (nudged \/ NudgeDue)
    /\ UNCHANGED <<turn, blocks, searches, queued, types, said, candidates, canvas, failed, counted,
                   shipped, intended, overtaken>>

-----------------------------------------------------------------------------
(* The end *)

(* seeded fault: a failed request is closed without the fallbacks *)
FallbacksIfWell ==
    IF failed THEN {}
    ELSE (IF "robot" \in types THEN {"hardware", "deployment"} ELSE {})
         \cup (IF types # {} THEN {"question"} ELSE {})

(* the closers the model owes for what it added *)
Fallbacks ==
    (IF "robot" \in types THEN {"hardware", "deployment"} ELSE {})
    \cup (IF types # {} THEN {"question"} ELSE {})

SendFallbacks ==
    /\ phase = "closers"
    /\ said' = said \cup Fallbacks
    /\ phase' = "closing"
    /\ UNCHANGED <<turn, blocks, searches, queued, types, candidates, nudged, canvas, failed, counted,
                   shipped, intended, overtaken>>

(* the trace is written, then done is sent *)
Close ==
    /\ phase = "closing"
    /\ phase' = "closed"
    /\ UNCHANGED <<turn, blocks, searches, queued, flags, canvas, failed, counted, shipped, intended,
                   overtaken>>

-----------------------------------------------------------------------------

(* The canvas may show the robot from an earlier request. *)
Init ==
    /\ phase = "turn"
    /\ turn = 0 /\ blocks = 0 /\ searches = 0 /\ queued = 0
    /\ types = {} /\ said = {} /\ candidates = FALSE /\ nudged = FALSE
    /\ canvas \in Drawings
    /\ failed = FALSE /\ counted = 0 /\ shipped = 0
    /\ intended = canvas /\ overtaken = FALSE

Model ==
    \/ AddRobot \/ AddOther \/ UpdateRobot \/ Search
    \/ \E closer \in Closers : Say(closer)
    \/ MessageFails

Route ==
    \/ StartTurn \/ OutOfTurns
    \/ MessageEnds \/ SearchAnswers \/ TurnEnds
    \/ SendFallbacks \/ Close

Next == Model \/ Route \/ ShipRobot

Spec == Init /\ [][Next]_vars

(* Messages end, and the API answers or times out.  The model may stop for *)
(* its tools for ever.                                                     *)
FairSpec == Spec /\ WF_vars(Route) /\ WF_vars(ShipRobot)
-----------------------------------------------------------------------------
(* Properties *)

TypeOK ==
    /\ phase \in {"turn", "message", "tools", "closers", "closing", "closed"}
    /\ turn \in 0..MaxTurns /\ blocks \in 0..MaxBlocks
    /\ searches \in 0..blocks /\ queued \in Nat
    /\ types \subseteq {"robot", "other"} /\ said \subseteq Closers
    /\ candidates \in BOOLEAN /\ nudged \in BOOLEAN /\ failed \in BOOLEAN /\ overtaken \in BOOLEAN
    /\ canvas \in Drawings /\ intended \in Drawings
    /\ counted \in Nat /\ shipped \in Nat /\ counted = shipped + queued
    /\ nudged => candidates
    /\ phase # "tools" /\ phase # "message" => searches = 0

(* A request that added robots, however it ended, has given the canvas its *)
(* summary, its safety note and its question (route.ts:553-570).           *)
RobotsGetClosers == phase = "closed" /\ counted > 0 => Closers \subseteq said

(* Unless an error cut the request short, every robot the closing messages *)
(* count is on its way to the canvas before them (route.ts:366-370).       *)
ShipsBeforeClosing == phase \in {"closers", "closing", "closed"} /\ ~failed => shipped = counted

(* Between turns the canvas is as if every block had been sent in order,   *)
(* unless an update overtook its own node in the same message              *)
(* (route.ts:260-370, workbench-canvas.tsx:978-1037).                      *)
CanvasKeepsUp ==
    phase \in {"turn", "tools", "closed"} /\ ~failed /\ ~overtaken => canvas = intended

(* Every request closes its stream (route.ts:202-584). *)
Ends == <>(phase = "closed")
=============================================================================
