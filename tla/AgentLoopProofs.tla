--------------------------- MODULE AgentLoopProofs ---------------------------
(* Proofs about AgentLoop, for any number of turns and blocks. *)
EXTENDS AgentLoop, TLAPS

(* A robot that was counted is known by its type, and a request that has   *)
(* sent its closing messages has sent what robots ask for.                 *)
ClosersInv ==
    /\ counted > 0 => "robot" \in types
    /\ phase \in {"closing", "closed"} /\ "robot" \in types => Closers \subseteq said

(* Outside a message the queue is empty, and while it is not, it ends with *)
(* the robot the canvas should show.                                       *)
QueueInv ==
    /\ phase # "message" /\ ~failed => queued = 0
    /\ ~overtaken => IF queued = 0 THEN canvas = intended ELSE intended = "added"

IInv == TypeOK /\ ClosersInv /\ QueueInv

-----------------------------------------------------------------------------

LEMMA InitEstablishes == Init => IInv
<1> SUFFICES ASSUME Init PROVE IInv
  OBVIOUS
<1>1. TypeOK
  <2>1. candidates \in BOOLEAN /\ nudged \in BOOLEAN /\ failed \in BOOLEAN /\ overtaken \in BOOLEAN
    BY Zenon DEF Init
  <2>2. canvas \in Drawings /\ intended \in Drawings
    BY Zenon DEF Init
  <2> QED
    BY <2>1, <2>2, LoopOK DEF LoopOK, Init, TypeOK
<1>2. ClosersInv
  BY DEF Init, ClosersInv
<1>3. QueueInv
  BY DEF Init, QueueInv
<1> QED
  BY <1>1, <1>2, <1>3 DEF IInv

(* The type invariant: one step per action. *)
LEMMA TypesHold ==
  ASSUME TypeOK, [Next]_vars
  PROVE  TypeOK'
<1> USE LoopOK DEF LoopOK, TypeOK, Closers, Drawings
<1>1. CASE AddRobot
  BY <1>1 DEF AddRobot, NextBlock
<1>2. CASE AddOther
  BY <1>2 DEF AddOther, NextBlock
<1>3. CASE Search
  BY <1>3 DEF Search, NextBlock
<1>4. CASE UpdateRobot
  <2>1. overtaken' \in BOOLEAN
    BY <1>4, Zenon DEF UpdateRobot
  <2>2. canvas' \in Drawings /\ intended' \in Drawings
    BY <1>4 DEF UpdateRobot, Updated
  <2>3. NextBlock /\ UNCHANGED <<searches, queued, types, said, counted>>
    BY <1>4 DEF UpdateRobot
  <2> QED
    BY <2>1, <2>2, <2>3 DEF NextBlock
<1>5. ASSUME NEW closer \in Closers, Say(closer)
      PROVE  TypeOK'
  BY <1>5 DEF Say, NextBlock
<1>6. CASE MessageFails
  BY <1>6 DEF MessageFails, flags
<1>7. CASE StartTurn
  BY <1>7 DEF StartTurn, Counted, flags
<1>8. CASE OutOfTurns
  BY <1>8 DEF OutOfTurns, flags
<1>9. CASE MessageEnds
  BY <1>9 DEF MessageEnds, flags
<1>10. CASE SearchAnswers
  BY <1>10 DEF SearchAnswers
<1>11. CASE TurnEnds
  BY <1>11 DEF TurnEnds, NudgeDue
<1>12. CASE SendFallbacks
  BY <1>12 DEF SendFallbacks, Fallbacks
<1>13. CASE Close
  BY <1>13 DEF Close, flags
<1>14. CASE ShipRobot
  BY <1>14 DEF ShipRobot, flags
<1>15. CASE UNCHANGED vars
  BY <1>15 DEF vars, flags
<1> QED
  BY <1>1, <1>2, <1>3, <1>4, <1>5, <1>6, <1>7, <1>8, <1>9, <1>10, <1>11, <1>12, <1>13, <1>14,
     <1>15
  DEF Next, Model, Route

LEMMA ClosersHold ==
  ASSUME TypeOK, ClosersInv, [Next]_vars
  PROVE  ClosersInv'
<1> USE DEF TypeOK, ClosersInv, Closers
<1>1. CASE AddRobot \/ AddOther \/ Search \/ UpdateRobot
  BY <1>1 DEF AddRobot, AddOther, Search, UpdateRobot, NextBlock
<1>2. ASSUME NEW closer \in Closers, Say(closer)
      PROVE  ClosersInv'
  BY <1>2 DEF Say, NextBlock
<1>3. CASE MessageFails \/ StartTurn \/ OutOfTurns \/ MessageEnds \/ SearchAnswers \/ TurnEnds
  BY <1>3 DEF MessageFails, StartTurn, OutOfTurns, MessageEnds, SearchAnswers, TurnEnds, flags
<1>4. CASE SendFallbacks
  BY <1>4 DEF SendFallbacks, Fallbacks
<1>5. CASE Close \/ ShipRobot
  BY <1>5 DEF Close, ShipRobot, flags
<1>6. CASE UNCHANGED vars
  BY <1>6 DEF vars, flags
<1> QED
  BY <1>1, <1>2, <1>3, <1>4, <1>5, <1>6 DEF Next, Model, Route

LEMMA QueueHolds ==
  ASSUME TypeOK, QueueInv, [Next]_vars
  PROVE  QueueInv'
<1> USE DEF TypeOK, QueueInv
<1>1. CASE AddRobot \/ AddOther \/ Search
  BY <1>1 DEF AddRobot, AddOther, Search, NextBlock
<1>2. CASE UpdateRobot
  <2>1. ~overtaken' => ~overtaken /\ ~(queued > 0)
    BY <1>2, Zenon DEF UpdateRobot
  <2> QED
    BY <1>2, <2>1 DEF UpdateRobot, NextBlock
<1>3. ASSUME NEW closer \in Closers, Say(closer)
      PROVE  QueueInv'
  BY <1>3 DEF Say, NextBlock
<1>4. CASE MessageFails \/ StartTurn \/ OutOfTurns \/ SearchAnswers \/ TurnEnds
  BY <1>4 DEF MessageFails, StartTurn, OutOfTurns, SearchAnswers, TurnEnds, flags
<1>5. CASE MessageEnds
  BY <1>5 DEF MessageEnds, Drained, flags
<1>6. CASE SendFallbacks \/ Close
  BY <1>6 DEF SendFallbacks, Close, flags
<1>7. CASE ShipRobot
  BY <1>7 DEF ShipRobot, flags
<1>8. CASE UNCHANGED vars
  BY <1>8 DEF vars, flags
<1> QED
  BY <1>1, <1>2, <1>3, <1>4, <1>5, <1>6, <1>7, <1>8 DEF Next, Model, Route

LEMMA Inductive == Spec => []IInv
<1>1. Init => IInv
  BY InitEstablishes
<1>2. IInv /\ [Next]_vars => IInv'
  BY TypesHold, ClosersHold, QueueHolds DEF IInv
<1> QED
  BY <1>1, <1>2, PTL DEF Spec

-----------------------------------------------------------------------------

(* Every reachable state is well typed: the robots counted are those sent  *)
(* and those queued, and only a request with candidates is nudged          *)
(* (route.ts:186-546).                                                     *)
THEOREM LoopTypes == Spec => []TypeOK
<1>1. IInv => TypeOK
  BY DEF IInv
<1> QED
  BY <1>1, Inductive, PTL

(* Robots get their closing messages, however the request ended            *)
(* (route.ts:553-570).                                                     *)
THEOREM RobotsAreClosed == Spec => []RobotsGetClosers
<1>1. IInv => RobotsGetClosers
  BY DEF IInv, ClosersInv, RobotsGetClosers
<1> QED
  BY <1>1, Inductive, PTL

(* Without an error every robot is sent before the closing messages that   *)
(* count it (route.ts:366-370).                                            *)
THEOREM ShippedBeforeClosing == Spec => []ShipsBeforeClosing
<1>1. IInv => ShipsBeforeClosing
  BY DEF IInv, TypeOK, QueueInv, ShipsBeforeClosing
<1> QED
  BY <1>1, Inductive, PTL

(* Between turns the canvas shows what the model drew, whatever the queue  *)
(* held back, unless an update overtook its node (route.ts:260-370).       *)
THEOREM CanvasFollows == Spec => []CanvasKeepsUp
<1>1. IInv => CanvasKeepsUp
  BY DEF IInv, QueueInv, CanvasKeepsUp
<1> QED
  BY <1>1, Inductive, PTL
=============================================================================
