--------------------------- MODULE EpisodesProofs ---------------------------
(* Proofs about Episodes, for any episodes, readers and faults. *)
EXTENDS Episodes, TLAPS

(* Before its submit an episode has no render and no job; a job id is that *)
(* of a render; a POST that gives up has met a fault.                      *)
PostInv(e) ==
    /\ post[e] \in {"none", "submit"} => upstream[e] = "none" /\ ~row[e].job
    /\ post[e] = "save" \/ row[e].job => upstream[e] # "none"
    /\ post[e] = "giveup" => e \in blamed

(* Reads ask about rows with a job only; a terminal answer is oneclick's   *)
(* last word, so it stays true however late it is written.                 *)
PollInv(r, e) ==
    /\ poll[r][e].at # "idle" => row[e].job
    /\ poll[r][e].at = "save" /\ poll[r][e].answer \in Terminal => upstream[e] = poll[r][e].answer
    /\ poll[r][e].at = "giveup" => e \in blamed

RowInv(e) ==
    /\ row[e].status = "done" => upstream[e] = "done" /\ row[e].video
    /\ row[e].status = "failed" => upstream[e] = "failed" \/ e \in blamed
    /\ upstream[e] # "none" /\ ~row[e].job => post[e] = "save" \/ e \in blamed

IInv ==
    /\ TypeOK
    /\ \A e \in Episodes : PostInv(e) /\ RowInv(e) /\ \A r \in Readers : PollInv(r, e)

-----------------------------------------------------------------------------
(* Types *)

LEMMA RowTypes ==
  ASSUME NEW st \in RowStatus, NEW j \in BOOLEAN, NEW v \in BOOLEAN
  PROVE  [status |-> st, job |-> j, video |-> v] \in Row
  BY DEF Row

LEMMA PollTypes ==
  ASSUME NEW at \in {"idle", "ask", "save", "giveup"}, NEW s \in Live,
         NEW a \in Live \cup Terminal, NEW l \in BOOLEAN
  PROVE  [at |-> at, seen |-> s, answer |-> a, late |-> l] \in Poll
  BY DEF Poll

LEMMA SetStatusTypes ==
  ASSUME TypeOK, NEW e \in Episodes, NEW st \in RowStatus, SetStatus(e, st)
  PROVE  row' \in [Episodes -> Row]
<1>1. [row[e] EXCEPT !.status = st] \in Row
  BY DEF TypeOK, Row
<1> QED
  BY <1>1 DEF SetStatus, TypeOK

LEMMA PolledTypes ==
  ASSUME TypeOK, NEW r \in Readers, NEW e \in Episodes, NEW p \in Poll,
         poll' = [poll EXCEPT ![r][e] = p]
  PROVE  poll' \in [Readers -> [Episodes -> Poll]]
  BY DEF TypeOK

LEMMA NoPollType == NoPoll \in Poll
  BY DEF NoPoll, Poll, Live, Terminal

(* What a write leaves in the other reads of the row. *)
LEMMA OutrunReads ==
  ASSUME NEW p \in Poll, NEW st
  PROVE  /\ Outrun(p, st) \in Poll
         /\ Outrun(p, st).at = p.at
         /\ Outrun(p, st).answer = p.answer
<1> DEFINE l == p.late \/ (p # NoPoll /\ st \in Terminal)
<1>1. l \in BOOLEAN
  BY Zenon DEF Poll
<1>2. Outrun(p, st) = [p EXCEPT !.late = l]
  BY DEF Outrun
<1> HIDE DEF l
<1> QED
  BY <1>1, <1>2 DEF Poll

LEMMA ReportedReads ==
  ASSUME TypeOK, NEW r \in Readers, NEW e \in Episodes, NEW st, Reported(r, e, st)
  PROVE  /\ poll' \in [Readers -> [Episodes -> Poll]]
         /\ \A x \in Readers, y \in Episodes :
               \/ poll'[x][y] = NoPoll
               \/ poll'[x][y].at = poll[x][y].at /\ poll'[x][y].answer = poll[x][y].answer
<1> DEFINE N(x) == IF x = r THEN NoPoll ELSE Outrun(poll[x][e], st)
<1>1. poll' = [x \in Readers |-> [poll[x] EXCEPT ![e] = N(x)]]
  BY DEF Reported
<1>2. \A x \in Readers : poll[x] \in [Episodes -> Poll]
  BY DEF TypeOK
<1>3. \A x \in Readers : /\ N(x) \in Poll
                         /\ \/ N(x) = NoPoll
                            \/ N(x).at = poll[x][e].at /\ N(x).answer = poll[x][e].answer
  BY <1>2, NoPollType, OutrunReads
<1> HIDE DEF N
<1> QED
  BY <1>1, <1>2, <1>3

(* The type invariant, with what Answer needs: a row with a job has a      *)
(* render to be asked about.                                               *)
LEMMA TypesHold ==
  ASSUME IInv, [Next]_vars
  PROVE  TypeOK'
<1> USE FaultsOK DEF FaultsOK
<1>1. CASE CreateRows
  <2>1. NewRow \in Row
    BY DEF NewRow, Row, RowStatus, Live
  <2>2. row' \in [Episodes -> Row] /\ post' \in [Episodes -> PostSteps]
    BY <1>1, <2>1 DEF CreateRows, PostSteps
  <2> QED
    BY <1>1, <2>2 DEF CreateRows, IInv, TypeOK
<1>2. ASSUME NEW e \in Episodes, Submit(e)
      PROVE  TypeOK'
  BY <1>2 DEF Submit, IInv, TypeOK, PostSteps, Renders
<1>3. ASSUME NEW e \in Episodes, SubmitFails(e)
      PROVE  TypeOK'
  <2>1. faults' \in 0..MaxFaults
    BY <1>3 DEF SubmitFails, Fault, IInv, TypeOK
  <2>2. upstream' \in [Episodes -> Renders]
    BY <1>3 DEF SubmitFails, IInv, TypeOK, Renders
  <2> QED
    BY <1>3, <2>1, <2>2 DEF SubmitFails, IInv, TypeOK, PostSteps
<1>4. ASSUME NEW e \in Episodes, SaveJob(e)
      PROVE  TypeOK'
  <2>1. row[e].video \in BOOLEAN
    BY DEF IInv, TypeOK, Row
  <2>2. [status |-> "running", job |-> TRUE, video |-> row[e].video] \in Row
    BY <2>1, RowTypes DEF RowStatus, Live
  <2> QED
    BY <1>4, <2>2 DEF SaveJob, IInv, TypeOK, PostSteps
<1>5. ASSUME NEW e \in Episodes, SaveJobFails(e)
      PROVE  TypeOK'
  <2>1. faults' \in 0..MaxFaults
    BY <1>5 DEF SaveJobFails, Fault, IInv, TypeOK
  <2> QED
    BY <1>5, <2>1 DEF SaveJobFails, IInv, TypeOK, PostSteps
<1>6. ASSUME NEW e \in Episodes, MarkSubmitFailed(e)
      PROVE  TypeOK'
  <2>1. row' \in [Episodes -> Row]
    BY <1>6, SetStatusTypes DEF MarkSubmitFailed, IInv, RowStatus, Terminal
  <2> QED
    BY <1>6, <2>1 DEF MarkSubmitFailed, IInv, TypeOK, PostSteps
<1>7. ASSUME NEW e \in Episodes, MarkSubmitFailedFails(e)
      PROVE  TypeOK'
  BY <1>7 DEF MarkSubmitFailedFails, IInv, TypeOK, PostSteps
<1>8. ASSUME NEW e \in Episodes, UpstreamStep(e)
      PROVE  TypeOK'
  BY <1>8 DEF UpstreamStep, Render, IInv, TypeOK, Renders
<1>9. ASSUME NEW r \in Readers, NEW E \in SUBSET Episodes, StartGet(r, E)
      PROVE  TypeOK'
  <2>1. ASSUME NEW e \in Episodes, Pollable(e)
        PROVE  [at |-> "ask", seen |-> row[e].status, answer |-> "pending", late |-> FALSE] \in Poll
    BY <2>1, PollTypes DEF Pollable, Live
  <2>2. poll' \in [Readers -> [Episodes -> Poll]]
    BY <1>9, <2>1, NoPollType DEF StartGet, IInv, TypeOK
  <2> QED
    BY <1>9, <2>2 DEF StartGet, IInv, TypeOK
<1>10. ASSUME NEW r \in Readers, NEW e \in Episodes, Answer(r, e)
       PROVE  TypeOK'
  <2>1. upstream[e] \in {"queued", "running", "done", "failed"}
    BY <1>10 DEF Answer, IInv, TypeOK, PostInv, PollInv, Renders
  <2>2. Normalized(upstream[e]) \in Live \cup Terminal
    BY <2>1 DEF Normalized, Live, Terminal
  <2>3. poll[r][e] \in Poll
    BY DEF IInv, TypeOK
  <2>4. poll[r][e].seen \in Live /\ poll[r][e].late \in BOOLEAN
    BY <2>3 DEF Poll
  <2>5. [at |-> "save", seen |-> poll[r][e].seen, answer |-> Normalized(upstream[e]),
         late |-> poll[r][e].late] \in Poll
    BY <2>2, <2>4, PollTypes
  <2>6. poll' \in [Readers -> [Episodes -> Poll]]
    <3>1. CASE AnswerIsNews(r, e)
      BY <1>10, <2>5, <3>1, PolledTypes DEF Answer, IInv
    <3>2. CASE ~AnswerIsNews(r, e)
      BY <1>10, <3>2, NoPollType, PolledTypes DEF Answer, Polled, IInv
    <3> QED
      BY <3>1, <3>2
  <2> QED
    BY <1>10, <2>6 DEF Answer, IInv, TypeOK
<1>11. ASSUME NEW r \in Readers, NEW e \in Episodes, AnswerFails(r, e) \/ SaveAnswerFails(r, e)
       PROVE  TypeOK'
  <2>1. faults' \in 0..MaxFaults
    BY <1>11 DEF AnswerFails, SaveAnswerFails, Fault, IInv, TypeOK
  <2>2. [poll[r][e] EXCEPT !.at = "giveup"] \in Poll
    <3>1. poll[r][e] \in Poll
      BY DEF IInv, TypeOK
    <3> QED
      BY <3>1 DEF Poll
  <2>3. poll' = [poll EXCEPT ![r][e] = [poll[r][e] EXCEPT !.at = "giveup"]]
    BY <1>11 DEF AnswerFails, SaveAnswerFails
  <2>4. poll' \in [Readers -> [Episodes -> Poll]]
    BY <2>2, <2>3, PolledTypes DEF IInv
  <2> QED
    BY <1>11, <2>1, <2>4 DEF AnswerFails, SaveAnswerFails, IInv, TypeOK
<1>12. ASSUME NEW r \in Readers, NEW e \in Episodes, SaveAnswer(r, e)
       PROVE  TypeOK'
  <2>1. poll[r][e].answer \in RowStatus
    BY DEF IInv, TypeOK, Poll, RowStatus
  <2>2. row[e].job \in BOOLEAN
    BY DEF IInv, TypeOK, Row
  <2>3. (row[e].video \/ poll[r][e].answer = "done") \in BOOLEAN
    BY Zenon
  <2>4. [status |-> poll[r][e].answer, job |-> row[e].job,
         video |-> row[e].video \/ poll[r][e].answer = "done"] \in Row
    BY <2>1, <2>2, <2>3, RowTypes, Zenon
  <2>5. row' = [row EXCEPT ![e] = [status |-> poll[r][e].answer, job |-> row[e].job,
                                   video |-> row[e].video \/ poll[r][e].answer = "done"]]
    BY <1>12, Zenon DEF SaveAnswer
  <2>6. row' \in [Episodes -> Row]
    BY <2>4, <2>5, Zenon DEF IInv, TypeOK
  <2>7. poll' \in [Readers -> [Episodes -> Poll]]
    BY <1>12, ReportedReads DEF SaveAnswer, IInv
  <2> QED
    BY <1>12, <2>6, <2>7 DEF SaveAnswer, IInv, TypeOK
<1>13. ASSUME NEW r \in Readers, NEW e \in Episodes, GiveUp(r, e)
       PROVE  TypeOK'
  <2>1. row' \in [Episodes -> Row]
    BY <1>13, SetStatusTypes DEF GiveUp, IInv, RowStatus, Terminal
  <2>2. poll' \in [Readers -> [Episodes -> Poll]]
    BY <1>13, ReportedReads DEF GiveUp, IInv
  <2> QED
    BY <1>13, <2>1, <2>2 DEF GiveUp, IInv, TypeOK
<1>14. ASSUME NEW r \in Readers, NEW e \in Episodes, GiveUpFails(r, e)
       PROVE  TypeOK'
  <2>1. poll' \in [Readers -> [Episodes -> Poll]]
    BY <1>14, NoPollType, PolledTypes DEF GiveUpFails, Polled, IInv
  <2> QED
    BY <1>14, <2>1 DEF GiveUpFails, IInv, TypeOK
<1>15. CASE Restart
  <2>1. faults' \in 0..MaxFaults
    BY <1>15 DEF Restart, Fault, IInv, TypeOK
  <2>2. poll' \in [Readers -> [Episodes -> Poll]]
    BY <1>15, NoPollType DEF Restart
  <2> QED
    BY <1>15, <2>1, <2>2 DEF Restart, IInv, TypeOK, PostSteps
<1>16. CASE UNCHANGED vars
  BY <1>16 DEF vars, IInv, TypeOK
<1> QED
  BY <1>1, <1>2, <1>3, <1>4, <1>5, <1>6, <1>7, <1>8, <1>9, <1>10, <1>11, <1>12, <1>13, <1>14,
     <1>15, <1>16
  DEF Next, PostStep, PostFault, PollStep, PollFault

-----------------------------------------------------------------------------
(* The rest of the invariant *)

(* What a step leaves alone of an episode stays true of it. *)
LEMMA RowFrame ==
  ASSUME NEW e \in Episodes, PostInv(e), RowInv(e),
         row'[e] = row[e], upstream'[e] = upstream[e], post'[e] = post[e], blamed \subseteq blamed'
  PROVE  PostInv(e)' /\ RowInv(e)'
  BY DEF PostInv, RowInv

LEMMA PollFrame ==
  ASSUME NEW r \in Readers, NEW e \in Episodes, PollInv(r, e),
         row[e].job => row'[e].job,
         upstream'[e] = upstream[e] \/ upstream[e] \notin Terminal,
         blamed \subseteq blamed',
         \/ poll'[r][e] = NoPoll
         \/ poll'[r][e].at = poll[r][e].at /\ poll'[r][e].answer = poll[r][e].answer
  PROVE  PollInv(r, e)'
  BY DEF PollInv, NoPoll, Terminal

(* The steps of the POST and of oneclick on episode e. *)
LEMMA PostHolds ==
  ASSUME IInv, NEW e \in Episodes, PostStep(e) \/ PostFault(e) \/ UpstreamStep(e)
  PROVE  PostInv(e)' /\ RowInv(e)'
<1> USE DEF PostInv, RowInv, IInv
<1>1. CASE Submit(e)
  BY <1>1 DEF Submit, TypeOK
<1>2. CASE SubmitFails(e)
  BY <1>2 DEF SubmitFails, TypeOK
<1>3. CASE SaveJob(e)
  BY <1>3 DEF SaveJob, TypeOK
<1>4. CASE SaveJobFails(e)
  BY <1>4 DEF SaveJobFails, TypeOK
<1>5. CASE MarkSubmitFailed(e)
  <2>1. row[e] \in Row
    BY DEF TypeOK
  <2>2. row'[e].status = "failed" /\ row'[e].job = row[e].job
    BY <1>5, <2>1 DEF MarkSubmitFailed, SetStatus, TypeOK, Row
  <2> QED
    BY <1>5, <2>2 DEF MarkSubmitFailed, TypeOK
<1>6. CASE MarkSubmitFailedFails(e)
  BY <1>6 DEF MarkSubmitFailedFails, TypeOK
<1>7. CASE UpstreamStep(e)
  BY <1>7 DEF UpstreamStep, Render, TypeOK
<1> QED
  BY <1>1, <1>2, <1>3, <1>4, <1>5, <1>6, <1>7 DEF PostStep, PostFault

(* They leave the other episodes, and all reads, alone. *)
LEMMA PostElsewhere ==
  ASSUME IInv, NEW e \in Episodes, PostStep(e) \/ PostFault(e) \/ UpstreamStep(e)
  PROVE  /\ \A x \in Episodes \ {e} :
               row'[x] = row[x] /\ upstream'[x] = upstream[x] /\ post'[x] = post[x]
         /\ row[e].job => row'[e].job
         /\ upstream'[e] = upstream[e] \/ upstream[e] \notin Terminal
         /\ blamed \subseteq blamed'
         /\ poll' = poll
<1> USE DEF IInv, TypeOK
<1>1. CASE Submit(e) \/ SubmitFails(e)
  BY <1>1 DEF Submit, SubmitFails, PostInv, Terminal
<1>2. CASE SaveJob(e) \/ SaveJobFails(e) \/ MarkSubmitFailedFails(e)
  BY <1>2 DEF SaveJob, SaveJobFails, MarkSubmitFailedFails
<1>3. CASE MarkSubmitFailed(e)
  <2>1. row'[e].job = row[e].job
    BY <1>3 DEF MarkSubmitFailed, SetStatus, Row
  <2> QED
    BY <1>3, <2>1 DEF MarkSubmitFailed, SetStatus
<1>4. CASE UpstreamStep(e)
  BY <1>4 DEF UpstreamStep, Render, Terminal
<1> QED
  BY <1>1, <1>2, <1>3, <1>4 DEF PostStep, PostFault

(* A step of read r about episode e: what it may do to the row ... *)
LEMMA ReadRows ==
  ASSUME IInv, NEW r \in Readers, NEW e \in Episodes, PollStep(r, e) \/ PollFault(r, e)
  PROVE  /\ \A x \in Episodes : PostInv(x)' /\ RowInv(x)'
         /\ \A x \in Episodes : row[x].job => row'[x].job
         /\ upstream' = upstream /\ blamed \subseteq blamed'
<1>1. CASE Answer(r, e) \/ AnswerFails(r, e) \/ SaveAnswerFails(r, e) \/ GiveUpFails(r, e)
  <2>1. row' = row /\ upstream' = upstream /\ post' = post /\ blamed \subseteq blamed'
    BY <1>1 DEF Answer, AnswerFails, SaveAnswerFails, GiveUpFails
  <2> QED
    BY <2>1, RowFrame DEF IInv
<1>2. CASE SaveAnswer(r, e)
  <2>1. upstream' = upstream /\ post' = post /\ blamed' = blamed
    BY <1>2 DEF SaveAnswer
  <2>2. \A x \in Episodes \ {e} : row'[x] = row[x]
    BY <1>2 DEF SaveAnswer, IInv, TypeOK
  <2>3. /\ row'[e].status = poll[r][e].answer /\ row'[e].job = row[e].job
        /\ row'[e].video = (row[e].video \/ poll[r][e].answer = "done")
    BY <1>2, Zenon DEF SaveAnswer, IInv, TypeOK
  <2>4. poll[r][e].answer = "done" => row'[e].video
    BY <2>3
  <2>5. poll[r][e].at = "save"
    BY <1>2 DEF SaveAnswer
  <2>6. PostInv(e)' /\ RowInv(e)'
    BY <2>1, <2>3, <2>4, <2>5 DEF IInv, PostInv, RowInv, PollInv, Terminal
  <2> QED
    BY <2>1, <2>2, <2>3, <2>6, RowFrame DEF IInv
<1>3. CASE GiveUp(r, e)
  <2>1. upstream' = upstream /\ post' = post /\ blamed' = blamed
    BY <1>3 DEF GiveUp
  <2>2. \A x \in Episodes \ {e} : row'[x] = row[x]
    BY <1>3 DEF GiveUp, SetStatus, IInv, TypeOK
  <2>3. row'[e].status = "failed" /\ row'[e].job = row[e].job
    <3>1. row[e] \in Row
      BY DEF IInv, TypeOK
    <3> QED
      BY <1>3, <3>1 DEF GiveUp, SetStatus, IInv, TypeOK, Row
  <2>4. e \in blamed
    BY <1>3 DEF GiveUp, IInv, PollInv
  <2>5. PostInv(e)' /\ RowInv(e)'
    BY <2>1, <2>3, <2>4 DEF IInv, PostInv, RowInv
  <2> QED
    BY <2>1, <2>2, <2>3, <2>5, RowFrame DEF IInv
<1> QED
  BY <1>1, <1>2, <1>3 DEF PollStep, PollFault

(* ... and what to the reads. *)
LEMMA ReadPolls ==
  ASSUME IInv, NEW r \in Readers, NEW e \in Episodes, PollStep(r, e) \/ PollFault(r, e)
  PROVE  \A x \in Readers, y \in Episodes : PollInv(x, y)'
<1> SUFFICES ASSUME NEW x \in Readers, NEW y \in Episodes PROVE PollInv(x, y)'
  OBVIOUS
<1>1. (row[y].job => row'[y].job) /\ upstream' = upstream /\ blamed \subseteq blamed'
  BY ReadRows
<1>2. PollInv(x, y)
  BY DEF IInv
<1>3. ASSUME \/ poll'[x][y] = NoPoll
             \/ poll'[x][y].at = poll[x][y].at /\ poll'[x][y].answer = poll[x][y].answer
      PROVE  PollInv(x, y)'
  BY <1>1, <1>2, <1>3, PollFrame
<1>4. CASE SaveAnswer(r, e) \/ GiveUp(r, e)
  BY <1>3, <1>4, ReportedReads DEF SaveAnswer, GiveUp, IInv
<1>5. CASE GiveUpFails(r, e)
  BY <1>3, <1>5 DEF GiveUpFails, Polled, IInv, TypeOK
<1>6. CASE AnswerFails(r, e) \/ SaveAnswerFails(r, e)
  <2>1. CASE x = r /\ y = e
    <3>1. poll[r][e] \in Poll
      BY DEF IInv, TypeOK
    <3>2. poll'[r][e].at = "giveup" /\ e \in blamed' /\ poll[r][e].at # "idle"
      BY <1>6, <3>1 DEF AnswerFails, SaveAnswerFails, IInv, TypeOK, Poll
    <3> QED
      BY <1>1, <1>2, <2>1, <3>2 DEF PollInv
  <2>2. CASE ~(x = r /\ y = e)
    BY <1>3, <1>6, <2>2 DEF AnswerFails, SaveAnswerFails, IInv, TypeOK
  <2> QED
    BY <2>1, <2>2
<1>7. CASE Answer(r, e)
  <2>1. CASE x = r /\ y = e
    <3>1. CASE AnswerIsNews(r, e)
      <4>1. poll'[r][e].at = "save" /\ poll'[r][e].answer = Normalized(upstream[e])
        BY <1>7, <3>1 DEF Answer, IInv, TypeOK
      <4>2. poll[r][e].at # "idle"
        BY <1>7 DEF Answer
      <4> QED
        BY <1>1, <1>2, <2>1, <4>1, <4>2 DEF PollInv, Normalized, Terminal
    <3>2. CASE ~AnswerIsNews(r, e)
      BY <1>3, <1>7, <2>1, <3>2 DEF Answer, Polled, IInv, TypeOK
    <3> QED
      BY <3>1, <3>2
  <2>2. CASE ~(x = r /\ y = e)
    BY <1>3, <1>7, <2>2 DEF Answer, Polled, IInv, TypeOK
  <2> QED
    BY <2>1, <2>2
<1> QED
  BY <1>4, <1>5, <1>6, <1>7 DEF PollStep, PollFault

-----------------------------------------------------------------------------
(* The invariant is inductive *)

(* The POST inserts rows nobody has read: before it there was no job. *)
LEMMA CreateRowsHolds ==
  ASSUME IInv, CreateRows
  PROVE  \A e \in Episodes : PostInv(e)' /\ RowInv(e)' /\ \A r \in Readers : PollInv(r, e)'
<1> SUFFICES ASSUME NEW e \in Episodes
             PROVE  PostInv(e)' /\ RowInv(e)' /\ \A r \in Readers : PollInv(r, e)'
  OBVIOUS
<1>1. ~row[e].job /\ upstream[e] = "none"
  BY DEF CreateRows, IInv, PostInv
<1>2. row'[e] = NewRow /\ post'[e] = "submit" /\ upstream' = upstream /\ poll' = poll
  BY DEF CreateRows
<1> QED
  BY <1>1, <1>2 DEF IInv, PostInv, RowInv, PollInv, NewRow

(* A read starts with rows that have a job. *)
LEMMA StartGetHolds ==
  ASSUME IInv, NEW x \in Readers, NEW E \in SUBSET Episodes, StartGet(x, E)
  PROVE  \A e \in Episodes : PostInv(e)' /\ RowInv(e)' /\ \A r \in Readers : PollInv(r, e)'
<1>1. row' = row /\ upstream' = upstream /\ post' = post /\ blamed' = blamed
  BY DEF StartGet
<1>2. ASSUME NEW e \in Episodes, NEW r \in Readers
      PROVE  PollInv(r, e)'
  <2>1. CASE r = x /\ e \in E /\ Pollable(e)
    <3>1. poll'[r][e].at = "ask" /\ row[e].job
      BY <2>1 DEF StartGet, IInv, TypeOK, Pollable
    <3> QED
      BY <1>1, <3>1 DEF PollInv
  <2>2. CASE r = x /\ ~(e \in E /\ Pollable(e))
    <3>1. poll'[r][e] = NoPoll
      BY <2>2 DEF StartGet, IInv, TypeOK
    <3> QED
      BY <1>1, <3>1 DEF PollInv, NoPoll
  <2>3. CASE r # x
    <3>1. poll'[r][e] = poll[r][e]
      BY <2>3 DEF StartGet, IInv, TypeOK
    <3> QED
      BY <1>1, <3>1, PollFrame DEF IInv
  <2> QED
    BY <2>1, <2>2, <2>3
<1> QED
  BY <1>1, <1>2, RowFrame DEF IInv

(* A restart ends the POST between the submit and the save: the render it  *)
(* loses is blamed on it.                                                  *)
LEMMA RestartHolds ==
  ASSUME IInv, Restart
  PROVE  \A e \in Episodes : PostInv(e)' /\ RowInv(e)' /\ \A r \in Readers : PollInv(r, e)'
<1> SUFFICES ASSUME NEW e \in Episodes
             PROVE  PostInv(e)' /\ RowInv(e)' /\ \A r \in Readers : PollInv(r, e)'
  OBVIOUS
<1>1. /\ row' = row /\ upstream' = upstream
      /\ post'[e] = IF post[e] = "none" THEN "none" ELSE "over"
      /\ post[e] = "save" => e \in blamed'
      /\ blamed \subseteq blamed'
      /\ \A r \in Readers : poll'[r][e] = NoPoll
  BY DEF Restart
<1>2. PostInv(e)' /\ RowInv(e)'
  BY <1>1 DEF IInv, PostInv, RowInv
<1> QED
  BY <1>1, <1>2 DEF PollInv, NoPoll

LEMMA StepHolds ==
  ASSUME IInv, [Next]_vars
  PROVE  IInv'
<1> SUFFICES \A e \in Episodes : PostInv(e)' /\ RowInv(e)' /\ \A r \in Readers : PollInv(r, e)'
  BY TypesHold DEF IInv
<1>1. CASE CreateRows
  BY <1>1, CreateRowsHolds
<1>2. ASSUME NEW e \in Episodes, PostStep(e) \/ PostFault(e) \/ UpstreamStep(e)
      PROVE  \A x \in Episodes : PostInv(x)' /\ RowInv(x)' /\ \A r \in Readers : PollInv(r, x)'
  <2> SUFFICES ASSUME NEW x \in Episodes
               PROVE  PostInv(x)' /\ RowInv(x)' /\ \A r \in Readers : PollInv(r, x)'
    OBVIOUS
  <2>1. PostInv(x)' /\ RowInv(x)'
    BY <1>2, PostHolds, PostElsewhere, RowFrame DEF IInv
  <2>2. /\ row[x].job => row'[x].job
        /\ upstream'[x] = upstream[x] \/ upstream[x] \notin Terminal
        /\ blamed \subseteq blamed' /\ poll' = poll
    BY <1>2, PostElsewhere
  <2> QED
    BY <2>1, <2>2, PollFrame DEF IInv
<1>3. ASSUME NEW r \in Readers, NEW e \in Episodes, PollStep(r, e) \/ PollFault(r, e)
      PROVE  \A x \in Episodes : PostInv(x)' /\ RowInv(x)' /\ \A y \in Readers : PollInv(y, x)'
  BY <1>3, ReadRows, ReadPolls
<1>4. ASSUME NEW r \in Readers, NEW E \in SUBSET Episodes, StartGet(r, E)
      PROVE  \A x \in Episodes : PostInv(x)' /\ RowInv(x)' /\ \A y \in Readers : PollInv(y, x)'
  BY <1>4, StartGetHolds
<1>5. CASE Restart
  BY <1>5, RestartHolds
<1>6. CASE UNCHANGED vars
  BY <1>6 DEF vars, IInv, PostInv, RowInv, PollInv
<1> QED
  BY <1>1, <1>2, <1>3, <1>4, <1>5, <1>6 DEF Next

LEMMA InitEstablishes == Init => IInv
<1> SUFFICES ASSUME Init PROVE IInv
  OBVIOUS
<1> USE FaultsOK DEF Init
<1>1. NoRow \in Row
  BY DEF NoRow, Row, RowStatus
<1>2. TypeOK
  BY <1>1, NoPollType DEF TypeOK, FaultsOK, Renders, PostSteps
<1>3. ASSUME NEW e \in Episodes
      PROVE  PostInv(e) /\ RowInv(e) /\ \A r \in Readers : PollInv(r, e)
  BY DEF PostInv, RowInv, PollInv, NoRow, NoPoll
<1> QED
  BY <1>2, <1>3 DEF IInv

LEMMA Inductive == Spec => []IInv
<1>1. IInv /\ [Next]_vars => IInv'
  BY StepHolds
<1> QED
  BY <1>1, InitEstablishes, PTL DEF Spec

-----------------------------------------------------------------------------
(* Settled rows *)

(* Reads find a row, and settle it, only when its POST is over; a read of  *)
(* a settled row has been overtaken.                                       *)
SettledInv(e) ==
    /\ row[e].job \/ row[e].status \in Terminal => post[e] = "over"
    /\ \A r \in Readers : poll[r][e].at # "idle" /\ row[e].status \in Terminal => poll[r][e].late

(* Until its POST is over no read asks about an episode. *)
LEMMA PostFirst ==
  ASSUME IInv, NEW e \in Episodes, SettledInv(e), post[e] # "over"
  PROVE  /\ ~row[e].job /\ row[e].status \notin Terminal
         /\ \A r \in Readers : poll[r][e].at = "idle"
  BY DEF IInv, PollInv, SettledInv

(* Where a step leaves row and POST alone, and reads where they were. *)
LEMMA SettledFrame ==
  ASSUME NEW e \in Episodes, SettledInv(e), row'[e] = row[e], post'[e] \in {post[e], "over"},
         \A r \in Readers : \/ poll'[r][e].at = "idle"
                            \/ row[e].status \in Live
                            \/ poll[r][e].at # "idle" /\ (poll[r][e].late => poll'[r][e].late)
  PROVE  SettledInv(e)'
<1>1. row'[e].job \/ row'[e].status \in Terminal => post'[e] = "over"
  BY DEF SettledInv
<1>2. ASSUME NEW r \in Readers, poll'[r][e].at # "idle", row'[e].status \in Terminal
      PROVE  poll'[r][e].late
  <2>1. row[e].status \in Terminal /\ row[e].status \notin Live
    BY <1>2 DEF Terminal, Live
  <2>2. poll[r][e].late
    BY <1>2, <2>1, Zenon DEF SettledInv
  <2> QED
    BY <1>2, <2>1, <2>2, Zenon
<1> QED
  BY <1>1, <1>2, Zenon DEF SettledInv

(* A write to the row by read r, and what it leaves. *)
LEMMA WriteSettles ==
  ASSUME IInv, NEW r \in Readers, NEW e \in Episodes, SettledInv(e), NEW st,
         poll[r][e].at # "idle", Reported(r, e, st), row'[e].status = st,
         row'[e].job = row[e].job, post' = post
  PROVE  SettledInv(e)' /\ poll'[r][e] = NoPoll
<1>1. \A x \in Readers : poll'[x][e] = IF x = r THEN NoPoll ELSE Outrun(poll[x][e], st)
  BY DEF Reported, IInv, TypeOK
<1>2. post'[e] = "over"
  BY PostFirst
<1>3. ASSUME NEW x \in Readers, poll'[x][e].at # "idle", st \in Terminal
      PROVE  poll'[x][e].late
  <2>1. x # r
    BY <1>1, <1>3 DEF NoPoll
  <2>2. poll[x][e] \in Poll
    BY DEF IInv, TypeOK
  <2> DEFINE l == poll[x][e].late \/ (poll[x][e] # NoPoll /\ st \in Terminal)
  <2>3. poll'[x][e] = [poll[x][e] EXCEPT !.late = l]
    BY <1>1, <2>1 DEF Outrun
  <2>4. poll[x][e].at # "idle"
    BY <1>3, <2>2, <2>1, <1>1, OutrunReads
  <2>5. poll[x][e] # NoPoll
    BY <2>4 DEF NoPoll
  <2>6. l
    BY <1>3, <2>5
  <2> HIDE DEF l
  <2> QED
    BY <2>2, <2>3, <2>6 DEF Poll
<1> QED
  BY <1>1, <1>2, <1>3, Zenon DEF SettledInv

(* One step, as the invariant and the property see it. *)
LEMMA StepSettles ==
  ASSUME IInv, \A e \in Episodes : SettledInv(e), [Next]_vars, NEW e \in Episodes
  PROVE  /\ SettledInv(e)'
         /\ row[e].status \in Terminal /\ row'[e].status # row[e].status
               => \E r \in Readers : poll[r][e].late /\ poll'[r][e] = NoPoll
<1> USE DEF IInv, TypeOK
<1>1. CASE CreateRows
  <2>1. post[e] = "none" /\ row'[e] = NewRow /\ poll' = poll
    BY <1>1 DEF CreateRows
  <2> QED
    BY <2>1, PostFirst DEF SettledInv, NewRow, Terminal
<1>2. ASSUME NEW x \in Episodes, PostStep(x) \/ PostFault(x) \/ UpstreamStep(x)
      PROVE  SettledInv(e)' /\ (row[e].status \in Terminal => row'[e] = row[e])
  <2>1. poll' = poll
    BY <1>2, PostElsewhere
  <2>2. CASE x # e
    <3>1. row'[e] = row[e] /\ post'[e] = post[e]
      BY <1>2, <2>2, PostElsewhere
    <3> QED
      BY <2>1, <3>1 DEF SettledInv
  <2>3. CASE x = e /\ (Submit(e) \/ SubmitFails(e) \/ SaveJobFails(e) \/ MarkSubmitFailedFails(e))
    <3>1. row' = row /\ post[e] # "over"
      BY <2>3 DEF Submit, SubmitFails, SaveJobFails, MarkSubmitFailedFails
    <3> QED
      BY <2>1, <3>1, PostFirst DEF SettledInv
  <2>4. CASE x = e /\ (SaveJob(e) \/ MarkSubmitFailed(e))
    <3>1. post[e] # "over" /\ post'[e] = "over"
      BY <2>4 DEF SaveJob, MarkSubmitFailed
    <3> QED
      BY <2>1, <3>1, PostFirst DEF SettledInv
  <2>5. CASE UpstreamStep(x)
    BY <2>1, <2>5 DEF UpstreamStep, Render, SettledInv
  <2> QED
    BY <1>2, <2>2, <2>3, <2>4, <2>5 DEF PostStep, PostFault
<1>3. ASSUME NEW r \in Readers, NEW x \in Episodes,
             Answer(r, x) \/ AnswerFails(r, x) \/ SaveAnswerFails(r, x) \/ GiveUpFails(r, x)
      PROVE  SettledInv(e)' /\ row' = row
  <2>1. row' = row /\ post' = post
    BY <1>3 DEF Answer, AnswerFails, SaveAnswerFails, GiveUpFails
  <2>2. ASSUME NEW y \in Readers
        PROVE  \/ poll'[y][e].at = "idle"
               \/ poll[y][e].at # "idle" /\ poll'[y][e].late = poll[y][e].late
               \/ poll'[y][e] = poll[y][e]
    <3>1. poll[y][e] \in Poll
      OBVIOUS
    <3>2. CASE y = r /\ e = x
      <4>1. CASE Answer(r, e)
        BY <3>2, <4>1 DEF Answer, Polled, NoPoll
      <4>2. CASE AnswerFails(r, e) \/ SaveAnswerFails(r, e)
        <5>1. poll[r][e].at # "idle" /\ poll' = [poll EXCEPT ![r][e].at = "giveup"]
          BY <4>2 DEF AnswerFails, SaveAnswerFails
        <5>2. poll'[r][e] = [poll[r][e] EXCEPT !.at = "giveup"]
          BY <5>1
        <5>3. poll'[r][e].late = poll[r][e].late
          BY <3>1, <3>2, <5>2 DEF Poll
        <5> QED
          BY <3>2, <5>1, <5>3, Zenon
      <4>3. CASE GiveUpFails(r, e)
        BY <3>2, <4>3 DEF GiveUpFails, Polled, NoPoll
      <4> QED
        BY <1>3, <3>2, <4>1, <4>2, <4>3
    <3>3. CASE ~(y = r /\ e = x)
      BY <1>3, <3>3 DEF Answer, AnswerFails, SaveAnswerFails, GiveUpFails, Polled
    <3> QED
      BY <3>2, <3>3
  <2>3. \A y \in Readers : \/ poll'[y][e].at = "idle"
                           \/ row[e].status \in Live
                           \/ poll[y][e].at # "idle" /\ (poll[y][e].late => poll'[y][e].late)
    BY <2>2, Zenon
  <2> QED
    BY <2>1, <2>3, SettledFrame
<1>4. ASSUME NEW r \in Readers, NEW x \in Episodes, SaveAnswer(r, x) \/ GiveUp(r, x)
      PROVE  /\ SettledInv(e)'
             /\ row[e].status \in Terminal /\ row'[e].status # row[e].status
                   => \E y \in Readers : poll[y][e].late /\ poll'[y][e] = NoPoll
  <2>1. PICK st \in RowStatus : /\ Reported(r, x, st) /\ row'[x].status = st
                                /\ row'[x].job = row[x].job
                                /\ \A y \in Episodes \ {x} : row'[y] = row[y]
    <3>1. CASE SaveAnswer(r, x)
      <4>1. Reported(r, x, poll[r][x].answer)
        BY <3>1, Zenon DEF SaveAnswer
      <4>2. row'[x].status = poll[r][x].answer /\ row'[x].job = row[x].job
        BY <3>1, Zenon DEF SaveAnswer
      <4>3. \A y \in Episodes \ {x} : row'[y] = row[y]
        BY <3>1 DEF SaveAnswer
      <4>4. poll[r][x].answer \in RowStatus
        BY DEF Poll, RowStatus
      <4> QED
        BY <4>1, <4>2, <4>3, <4>4
    <3>2. CASE GiveUp(r, x)
      <4>1. Reported(r, x, "failed") /\ "failed" \in RowStatus
        BY <3>2 DEF GiveUp, RowStatus, Terminal
      <4>2. row[x] \in Row
        OBVIOUS
      <4>3. row'[x].status = "failed" /\ row'[x].job = row[x].job
        BY <3>2, <4>2 DEF GiveUp, SetStatus, Row
      <4>4. \A y \in Episodes \ {x} : row'[y] = row[y]
        BY <3>2 DEF GiveUp, SetStatus
      <4> QED
        BY <4>1, <4>3, <4>4
    <3> QED
      BY <1>4, <3>1, <3>2
  <2>2. post' = post /\ poll[r][x].at # "idle"
    BY <1>4 DEF SaveAnswer, GiveUp
  <2>3. CASE x = e
    <3>1. SettledInv(e)' /\ poll'[r][e] = NoPoll
      BY <2>1, <2>2, <2>3, WriteSettles
    <3>2. row[e].status \in Terminal => poll[r][e].late
      BY <2>2, <2>3, Zenon DEF SettledInv
    <3> QED
      BY <3>1, <3>2, Zenon
  <2>4. CASE x # e
    <3>1. \A y \in Readers : poll'[y][e] = poll[y][e]
      BY <2>1, <2>4 DEF Reported
    <3>2. row'[e] = row[e]
      BY <2>1, <2>4
    <3> QED
      BY <2>2, <3>1, <3>2, Zenon DEF SettledInv
  <2> QED
    BY <2>3, <2>4
<1>5. ASSUME NEW r \in Readers, NEW E \in SUBSET Episodes, StartGet(r, E)
      PROVE  SettledInv(e)' /\ row' = row
  <2>1. row' = row /\ post' = post
    BY <1>5 DEF StartGet
  <2>2. ASSUME NEW y \in Readers
        PROVE  \/ poll'[y][e].at = "idle"
               \/ row[e].status \in Live
               \/ poll'[y][e] = poll[y][e]
    BY <1>5 DEF StartGet, Pollable, NoPoll
  <2>3. \A y \in Readers : \/ poll'[y][e].at = "idle"
                           \/ row[e].status \in Live
                           \/ poll[y][e].at # "idle" /\ (poll[y][e].late => poll'[y][e].late)
    BY <2>2, Zenon
  <2> QED
    BY <2>1, <2>3, SettledFrame
<1>6. CASE Restart
  <2>1. row' = row /\ post'[e] \in {post[e], "over"} /\ \A r \in Readers : poll'[r][e] = NoPoll
    BY <1>6 DEF Restart
  <2> QED
    BY <2>1 DEF SettledInv, NoPoll
<1>7. CASE UNCHANGED vars
  BY <1>7, Zenon DEF vars, SettledInv
<1> QED
  BY <1>1, <1>2, <1>3, <1>4, <1>5, <1>6, <1>7, Zenon DEF Next, PollStep, PollFault

-----------------------------------------------------------------------------

(* Every reachable state is well typed: an answer the read can store was   *)
(* given for a render that exists (simulations.ts:305-345).                *)
THEOREM EpisodeTypes == Spec => []TypeOK
<1>1. IInv => TypeOK
  BY DEF IInv
<1> QED
  BY <1>1, Inductive, PTL

(* An episode shows as done only if its render is, and with its video,     *)
(* however late an answer is written (simulations.ts:318-345).             *)
THEOREM DoneMeansDone == Spec => []DoneIsGenuine
<1>1. IInv => DoneIsGenuine
  BY DEF IInv, RowInv, DoneIsGenuine
<1> QED
  BY <1>1, Inductive, PTL

(* A failure marks only the episode it met (simulations.ts:174).           *)
THEOREM FailuresAreOwn == Spec => []FailureIsOwn
<1>1. IInv => FailureIsOwn
  BY DEF IInv, RowInv, FailureIsOwn
<1> QED
  BY <1>1, Inductive, PTL

(* A render is lost to its row only by a failed call or a restart between  *)
(* the submit and the save of its id (simulations.ts:455-476).             *)
THEOREM RendersKept == Spec => []RendersAreTracked
<1>1. IInv => RendersAreTracked
  BY DEF IInv, RowInv, RendersAreTracked
<1> QED
  BY <1>1, Inductive, PTL

(* A settled row moves only under a read that asked about it before        *)
(* another one settled it (simulations.ts:305-345).                        *)
THEOREM SettledMovesLate == Spec => SettledStays
<1> DEFINE SInv == IInv /\ \A e \in Episodes : SettledInv(e)
<1>1. Init => SInv
  <2> SUFFICES ASSUME Init PROVE SInv
    OBVIOUS
  <2>1. \A e \in Episodes : SettledInv(e)
    BY DEF Init, SettledInv, NoRow, NoPoll, Terminal
  <2> QED
    BY <2>1, InitEstablishes
<1>2. SInv /\ [Next]_vars => SInv'
  BY StepHolds, StepSettles
<1>3. SInv /\ [Next]_vars
        => [\A e \in Episodes :
              row[e].status \in Terminal /\ row'[e].status # row[e].status
                => \E r \in Readers : poll[r][e].late /\ poll'[r][e] = NoPoll]_vars
  BY StepSettles
<1> HIDE DEF SInv
<1> QED
  BY <1>1, <1>2, <1>3, PTL DEF Spec, SettledStays
-----------------------------------------------------------------------------
(* The life of an episode *)

(* Until the POST saves the job the row is as it was inserted; an answer   *)
(* to be written says what the render was when it was given, and so what   *)
(* the render is or has been.                                              *)
LifeInv(e) ==
    /\ post[e] = "none" => row[e] = NoRow
    /\ post[e] \in {"submit", "save", "giveup"} => row[e] = NewRow
    /\ post[e] = "over" => row[e] # NoRow
    /\ \A r \in Readers : poll[r][e].at = "save" => poll[r][e].answer \in Life!Been(upstream[e])

(* What a render has been it stays. *)
LEMMA BeenGrows ==
  ASSUME NEW u, NEW v, <<u, v>> \in Life!Follows
  PROVE  Life!Been(u) \subseteq Life!Been(v)
  BY DEF Life!Follows, Life!Been

LEMMA AnswerHasBeen ==
  ASSUME NEW u \in Renders, u # "none"
  PROVE  Normalized(u) \in Life!Been(u)
  BY DEF Renders, Normalized, Life!Been

LEMMA RenderAdvances ==
  ASSUME NEW e \in Episodes, UpstreamStep(e)
  PROVE  \E u \in {"running", "done", "failed"} :
            <<upstream[e], u>> \in Life!Follows /\ upstream' = [upstream EXCEPT ![e] = u]
  BY DEF UpstreamStep, Render, Life!Follows

(* Where a step leaves row and POST alone and gives no answer. *)
LEMMA LifeFrame ==
  ASSUME NEW e \in Episodes, LifeInv(e), row'[e] = row[e],
         post'[e] = post[e] \/ (post[e] # "none" /\ post'[e] = "over"),
         Life!Been(upstream[e]) \subseteq Life!Been(upstream'[e]),
         post[e] \in PostSteps,
         \A r \in Readers : \/ poll'[r][e].at # "save"
                            \/ /\ poll'[r][e].at = poll[r][e].at
                               /\ poll'[r][e].answer = poll[r][e].answer
  PROVE  LifeInv(e)'
<1>1. NewRow # NoRow
  BY DEF NewRow, NoRow
<1> QED
  BY <1>1 DEF LifeInv, PostSteps
(* The POST and the render of an episode, as the invariant sees them ... *)
LEMMA PostKeepsLife ==
  ASSUME IInv, \A x \in Episodes : LifeInv(x),
         NEW e \in Episodes, PostStep(e) \/ PostFault(e) \/ UpstreamStep(e), NEW x \in Episodes
  PROVE  LifeInv(x)'
<1>1. poll' = poll /\ post[x] \in PostSteps
  BY PostElsewhere DEF IInv, TypeOK
<1>2. CASE x # e
  BY <1>1, <1>2, PostElsewhere, LifeFrame
<1>3. CASE Submit(e) /\ x = e
  <2>1. row' = row /\ post[e] = "submit" /\ post'[e] = "save" /\ upstream[e] = "none"
    BY <1>3 DEF Submit, IInv, TypeOK, PostInv
  <2>2. \A r \in Readers : poll[r][e].at # "save"
    BY <2>1 DEF IInv, PollInv, PostInv
  <2> QED
    BY <1>1, <1>3, <2>1, <2>2 DEF LifeInv
<1>4. CASE SubmitFails(e) /\ x = e
  <2>1. row' = row /\ post[e] = "submit" /\ post'[e] = "giveup"
    BY <1>4 DEF SubmitFails, IInv, TypeOK
  <2>2. \A r \in Readers : poll[r][e].at # "save"
    BY <2>1 DEF IInv, PollInv, PostInv
  <2> QED
    BY <1>1, <1>4, <2>1, <2>2 DEF LifeInv
<1>5. CASE SaveJob(e) /\ x = e
  <2>1. post'[e] = "over" /\ row'[e].status = "running" /\ upstream' = upstream
    BY <1>5 DEF SaveJob, IInv, TypeOK
  <2> QED
    BY <1>1, <1>5, <2>1 DEF LifeInv, NoRow
<1>6. CASE SaveJobFails(e) /\ x = e
  <2>1. row' = row /\ upstream' = upstream /\ post[e] = "save" /\ post'[e] = "giveup"
    BY <1>6 DEF SaveJobFails, IInv, TypeOK
  <2> QED
    BY <1>1, <1>6, <2>1 DEF LifeInv
<1>7. CASE MarkSubmitFailed(e) /\ x = e
  <2>1. post'[e] = "over" /\ upstream' = upstream /\ row[e] \in Row
    BY <1>7 DEF MarkSubmitFailed, IInv, TypeOK
  <2>2. row'[e].status = "failed"
    BY <1>7, <2>1 DEF MarkSubmitFailed, SetStatus, IInv, TypeOK, Row
  <2> QED
    BY <1>1, <1>7, <2>1, <2>2 DEF LifeInv, NoRow
<1>8. CASE MarkSubmitFailedFails(e) /\ x = e
  <2>1. /\ row' = row /\ upstream' = upstream
        /\ post[e] # "none" /\ post'[e] = "over"
    BY <1>8 DEF MarkSubmitFailedFails, IInv, TypeOK
  <2> QED
    BY <1>1, <1>8, <2>1, LifeFrame
<1>9. CASE UpstreamStep(e) /\ x = e
  <2>1. PICK u \in {"running", "done", "failed"} :
           <<upstream[e], u>> \in Life!Follows /\ upstream' = [upstream EXCEPT ![e] = u]
    BY <1>9, RenderAdvances
  <2>2. upstream'[e] = u
    BY <2>1 DEF IInv, TypeOK
  <2>3. Life!Been(upstream[e]) \subseteq Life!Been(upstream'[e])
    BY <2>1, <2>2, BeenGrows
  <2>4. row' = row /\ post' = post
    BY <1>9 DEF UpstreamStep, Render
  <2> QED
    BY <1>1, <1>9, <2>3, <2>4, LifeFrame
<1> QED
  BY <1>2, <1>3, <1>4, <1>5, <1>6, <1>7, <1>8, <1>9 DEF PostStep, PostFault

(* ... and as the life of the episode. *)
LEMMA PostLives ==
  ASSUME IInv, \A x \in Episodes : LifeInv(x),
         NEW e \in Episodes, PostStep(e) \/ PostFault(e) \/ UpstreamStep(e)
  PROVE  [Life!Next]_(Life!vars)
<1>1. NewRow = Life!New /\ NoRow = Life!Absent /\ NewRow # NoRow
  BY DEF NewRow, NoRow, Life!New, Life!Absent
<1>2. CASE Submit(e)
  <2>1. Life!Queue(e)
    BY <1>1, <1>2 DEF Submit, Life!Queue, IInv, PostInv, LifeInv
  <2> QED
    BY <2>1 DEF Life!Next
<1>3. ASSUME post[e] \in {"submit", "save"}, row' = row, upstream' = upstream, blamed' = blamed \cup {e}
      PROVE  Life!Trouble
  <2>1. {e} \in SUBSET {x \in Episodes : row[x] # Life!Absent}
    BY <1>1, <1>3 DEF LifeInv
  <2> QED
    BY <1>3, <2>1 DEF Life!Trouble
<1>4. CASE SubmitFails(e)
  <2>1. post[e] = "submit" /\ row' = row /\ blamed' = blamed \cup {e}
    BY <1>4 DEF SubmitFails
  <2>2. row[e] = Life!New /\ upstream[e] = "none" /\ upstream \in [Episodes -> Renders]
    BY <1>1, <2>1 DEF LifeInv, IInv, TypeOK, PostInv
  <2>3. PICK u \in {"none", "queued"} : upstream' = [upstream EXCEPT ![e] = u]
    BY <1>4 DEF SubmitFails
  <2>4. CASE u = "queued"
    <3>1. Life!Queue(e)
      BY <2>1, <2>2, <2>3, <2>4 DEF Life!Queue
    <3> QED
      BY <3>1 DEF Life!Next
  <2>5. CASE u = "none"
    <3>1. upstream' = upstream
      BY <2>2, <2>3, <2>5
    <3> QED
      BY <1>3, <2>1, <3>1 DEF Life!Next
  <2> QED
    BY <2>3, <2>4, <2>5
<1>5. CASE SaveJob(e)
  <2>1. row[e] = Life!New /\ upstream[e] # "none"
    BY <1>1, <1>5 DEF SaveJob, LifeInv, IInv, PostInv
  <2>2. row[e].video = FALSE
    BY <2>1 DEF Life!New
  <2>3. row' = [row EXCEPT ![e] = [status |-> "running", job |-> TRUE, video |-> FALSE]]
    BY <1>5, <2>2, Zenon DEF SaveJob
  <2>4. Life!Attach(e)
    BY <1>5, <2>1, <2>3 DEF SaveJob, Life!Attach
  <2> QED
    BY <2>4 DEF Life!Next
<1>6. CASE SaveJobFails(e)
  BY <1>3, <1>6 DEF SaveJobFails, Life!Next
<1>7. CASE MarkSubmitFailed(e)
  <2>1. e \in blamed
    BY <1>7 DEF MarkSubmitFailed, IInv, PostInv
  <2>2. Life!Fail(e)
    BY <1>7, <2>1 DEF MarkSubmitFailed, SetStatus, Life!Fail
  <2> QED
    BY <2>2 DEF Life!Next
<1>8. CASE MarkSubmitFailedFails(e)
  BY <1>8 DEF MarkSubmitFailedFails, Life!vars
<1>9. CASE UpstreamStep(e)
  <2>1. row' = row /\ blamed' = blamed
    BY <1>9 DEF UpstreamStep, Render
  <2>2. Life!Advance(e)
    BY <1>9, <2>1, RenderAdvances DEF Life!Advance
  <2> QED
    BY <2>2 DEF Life!Next
<1> QED
  BY <1>2, <1>4, <1>5, <1>6, <1>7, <1>8, <1>9 DEF PostStep, PostFault
(* A step of a read, as the invariant sees it ... *)
LEMMA ReadKeepsLife ==
  ASSUME IInv, \A x \in Episodes : LifeInv(x),
         NEW r \in Readers, NEW e \in Episodes, PollStep(r, e) \/ PollFault(r, e),
         NEW x \in Episodes
  PROVE  LifeInv(x)'
<1>1. /\ upstream' = upstream /\ post' = post /\ post[x] \in PostSteps
      /\ \A y \in Readers : poll[y][x] \in Poll
  BY DEF PollStep, PollFault, Answer, SaveAnswer, GiveUp, AnswerFails, SaveAnswerFails,
         GiveUpFails, IInv, TypeOK
<1>2. CASE SaveAnswer(r, e) \/ GiveUp(r, e)
  <2>1. /\ poll[r][e].at # "idle"
        /\ \A y \in Episodes \ {e} : row'[y] = row[y]
        /\ row[e].job /\ row'[e].job = row[e].job
    <3>1. poll[r][e].at # "idle" /\ row[e].job /\ row[e] \in Row
      BY <1>2 DEF SaveAnswer, GiveUp, IInv, PollInv, TypeOK
    <3>2. CASE SaveAnswer(r, e)
      <4>1. \A y \in Episodes \ {e} : row'[y] = row[y]
        BY <3>2, Zenon DEF SaveAnswer, IInv, TypeOK
      <4>2. row'[e].job = row[e].job
        BY <3>2, Zenon DEF SaveAnswer, IInv, TypeOK
      <4> QED
        BY <3>1, <4>1, <4>2
    <3>3. CASE GiveUp(r, e)
      <4>1. row'[e].job = row[e].job /\ \A y \in Episodes \ {e} : row'[y] = row[y]
        BY <3>1, <3>3 DEF GiveUp, SetStatus, IInv, TypeOK, Row
      <4> QED
        BY <3>1, <4>1
    <3> QED
      BY <1>2, <3>2, <3>3
  <2>2. \A y \in Readers : \/ poll'[y][x].at # "save"
                           \/ /\ poll'[y][x].at = poll[y][x].at
                              /\ poll'[y][x].answer = poll[y][x].answer
    BY <1>2, ReportedReads DEF SaveAnswer, GiveUp, IInv, NoPoll
  <2>3. CASE x # e
    BY <1>1, <2>1, <2>2, <2>3, LifeFrame
  <2>4. CASE x = e
    <3>0. ~NewRow.job /\ ~NoRow.job
      BY DEF NewRow, NoRow
    <3>1. row[e] # NewRow /\ row[e] # NoRow /\ row'[e] # NoRow
      BY <2>1, <3>0, Zenon
    <3>2. post[e] = "over"
      BY <1>1, <2>4, <3>1 DEF LifeInv, PostSteps
    <3> QED
      BY <1>1, <2>2, <2>4, <3>1, <3>2 DEF LifeInv
  <2> QED
    BY <2>3, <2>4
<1>3. CASE AnswerFails(r, e) \/ SaveAnswerFails(r, e) \/ GiveUpFails(r, e)
  <2>1. row' = row /\ (poll' = [poll EXCEPT ![r][e].at = "giveup"] \/ Polled(r, e))
    BY <1>3 DEF AnswerFails, SaveAnswerFails, GiveUpFails
  <2>2. \A y \in Readers : \/ poll'[y][x].at # "save"
                           \/ /\ poll'[y][x].at = poll[y][x].at
                              /\ poll'[y][x].answer = poll[y][x].answer
    <3>1. ASSUME NEW y \in Readers, poll' = [poll EXCEPT ![r][e].at = "giveup"]
          PROVE  poll'[y][x].at = "giveup" \/ poll'[y][x] = poll[y][x]
      BY <1>1, <3>1 DEF IInv, TypeOK, Poll
    <3>2. ASSUME NEW y \in Readers, Polled(r, e)
          PROVE  poll'[y][x] = NoPoll \/ poll'[y][x] = poll[y][x]
      BY <3>2 DEF Polled, IInv, TypeOK
    <3>3. NoPoll.at # "save"
      BY DEF NoPoll
    <3> QED
      BY <2>1, <3>1, <3>2, <3>3, Zenon
  <2> QED
    BY <1>1, <2>1, <2>2, LifeFrame
<1>4. CASE Answer(r, e)
  <2>1. row' = row
    BY <1>4 DEF Answer
  <2>2. CASE x = e /\ AnswerIsNews(r, e)
    <3>1. /\ poll'[r][e].answer = Normalized(upstream[e])
          /\ \A y \in Readers \ {r} : poll'[y][e] = poll[y][e]
      BY <1>4, <2>2 DEF Answer, IInv, TypeOK
    <3>2. upstream[e] \in Renders /\ upstream[e] # "none"
      BY <1>4 DEF Answer, IInv, TypeOK, PollInv, PostInv
    <3>3. Normalized(upstream[e]) \in Life!Been(upstream[e])
      BY <3>2, AnswerHasBeen
    <3> QED
      BY <1>1, <2>1, <2>2, <3>1, <3>3 DEF LifeInv
  <2>3. CASE ~(x = e /\ AnswerIsNews(r, e))
    <3>1. \A y \in Readers : poll'[y][x] \in {poll[y][x], NoPoll}
      BY <1>4, <2>3 DEF Answer, Polled, IInv, TypeOK
    <3>2. NoPoll.at # "save"
      BY DEF NoPoll
    <3> QED
      BY <1>1, <2>1, <3>1, <3>2, LifeFrame
  <2> QED
    BY <2>2, <2>3
<1> QED
  BY <1>2, <1>3, <1>4 DEF PollStep, PollFault

(* ... and as the life of the episode. *)
LEMMA ReadLives ==
  ASSUME IInv, \A x \in Episodes : LifeInv(x),
         NEW r \in Readers, NEW e \in Episodes, PollStep(r, e) \/ PollFault(r, e)
  PROVE  [Life!Next]_(Life!vars)
<1>1. CASE Answer(r, e) \/ GiveUpFails(r, e)
  BY <1>1 DEF Answer, GiveUpFails, Life!vars
<1>2. CASE AnswerFails(r, e) \/ SaveAnswerFails(r, e)
  <2>1. row[e].job
    BY <1>2 DEF AnswerFails, SaveAnswerFails, IInv, PollInv
  <2>2. {e} \in SUBSET {x \in Episodes : row[x] # Life!Absent}
    BY <2>1 DEF Life!Absent
  <2>3. Life!Trouble
    BY <1>2, <2>2 DEF AnswerFails, SaveAnswerFails, Life!Trouble
  <2> QED
    BY <2>3 DEF Life!Next
<1>3. CASE SaveAnswer(r, e)
  <2> DEFINE a == poll[r][e].answer
  <2>1. row[e].job = TRUE
    <3>1. row[e].job /\ row[e] \in Row
      BY <1>3 DEF SaveAnswer, IInv, PollInv, TypeOK
    <3> QED
      BY <3>1 DEF Row
  <2>2. a \in Life!Been(upstream[e])
    BY <1>3 DEF SaveAnswer, LifeInv
  <2>3. row' = [row EXCEPT ![e] = [status |-> a, job |-> TRUE,
                                   video |-> row[e].video \/ a = "done"]]
    BY <1>3, <2>1, Zenon DEF SaveAnswer
  <2>4. UNCHANGED <<upstream, blamed>>
    BY <1>3 DEF SaveAnswer
  <2> HIDE DEF a
  <2>5. Life!Learn(e)
    BY <2>1, <2>2, <2>3, <2>4, Zenon DEF Life!Learn
  <2> QED
    BY <2>5 DEF Life!Next
<1>4. CASE GiveUp(r, e)
  <2>1. e \in blamed
    BY <1>4 DEF GiveUp, IInv, PollInv
  <2>2. Life!Fail(e)
    BY <1>4, <2>1 DEF GiveUp, SetStatus, Life!Fail
  <2> QED
    BY <2>2 DEF Life!Next
<1> QED
  BY <1>1, <1>2, <1>3, <1>4 DEF PollStep, PollFault

LEMMA StepLives ==
  ASSUME IInv, \A e \in Episodes : LifeInv(e), [Next]_vars
  PROVE  (\A e \in Episodes : LifeInv(e)') /\ [Life!Next]_(Life!vars)
<1>1. CASE CreateRows
  <2>1. row = [e \in Episodes |-> Life!Absent]
    BY <1>1 DEF CreateRows, LifeInv, IInv, TypeOK, NoRow, Life!Absent
  <2>2. Life!Create
    BY <1>1, <2>1 DEF CreateRows, NewRow, Life!Create, Life!New
  <2>3. ASSUME NEW e \in Episodes PROVE LifeInv(e)'
    BY <1>1 DEF CreateRows, LifeInv
  <2> QED
    BY <2>2, <2>3 DEF Life!Next
<1>2. ASSUME NEW e \in Episodes, PostStep(e) \/ PostFault(e) \/ UpstreamStep(e)
      PROVE  (\A x \in Episodes : LifeInv(x)') /\ [Life!Next]_(Life!vars)
  BY <1>2, PostKeepsLife, PostLives
<1>3. ASSUME NEW r \in Readers, NEW e \in Episodes, PollStep(r, e) \/ PollFault(r, e)
      PROVE  (\A x \in Episodes : LifeInv(x)') /\ [Life!Next]_(Life!vars)
  BY <1>3, ReadKeepsLife, ReadLives
<1>4. ASSUME NEW r \in Readers, NEW E \in SUBSET Episodes, StartGet(r, E)
      PROVE  (\A x \in Episodes : LifeInv(x)') /\ [Life!Next]_(Life!vars)
  <2>1. row' = row /\ upstream' = upstream /\ post' = post /\ blamed' = blamed
    BY <1>4 DEF StartGet
  <2>2. ASSUME NEW x \in Episodes, NEW y \in Readers
        PROVE  poll'[y][x].at # "save" \/ poll'[y][x] = poll[y][x]
    BY <1>4 DEF StartGet, NoPoll, IInv, TypeOK
  <2>3. ASSUME NEW x \in Episodes PROVE LifeInv(x)'
    BY <2>1, <2>2 DEF LifeInv
  <2> QED
    BY <2>1, <2>3 DEF Life!vars
<1>5. CASE Restart
  <2> DEFINE E == {e \in Episodes : post[e] \in {"submit", "save"}}
  <2>1. E \in SUBSET {e \in Episodes : row[e] # Life!Absent}
    BY DEF LifeInv, NewRow, Life!Absent
  <2>2. Life!Trouble
    BY <1>5, <2>1 DEF Restart, Life!Trouble
  <2>3. ASSUME NEW e \in Episodes PROVE LifeInv(e)'
    <3>1. /\ row'[e] = row[e] /\ upstream' = upstream
          /\ post'[e] = IF post[e] = "none" THEN "none" ELSE "over"
          /\ \A y \in Readers : poll'[y][e].at # "save"
      BY <1>5 DEF Restart, NoPoll
    <3>2. post[e] \in PostSteps
      BY DEF IInv, TypeOK
    <3> QED
      BY <3>1, <3>2, LifeFrame
  <2> QED
    BY <2>2, <2>3 DEF Life!Next
<1>6. CASE UNCHANGED vars
  BY <1>6 DEF vars, LifeInv, Life!vars
<1> QED
  BY <1>1, <1>2, <1>3, <1>4, <1>5, <1>6 DEF Next

(* Each episode lives the life of its render: the handlers, their          *)
(* snapshots and the late answers implement EpisodeLife, for any episodes, *)
(* overlapping reads and faults (simulations.ts:174, 305-356).             *)
THEOREM ImplementsEpisodeLife == Spec => LivesItsRender
<1> DEFINE LInv == IInv /\ \A e \in Episodes : LifeInv(e)
<1>1. Init => LInv /\ Life!Init
  <2> SUFFICES ASSUME Init PROVE LInv /\ Life!Init
    OBVIOUS
  <2>1. \A e \in Episodes : LifeInv(e)
    <3>1. ASSUME NEW e \in Episodes, NEW r \in Readers
          PROVE  poll[r][e].at # "save"
      BY DEF Init, NoPoll
    <3>2. \A e \in Episodes : post[e] = "none" /\ row[e] = NoRow
      BY Zenon DEF Init
    <3> QED
      BY <3>1, <3>2, Zenon DEF LifeInv
  <2>2. Life!Init
    BY DEF Init, Life!Init, NoRow, Life!Absent
  <2> QED
    BY <2>1, <2>2, InitEstablishes
<1>2. LInv /\ [Next]_vars => LInv' /\ [Life!Next]_(Life!vars)
  BY StepHolds, StepLives
<1> HIDE DEF LInv
<1> QED
  BY <1>1, <1>2, PTL DEF Spec, LivesItsRender, Life!Spec
=============================================================================
