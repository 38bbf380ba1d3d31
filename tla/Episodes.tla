------------------------------ MODULE Episodes ------------------------------
(***************************************************************************)
(* The episodes of one simulation, from POST /v1/simulations to their last *)
(* status.                                                                 *)
(*                                                                         *)
(* POST inserts all episode rows in one transaction, then submits one      *)
(* render per row to the oneclick service, concurrently and outside the    *)
(* transaction.  Nothing watches the renders: GET /v1/simulations,         *)
(* /v1/simulations/:slug and /v1/episodes/:id read the rows, ask oneclick  *)
(* about the unfinished ones and write the answers back.  Reads overlap,   *)
(* and each writes what it learned against the snapshot it started from.   *)
(***************************************************************************)
EXTENDS Naturals

CONSTANTS
    Episodes,   \* rows of the simulation
    Readers,    \* GET requests being served at one time
    MaxFaults   \* bound: failed calls (to oneclick or the database), restarts

ASSUME FaultsOK == MaxFaults \in Nat

VARIABLES
    row,        \* the episodes table
    upstream,   \* what oneclick is doing with each episode's render
    post,       \* where the POST handler is with each episode
    poll,       \* where each GET is with each episode
    faults,     \* faults so far
    blamed      \* history: episodes whose own call failed or was cut off

vars == <<row, upstream, post, poll, faults, blamed>>

Live == {"pending", "running"}
Terminal == {"done", "failed"}
RowStatus == Live \cup Terminal \cup {"absent"}

(* video_url, and oneclick_job_id, set or null *)
Row == [status: RowStatus, job: BOOLEAN, video: BOOLEAN]

Renders == {"none", "queued", "running", "done", "failed"}

PostSteps == {"none", "submit", "save", "giveup", "over"}

(* The snapshot's status and, once oneclick answered, the answer.  late is  *)
(* history: since the snapshot another read has settled the row.            *)
Poll == [at: {"idle", "ask", "save", "giveup"}, seen: Live,
         answer: Live \cup Terminal, late: BOOLEAN]

NoPoll == [at |-> "idle", seen |-> "pending", answer |-> "pending", late |-> FALSE]

NoRow == [status |-> "absent", job |-> FALSE, video |-> FALSE]

NewRow == [status |-> "pending", job |-> FALSE, video |-> FALSE]

Fault == faults < MaxFaults /\ faults' = faults + 1

SetStatus(e, st) == row' = [row EXCEPT ![e].status = st]

-----------------------------------------------------------------------------
(* POST /v1/simulations *)

(* the transaction: all rows or none *)
CreateRows ==
    /\ \A e \in Episodes : post[e] = "none"
    /\ row' = [e \in Episodes |-> NewRow]
    /\ post' = [e \in Episodes |-> "submit"]
    /\ UNCHANGED <<upstream, poll, faults, blamed>>

Submit(e) ==
    /\ post[e] = "submit"
    /\ upstream' = [upstream EXCEPT ![e] = "queued"]
    /\ post' = [post EXCEPT ![e] = "save"]
    /\ UNCHANGED <<row, poll, faults, blamed>>

(* the request or its answer is lost: oneclick may have the job *)
SubmitFails(e) ==
    /\ post[e] = "submit"
    /\ Fault
    /\ \E u \in {"none", "queued"} : upstream' = [upstream EXCEPT ![e] = u]
    /\ post' = [post EXCEPT ![e] = "giveup"]
    /\ blamed' = blamed \cup {e}
    /\ UNCHANGED <<row, poll>>

(* seeded fault: the job id is not stored *)
SaveJobNoId(e) ==
    /\ post[e] = "save"
    /\ SetStatus(e, "running")
    /\ post' = [post EXCEPT ![e] = "over"]
    /\ UNCHANGED <<upstream, poll, faults, blamed>>

SaveJob(e) ==
    /\ post[e] = "save"
    /\ row' = [row EXCEPT ![e] =
                 [status |-> "running", job |-> TRUE, video |-> row[e].video]]
    /\ post' = [post EXCEPT ![e] = "over"]
    /\ UNCHANGED <<upstream, poll, faults, blamed>>

SaveJobFails(e) ==
    /\ post[e] = "save"
    /\ Fault
    /\ post' = [post EXCEPT ![e] = "giveup"]
    /\ blamed' = blamed \cup {e}
    /\ UNCHANGED <<row, upstream, poll>>

MarkSubmitFailed(e) ==
    /\ post[e] = "giveup"
    /\ SetStatus(e, "failed")
    /\ post' = [post EXCEPT ![e] = "over"]
    /\ UNCHANGED <<upstream, poll, faults, blamed>>

(* the same fault as the one before: the bound counts it once *)
MarkSubmitFailedFails(e) ==
    /\ post[e] = "giveup"
    /\ post' = [post EXCEPT ![e] = "over"]
    /\ UNCHANGED <<row, upstream, poll, faults, blamed>>

-----------------------------------------------------------------------------
(* The oneclick service (external): a job is queued, runs and ends.  Its   *)
(* answer carries a video_url when, and only when, it is done.             *)

Render(e, from, to) ==
    /\ upstream[e] = from
    /\ upstream' = [upstream EXCEPT ![e] = to]
    /\ UNCHANGED <<row, post, poll, faults, blamed>>

UpstreamStep(e) ==
    \/ Render(e, "queued", "running")
    \/ Render(e, "queued", "failed")
    \/ Render(e, "running", "done")
    \/ Render(e, "running", "failed")

(* seeded fault: oneclick's word is stored as it is *)
NormalizedRaw(u) == u

(* seeded fault: a failed render falls into the default case *)
NormalizedNoFailure(u) ==
    IF u = "queued" THEN "pending" ELSE IF u = "failed" THEN "running" ELSE u

(* normalizeStatus *)
Normalized(u) == IF u = "queued" THEN "pending" ELSE u

-----------------------------------------------------------------------------
(* GET: read the rows, ask about the unfinished ones, write the answers *)

Idle(r) == \A e \in Episodes : poll[r][e].at = "idle"

(* seeded fault: finished rows are asked about as well *)
PollableAlways(e) == row[e].job

(* seeded fault: only running rows are asked about *)
PollableRunning(e) == row[e].status = "running" /\ row[e].job

Pollable(e) == row[e].status \in Live /\ row[e].job

(* E is the episode of GET /v1/episodes/:id, or all of them *)
StartGet(r, E) ==
    /\ Idle(r)
    /\ \E e \in E : Pollable(e)
    /\ poll' = [poll EXCEPT ![r] = [e \in Episodes |->
                  IF e \in E /\ Pollable(e)
                  THEN [at |-> "ask", seen |-> row[e].status,
                        answer |-> "pending", late |-> FALSE]
                  ELSE NoPoll]]
    /\ UNCHANGED <<row, upstream, post, faults, blamed>>

Polled(r, e) == poll' = [poll EXCEPT ![r][e] = NoPoll]

(* read p, when another has left the row in status st *)
Outrun(p, st) == [p EXCEPT !.late = p.late \/ (p # NoPoll /\ st \in Terminal)]

(* the read is over for e, and has left the row in status st *)
Reported(r, e, st) ==
    poll' = [x \in Readers |-> [poll[x] EXCEPT ![e] =
               IF x = r THEN NoPoll
               ELSE Outrun(poll[x][e], st)]]

(***************************************************************************)
(* getJob answers.  Only a changed status, a video or an error is written. *)
(* The code then tests the snapshot's status against done and failed, but  *)
(* a snapshot with such a status was never asked about.                    *)
(***************************************************************************)
AnswerIsNews(r, e) ==
    LET a == Normalized(upstream[e]) IN a # poll[r][e].seen \/ a \in Terminal

Answer(r, e) ==
    /\ poll[r][e].at = "ask"
    /\ IF AnswerIsNews(r, e)
       THEN poll' = [poll EXCEPT ![r][e] =
                       [at |-> "save", seen |-> poll[r][e].seen,
                        answer |-> Normalized(upstream[e]),
                        late |-> poll[r][e].late]]
       ELSE Polled(r, e)
    /\ UNCHANGED <<row, upstream, post, faults, blamed>>

(* getJob throws, or its body has no status *)
AnswerFails(r, e) ==
    /\ poll[r][e].at = "ask"
    /\ Fault
    /\ poll' = [poll EXCEPT ![r][e].at = "giveup"]
    /\ blamed' = blamed \cup {e}
    /\ UNCHANGED <<row, upstream, post>>

(* seeded fault: the video's address is not stored *)
SaveAnswerNoVideo(r, e) ==
    /\ poll[r][e].at = "save"
    /\ SetStatus(e, poll[r][e].answer)
    /\ Reported(r, e, poll[r][e].answer)
    /\ UNCHANGED <<upstream, post, faults, blamed>>

(* seeded fault: an answer without a video clears the stored one *)
SaveAnswerClearsVideo(r, e) ==
    /\ poll[r][e].at = "save"
    /\ row' = [row EXCEPT ![e] =
                 [status |-> poll[r][e].answer, job |-> row[e].job,
                  video |-> poll[r][e].answer = "done"]]
    /\ Reported(r, e, poll[r][e].answer)
    /\ UNCHANGED <<upstream, post, faults, blamed>>

SaveAnswer(r, e) ==
    /\ poll[r][e].at = "save"
    /\ LET a == poll[r][e].answer
       IN  /\ row' = [row EXCEPT ![e] =
                        [status |-> a, job |-> row[e].job,
                         video |-> row[e].video \/ a = "done"]]
           /\ Reported(r, e, a)
    /\ UNCHANGED <<upstream, post, faults, blamed>>

SaveAnswerFails(r, e) ==
    /\ poll[r][e].at = "save"
    /\ Fault
    /\ poll' = [poll EXCEPT ![r][e].at = "giveup"]
    /\ blamed' = blamed \cup {e}
    /\ UNCHANGED <<row, upstream, post>>

(* seeded fault: one failed call fails every episode of the read *)
GiveUpOnAll(r, e) ==
    /\ poll[r][e].at = "giveup"
    /\ row' = [x \in Episodes |-> IF x = e \/ poll[r][x].at = "ask"
                                  THEN [row[x] EXCEPT !.status = "failed"] ELSE row[x]]
    /\ Reported(r, e, "failed")
    /\ UNCHANGED <<upstream, post, faults, blamed>>

(* the catch block *)
GiveUp(r, e) ==
    /\ poll[r][e].at = "giveup"
    /\ SetStatus(e, "failed")
    /\ Reported(r, e, "failed")
    /\ UNCHANGED <<upstream, post, faults, blamed>>

GiveUpFails(r, e) ==
    /\ poll[r][e].at = "giveup"
    /\ Polled(r, e)
    /\ UNCHANGED <<row, upstream, post, faults, blamed>>

(* every request in progress is lost; nothing resumes it *)
Restart ==
    /\ Fault
    /\ \/ \E e \in Episodes : post[e] \in {"submit", "save", "giveup"}
       \/ \E r \in Readers : ~Idle(r)
    /\ blamed' = blamed \cup {e \in Episodes : post[e] \in {"submit", "save"}}
    /\ post' = [e \in Episodes |-> IF post[e] = "none" THEN "none" ELSE "over"]
    /\ poll' = [r \in Readers |-> [e \in Episodes |-> NoPoll]]
    /\ UNCHANGED <<row, upstream>>

-----------------------------------------------------------------------------

Init ==
    /\ row = [e \in Episodes |-> NoRow]
    /\ upstream = [e \in Episodes |-> "none"]
    /\ post = [e \in Episodes |-> "none"]
    /\ poll = [r \in Readers |-> [e \in Episodes |-> NoPoll]]
    /\ faults = 0
    /\ blamed = {}

PostStep(e) == Submit(e) \/ SaveJob(e) \/ MarkSubmitFailed(e)

PostFault(e) == SubmitFails(e) \/ SaveJobFails(e) \/ MarkSubmitFailedFails(e)

PollStep(r, e) == Answer(r, e) \/ SaveAnswer(r, e) \/ GiveUp(r, e)

PollFault(r, e) == AnswerFails(r, e) \/ SaveAnswerFails(r, e) \/ GiveUpFails(r, e)

Next ==
    \/ CreateRows
    \/ \E e \in Episodes : PostStep(e) \/ PostFault(e) \/ UpstreamStep(e)
    \/ \E r \in Readers :
          \/ StartGet(r, Episodes)
          \/ \E e \in Episodes :
                StartGet(r, {e}) \/ PollStep(r, e) \/ PollFault(r, e)
    \/ Restart

Spec == Init /\ [][Next]_vars

(***************************************************************************)
(* A started handler goes on, oneclick ends every job, and each reader     *)
(* reads the whole simulation again whenever it can.  The workbench polls  *)
(* GET /:slug every three seconds for up to four minutes (lane-cards.tsx   *)
(* 598-620); from then on somebody has to open a page that reads it.       *)
(***************************************************************************)
Fairness ==
    /\ \A e \in Episodes : WF_vars(PostStep(e)) /\ WF_vars(UpstreamStep(e))
    /\ \A r \in Readers : /\ SF_vars(StartGet(r, Episodes))
                          /\ \A e \in Episodes : WF_vars(PollStep(r, e))

FairSpec == Spec /\ Fairness

-----------------------------------------------------------------------------
(* Properties *)

TypeOK ==
    /\ row \in [Episodes -> Row]
    /\ upstream \in [Episodes -> Renders]
    /\ post \in [Episodes -> PostSteps]
    /\ poll \in [Readers -> [Episodes -> Poll]]
    /\ faults \in 0..MaxFaults
    /\ blamed \subseteq Episodes

(* An episode shows as done only if oneclick finished its render, and then *)
(* its video is there, however old the answers are that reads write back.  *)
DoneIsGenuine ==
    \A e \in Episodes :
        row[e].status = "done" => upstream[e] = "done" /\ row[e].video

(* "A throw on one episode's getJob marks ONLY that episode failed; peers  *)
(* are unaffected" (simulations.ts:174): an episode fails because its own  *)
(* render did, or a call made for it did.                                  *)
FailureIsOwn ==
    \A e \in Episodes :
        row[e].status = "failed" => upstream[e] = "failed" \/ e \in blamed

(* A render that oneclick was given is one the row knows, about to be      *)
(* saved, or lost by a failed call or a restart in between: no other order *)
(* of events leaves a render nobody can poll.                              *)
RendersAreTracked ==
    \A e \in Episodes :
        upstream[e] # "none" /\ ~row[e].job => post[e] = "save" \/ e \in blamed

(* A finished episode changes its status only under a read that had asked  *)
(* about it before another read settled it.  So where reads do not overlap *)
(* done and failed are final: a read asks about unfinished rows only, and  *)
(* the POST is done with a row before a read can ask about it.             *)
SettledStays ==
    [][\A e \in Episodes :
         row[e].status \in Terminal /\ row'[e].status # row[e].status
             => \E r \in Readers : poll[r][e].late /\ poll'[r][e] = NoPoll]_vars

Life == INSTANCE EpisodeLife WITH
            shown <- row, render <- upstream, hurt <- blamed

(* However POST, reads, faults and restarts interleave, each episode lives *)
(* the life of its own single render: its row says only what the render is *)
(* or has been, except that it says running when it learns its job, and    *)
(* failed after trouble of its own (simulations.ts:174, 305-356).          *)
LivesItsRender == Life!Spec

(* Overlapping reads may write stale answers over a finished episode, but  *)
(* unless a call made for it failed its video is shown in the end, for     *)
(* good, whatever fails elsewhere.                                         *)
RendersShow ==
    \A e \in Episodes :
        <>[](upstream[e] = "done" /\ e \notin blamed
                => row[e].status = "done" /\ row[e].video)

(* With failed calls and restarts too, every episode that has a job ends   *)
(* done or failed and stays so.                                            *)
TrackedSettle ==
    \A e \in Episodes : <>[](row[e].job => row[e].status \in Terminal)
=============================================================================
