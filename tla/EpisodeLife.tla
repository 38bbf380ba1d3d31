---------------------------- MODULE EpisodeLife ----------------------------
(***************************************************************************)
(* What the episodes of a simulation promise whoever looks at them: each   *)
(* has at most one render, and its row says nothing of it that oneclick    *)
(* has not seen, but for "running" when the row learns its job and for     *)
(* "failed" after trouble with this episode.  There are no handlers, no    *)
(* snapshots and no answers on their way; a row may lag behind its render. *)
(***************************************************************************)
CONSTANT Episodes

VARIABLES
    shown,   \* per episode: status, and whether job id and video are there
    render,  \* what oneclick is doing with it
    hurt     \* episodes a call for which failed or was cut off

vars == <<shown, render, hurt>>

Absent == [status |-> "absent", job |-> FALSE, video |-> FALSE]
New == [status |-> "pending", job |-> FALSE, video |-> FALSE]

Init ==
    /\ shown = [e \in Episodes |-> Absent]
    /\ render = [e \in Episodes |-> "none"]
    /\ hurt = {}

(* What a render is or may have been, in the words of the row. *)
Been(u) ==
    {st \in {"pending", "running", "done", "failed"} :
        \/ st = "pending" /\ u # "none"
        \/ st = "running" /\ u \notin {"none", "queued"}
        \/ st = u}

Follows ==
    {<<"queued", "running">>, <<"queued", "failed">>,
     <<"running", "done">>, <<"running", "failed">>}

Create ==
    /\ shown = [e \in Episodes |-> Absent]
    /\ shown' = [e \in Episodes |-> New]
    /\ UNCHANGED <<render, hurt>>

(* the one submit of an episode, answered or not *)
Queue(e) ==
    /\ shown[e] = New /\ render[e] = "none"
    /\ render' = [render EXCEPT ![e] = "queued"]
    /\ hurt' \in {hurt, hurt \cup {e}}
    /\ UNCHANGED shown

Advance(e) ==
    /\ \E u \in {"running", "done", "failed"} :
          <<render[e], u>> \in Follows /\ render' = [render EXCEPT ![e] = u]
    /\ UNCHANGED <<shown, hurt>>

(* the row learns its job *)
Attach(e) ==
    /\ shown[e] = New /\ render[e] # "none"
    /\ shown' = [shown EXCEPT ![e] =
                   [status |-> "running", job |-> TRUE, video |-> FALSE]]
    /\ UNCHANGED <<render, hurt>>

(* the row says what the render is, or what it was *)
Learn(e) ==
    /\ shown[e].job
    /\ \E st \in Been(render[e]) :
          shown' = [shown EXCEPT ![e] =
                      [status |-> st, job |-> TRUE,
                       video |-> shown[e].video \/ st = "done"]]
    /\ UNCHANGED <<render, hurt>>

Fail(e) ==
    /\ e \in hurt
    /\ shown' = [shown EXCEPT ![e].status = "failed"]
    /\ UNCHANGED <<render, hurt>>

(* a call fails, or a restart cuts off the calls of several *)
Trouble ==
    /\ \E E \in SUBSET {e \in Episodes : shown[e] # Absent} : hurt' = hurt \cup E
    /\ UNCHANGED <<shown, render>>

Next ==
    \/ Create
    \/ \E e \in Episodes : Queue(e) \/ Advance(e) \/ Attach(e) \/ Learn(e) \/ Fail(e)
    \/ Trouble

Spec == Init /\ [][Next]_vars
=============================================================================
