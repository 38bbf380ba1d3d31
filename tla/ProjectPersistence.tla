------------------------- MODULE ProjectPersistence -------------------------
(***************************************************************************)
(* One workbench project, the tabs of one browser that show it, the copy   *)
(* in local storage and the row in the database.                           *)
(*                                                                         *)
(* A tab keeps its project in the store that sign-in selects: local        *)
(* storage while Clerk is loading and for guests, the API for users.  It   *)
(* loads when it mounts and again when the store changes, saves 1.5 s      *)
(* after the last change without waiting for the answer, flushes when it   *)
(* goes away, and moves the local copy to the API when it sees a sign-in.  *)
(* Either store may fail, and neither tells: a save that failed looks like *)
(* one that worked, and a failed load like a project that is not there.    *)
(*                                                                         *)
(* A content of the project is the set of the edits that led to it.        *)
(***************************************************************************)
EXTENDS Naturals, FiniteSets

CONSTANTS
    Tabs,
    None,       \* no content: no row, no local copy, nothing to save
    Prompts,    \* whether a page may, or must, open with a first prompt
    MaxEdits,   \* bound: changes of the content, by the user or the agent
    MaxMounts   \* bound: how often the page is opened

Edits == 1..MaxEdits

ASSUME ProjectOK ==
    /\ None \notin Tabs /\ \A S \in SUBSET Edits : S # None
    /\ Prompts \subseteq BOOLEAN
    /\ MaxEdits \in Nat \ {0} /\ MaxMounts \in Nat

VARIABLES
    session,    \* whether the browser is signed in
    server,     \* the row of workbench_projects
    local,      \* the entry in local storage
    auth,       \* what Clerk tells each tab, or that the tab is closed
    load,       \* the load of each tab; isLoaded is "idle"
    initial,    \* what it found: initialState
    hydrated,   \* hydrated.current
    canvas,     \* the content on the screen
    pending,    \* what the debounce timer will save; no timer when None
    turn,       \* whether an agent turn is running: isStreaming
    prompt,     \* a first prompt in the URL or in session storage, not yet sent
    puts,       \* PUTs on their way
    made,       \* edits so far
    mounts,     \* mounts so far
    owed,       \* history: edits handed to the autosave
    calm        \* history: nothing has happened yet that may cost an edit

tabs == <<auth, load, initial, hydrated, canvas, pending, turn, prompt>>
bounds == <<made, mounts, owed>>
vars == <<session, server, local, tabs, puts, bounds, calm>>

Content == SUBSET Edits
Saved == {None} \cup Content

(* mover: the tab whose migration sent it, and which deletes the local     *)
(* copy at its end; None for a save                                        *)
Put == [id: Nat, edits: Content, mover: Tabs \cup {None}]

In(saved) == IF saved = None THEN {} ELSE saved

Open(t) == auth[t] # "closed"

Others(t) == {u \in Tabs \ {t} : Open(u)}

IsLoaded(t) == Open(t) /\ load[t] = "idle"

(* the condition of the autosave effect *)
Autosaves(t) == IsLoaded(t) /\ hydrated[t]

InFlight == UNION {p.edits : p \in puts}

Unsaved == UNION {In(pending[t]) : t \in Tabs}

-----------------------------------------------------------------------------
(* Saving *)

NextId == IF puts = {} THEN 1 ELSE 1 + CHOOSE n \in {p.id : p \in puts} :
                                         \A p \in puts : p.id <= n

(* two saves of different contents in flight may land in either order *)
Overlaps(S) == \E p \in puts : p.edits # S

(* setItem, which a full or unavailable storage refuses: save() swallows it *)
StoreLocally(S) ==
    /\ local' \in {S, local}
    /\ calm' = (calm /\ local' = S)

(* store.save(pid, pending), not awaited; kept: the PUTs it joins *)
SaveTo(kept, t, S) ==
    IF auth[t] = "user"
    THEN /\ puts' = kept \cup {[id |-> NextId, edits |-> S, mover |-> None]}
         /\ calm' = (calm /\ ~Overlaps(S))
         /\ local' = local
    ELSE puts' = kept /\ StoreLocally(S)

(* seeded fault: the timer waits for the agent turn to end *)
TimerAfterTurn(t) == pending[t] # None /\ ~turn[t]

TimerRuns(t) == pending[t] # None

(* the callback of the debounce timer *)
TimerFires(t) ==
    /\ TimerRuns(t)
    /\ pending' = [pending EXCEPT ![t] = None]
    /\ SaveTo(puts, t, pending[t])
    /\ UNCHANGED <<session, server, auth, load, initial, hydrated, canvas, turn, prompt, bounds>>

(* seeded fault: the migration goes on without its page *)
OrphanedNone(t) == puts

(* the promise chain of a migration ends with its page *)
Orphaned(t) == {IF p.mover = t THEN [p EXCEPT !.mover = None] ELSE p : p \in puts}

Gone(t) ==
    /\ auth' = [auth EXCEPT ![t] = "closed"]
    /\ load' = [load EXCEPT ![t] = "idle"]
    /\ initial' = [initial EXCEPT ![t] = None]
    /\ hydrated' = [hydrated EXCEPT ![t] = FALSE]
    /\ canvas' = [canvas EXCEPT ![t] = {}]
    /\ pending' = [pending EXCEPT ![t] = None]
    /\ turn' = [turn EXCEPT ![t] = FALSE]
    /\ prompt' = [prompt EXCEPT ![t] = FALSE]
    /\ UNCHANGED <<session, server, made, mounts, owed>>

(* beforeunload or unmount: flush.  keepalive lets the PUT outlive the page *)
Close(t) ==
    /\ Open(t)
    /\ Gone(t)
    /\ IF pending[t] = None
       THEN puts' = Orphaned(t) /\ UNCHANGED <<local, calm>>
       ELSE SaveTo(Orphaned(t), t, pending[t])

Crash(t) ==
    /\ Open(t)
    /\ Gone(t)
    /\ puts' = Orphaned(t)
    /\ calm' = FALSE
    /\ UNCHANGED local

(* A PUT ends: the upsert is done, or it failed and save() swallows it. *)
(* Its migration deletes the local copy, if the storage lets it.        *)
Ends(p) ==
    /\ puts' = puts \ {p}
    /\ local' \in IF p.mover = None THEN {local} ELSE {None, local}
    /\ UNCHANGED <<session, tabs, made, mounts, owed>>

Land(p) ==
    /\ server' = p.edits
    /\ Ends(p)
    /\ UNCHANGED calm

Lose(p) ==
    /\ Ends(p)
    /\ calm' = FALSE
    /\ UNCHANGED server

-----------------------------------------------------------------------------
(* Loading *)

(* seeded fault: no wait for Clerk *)
HydratesAnyNull(a) == TRUE

(* The hydration effect: a project that was found replaces the canvas, and *)
(* the change goes to the autosave.  A null means a new project, but only  *)
(* once Clerk has resolved.                                                *)
HydratesNull(a) == a # "loading"

Hydrates(found, a) == found # None \/ HydratesNull(a)

(* the prompt effect, in the first commit with Clerk and a load resolved *)
FiresPrompt(t, found) == prompt[t] /\ found = None

(* What local storage answers: the entry, or null when it is unavailable *)
(* or the entry is corrupt.                                              *)
LocalAnswers == {local, None}

(* Load from local storage on mount: read and answered at once. *)
MountLocal(t, a, p, found) ==
    /\ load' = [load EXCEPT ![t] = "idle"]
    /\ initial' = [initial EXCEPT ![t] = found]
    /\ canvas' = [canvas EXCEPT ![t] = In(found)]
    /\ pending' = [pending EXCEPT ![t] = found]
    /\ hydrated' = [hydrated EXCEPT ![t] = Hydrates(found, a)]
    /\ turn' = [turn EXCEPT ![t] = p /\ a = "guest" /\ found = None]
    /\ prompt' = [prompt EXCEPT ![t] = p /\ a = "loading"]

MountApi(t, p) ==
    /\ load' = [load EXCEPT ![t] = "sent"]
    /\ prompt' = [prompt EXCEPT ![t] = p]
    /\ UNCHANGED <<initial, canvas, pending, hydrated, turn>>

(* The page opens: from its URL, or by navigation when Clerk is loaded. *)
Mount(t, p) ==
    /\ ~Open(t)
    /\ mounts < MaxMounts
    /\ mounts' = mounts + 1
    /\ \E a \in {"loading", session}, found \in LocalAnswers :
          /\ auth' = [auth EXCEPT ![t] = a]
          /\ IF a = "user" THEN MountApi(t, p) ELSE MountLocal(t, a, p, found)
          /\ calm' = (calm /\ (a = "user" \/ (found = local /\ Unsaved \subseteq In(local))))
    /\ UNCHANGED <<session, server, local, puts, made, owed>>

(* Clerk says guest: hydration and prompt effects run again. *)
ResolveGuest(t) ==
    /\ auth[t] = "loading"
    /\ session = "guest"
    /\ auth' = [auth EXCEPT ![t] = "guest"]
    /\ hydrated' = [hydrated EXCEPT ![t] = TRUE]
    /\ turn' = [turn EXCEPT ![t] = turn[t] \/ FiresPrompt(t, initial[t])]
    /\ prompt' = [prompt EXCEPT ![t] = FALSE]
    /\ UNCHANGED <<session, server, local, load, initial, canvas, pending, puts, bounds, calm>>

(* seeded fault: hydrated.current stays when the store changes *)
KeepHydrated(t) == hydrated[t] \/ auth[t] = "loading"

HydratedAfterSwap(t) == FALSE

(* Both a local copy and a row, or a guest with edits to a project there is *)
(* a row of, or another tab that has not seen the copy: migration and      *)
(* autosave overwrite the row.                                             *)
Conflict(t) ==
    \/ local # None /\ Others(t) # {}
    \/ /\ local # None \/ auth[t] = "guest"
       /\ ~ In(server) \cup InFlight \subseteq canvas[t]

(* Clerk says user: the store changes and is loaded again, and useMigration *)
(* saves the local copy, if it can be read.  The prompt effect still sees  *)
(* the load from local storage.                                            *)
ResolveUser(t) ==
    /\ auth[t] \in {"loading", "guest"}
    /\ session = "user"
    /\ auth' = [auth EXCEPT ![t] = "user"]
    /\ load' = [load EXCEPT ![t] = "sent"]
    /\ initial' = [initial EXCEPT ![t] = None]
    /\ hydrated' = [hydrated EXCEPT ![t] = HydratedAfterSwap(t)]
    /\ turn' = [turn EXCEPT ![t] = turn[t] \/ FiresPrompt(t, initial[t])]
    /\ prompt' = [prompt EXCEPT ![t] = FALSE]
    /\ \E found \in LocalAnswers :
          /\ puts' = IF found = None THEN puts
                     ELSE puts \cup {[id |-> NextId, edits |-> found, mover |-> t]}
          /\ calm' = (calm /\ ~Conflict(t) /\ (found = None \/ ~Overlaps(found)))
    /\ UNCHANGED <<session, server, local, canvas, pending, bounds>>

(* GET /api/workbench/:id reads the row *)
ReadRow(t) ==
    /\ load[t] = "sent"
    /\ load' = [load EXCEPT ![t] = "read"]
    /\ initial' = [initial EXCEPT ![t] = server]
    /\ UNCHANGED <<session, server, local, auth, hydrated, canvas, pending, turn, prompt, puts,
                   bounds, calm>>

(* isLoaded, then the hydration, autosave and prompt effects *)
Loaded(t, found) ==
    /\ load' = [load EXCEPT ![t] = "idle"]
    /\ initial' = [initial EXCEPT ![t] = found]
    /\ hydrated' = [hydrated EXCEPT ![t] = TRUE]
    /\ IF found = None \/ hydrated[t] THEN UNCHANGED <<canvas, pending>>
       ELSE /\ canvas' = [canvas EXCEPT ![t] = found]
            /\ pending' = [pending EXCEPT ![t] = found]
    /\ turn' = [turn EXCEPT ![t] = turn[t] \/ FiresPrompt(t, found)]
    /\ prompt' = [prompt EXCEPT ![t] = FALSE]
    /\ UNCHANGED <<session, server, local, auth, puts, made, mounts, owed>>

(* The answer may be older than the row, and what it replaces may be newer. *)
Answer(t) ==
    /\ load[t] = "read"
    /\ Loaded(t, initial[t])
    /\ calm' = (calm /\ In(server) \cup InFlight \cup Unsaved \cup canvas[t] \subseteq canvas'[t])

(* an error, a timeout and a row that does not parse all answer null *)
AnswerFails(t) ==
    /\ load[t] # "idle"
    /\ Loaded(t, None)
    /\ calm' = FALSE

-----------------------------------------------------------------------------
(* The user and the agent *)

SignIn ==
    /\ session = "guest"
    /\ session' = "user"
    /\ UNCHANGED <<server, local, tabs, puts, bounds, calm>>

(* A change of the content.  The user needs the canvas on the screen; a    *)
(* running agent turn changes it also while a load hides it.               *)
Edit(t) ==
    /\ Open(t)
    /\ made < MaxEdits
    /\ IsLoaded(t) \/ turn[t]
    /\ made' = made + 1
    /\ canvas' = [canvas EXCEPT ![t] = @ \cup {made + 1}]
    /\ IF Autosaves(t)
       THEN /\ pending' = [pending EXCEPT ![t] = canvas[t] \cup {made + 1}]
            /\ owed' = owed \cup {made + 1}
       ELSE UNCHANGED <<pending, owed>>
    /\ calm' = (calm /\ Others(t) = {})
    /\ UNCHANGED <<session, server, local, auth, load, initial, hydrated, turn, prompt, puts,
                   mounts>>

(* sendMessage and its end; the messages themselves count as edits *)
StartTurn(t) ==
    /\ IsLoaded(t)
    /\ ~turn[t]
    /\ turn' = [turn EXCEPT ![t] = TRUE]
    /\ UNCHANGED <<session, server, local, auth, load, initial, hydrated, canvas, pending, prompt,
                   puts, bounds, calm>>

EndTurn(t) ==
    /\ turn[t]
    /\ turn' = [turn EXCEPT ![t] = FALSE]
    /\ UNCHANGED <<session, server, local, auth, load, initial, hydrated, canvas, pending, prompt,
                   puts, bounds, calm>>

-----------------------------------------------------------------------------

(* Edit 1, if there is one, was made before: by a guest or by a user. *)
Init ==
    /\ session \in {"guest", "user"}
    /\ \/ server = None /\ local = None /\ made = 0
       \/ server = {1} /\ local = None /\ made = 1
       \/ server = None /\ local = {1} /\ made = 1
    /\ auth = [t \in Tabs |-> "closed"]
    /\ load = [t \in Tabs |-> "idle"]
    /\ initial = [t \in Tabs |-> None]
    /\ hydrated = [t \in Tabs |-> FALSE]
    /\ canvas = [t \in Tabs |-> {}]
    /\ pending = [t \in Tabs |-> None]
    /\ turn = [t \in Tabs |-> FALSE]
    /\ prompt = [t \in Tabs |-> FALSE]
    /\ puts = {}
    /\ mounts = 0
    /\ owed = 1..made
    /\ calm = TRUE

Page(t) ==
    \/ \E p \in Prompts : Mount(t, p)
    \/ ResolveGuest(t) \/ ResolveUser(t)
    \/ ReadRow(t) \/ Answer(t) \/ AnswerFails(t)
    \/ TimerFires(t) \/ Close(t) \/ Crash(t)
    \/ Edit(t) \/ StartTurn(t) \/ EndTurn(t)

Next ==
    \/ SignIn
    \/ \E t \in Tabs : Page(t)
    \/ \E p \in puts : Land(p) \/ Lose(p)

Spec == Init /\ [][Next]_vars

(* Timers fire and requests end.  Nothing is assumed of loads, users or the *)
(* agent.                                                                  *)
FairSpec ==
    /\ Spec
    /\ \A t \in Tabs : WF_vars(TimerFires(t))
    /\ WF_vars(\E p \in puts : Land(p) \/ Lose(p))
-----------------------------------------------------------------------------
(* Properties *)

TypeOK ==
    /\ session \in {"guest", "user"}
    /\ server \in Saved /\ local \in Saved
    /\ auth \in [Tabs -> {"closed", "loading", "guest", "user"}]
    /\ load \in [Tabs -> {"idle", "sent", "read"}]
    /\ initial \in [Tabs -> Saved] /\ canvas \in [Tabs -> Content] /\ pending \in [Tabs -> Saved]
    /\ hydrated \in [Tabs -> BOOLEAN] /\ turn \in [Tabs -> BOOLEAN] /\ prompt \in [Tabs -> BOOLEAN]
    /\ puts \subseteq Put
    /\ made \in 0..MaxEdits /\ mounts \in 0..MaxMounts
    /\ owed \subseteq 1..made /\ calm \in BOOLEAN
    /\ \A t \in Tabs : pending[t] # None => Open(t) /\ pending[t] \subseteq canvas[t]
    /\ \A p \in puts : p.mover # None => auth[p.mover] = "user"

Kept == In(server) \cup In(local) \cup InFlight \cup Unsaved

(* No edit handed to the autosave disappears, unless something known to    *)
(* cost edits happened before: a failed call or a killed tab, local        *)
(* storage that refused a save or an entry that could not be read, an edit *)
(* with another tab open, two different saves in flight at a time, an      *)
(* answer that lacks what is stored, in flight or on the canvas, or a      *)
(* sign-in with copies in both stores (use-project-persistence.ts:50-89).  *)
KeepsEdits == calm => owed \subseteq Kept

(* A tab that shows its project shows what it loaded, however the store    *)
(* changed under it (workbench-canvas.tsx:386-400).                        *)
ShowsWhatItLoaded ==
    \A t \in Tabs :
        IsLoaded(t) /\ initial[t] # None => hydrated[t] /\ initial[t] \subseteq canvas[t]

(* Every edit handed to the autosave reaches a store, with the same        *)
(* exceptions (use-project-persistence.ts:74-89).                          *)
EditsReachAStore ==
    \A e \in Edits : e \in owed ~> (e \in In(server) \cup In(local) \/ ~calm)
=============================================================================
