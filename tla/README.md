# Open Festivus in TLA+

A verification project for the stateful core of Open Festivus: the public API
over a robotics catalogue (`src/api`), the search mirror behind it, and the web
application that calls it (`src/apps/web`): its workbench with projects, agent
and edit chats. The modules are translated from the code. TLC checks them on
small instances, and TLAPS proves the properties that matter most for every
value of the constants.

All paths below are relative to the repository; `routes/write.ts` is short for
`src/api/src/routes/write.ts`, and likewise for the other API files. Paths that
begin with `app/` or `lib/` are below `src/apps/web/src`.

## 1. The system

| Part | State | Operations | What makes it hard |
| --- | --- | --- | --- |
| Record edits (`routes/write.ts`, `repo/prisma.ts`) | one JSONB row per slug | PUT, PATCH, DELETE | every handler is several awaited statements without a transaction; PATCH reads, merges in memory and writes back |
| Audit trail and review (`routes/mutations.ts`) | the `mutations` table | createMutation, approve, reject, revert, list, get | edits are live before review; reject and revert put old values back; no status is checked |
| API keys (`middleware/api-key.ts`, `routes/internal-api-keys.ts`) | the `api_keys` table | check, mint, revoke | a key is read once per request; revocation closes pending rows in a second statement |
| Simulations and episodes (`routes/simulations.ts`, `routes/episodes.ts`) | the `episodes` table, jobs at the oneclick service | POST, three GET routes that poll | nothing runs in the background: reads drive the state, overlap, and write against their snapshots |
| Request rate limit (`middleware/token-bucket.ts`) | a map of buckets | take, sweep | refills, eviction and the one-token test must agree at their boundaries |
| Write quota (`middleware/rate-limit-writes.ts`) | the `mutations` table | count before each write | checks before the act it limits; several identities stand for one user |
| Search mirror (`repo/typesense-decorator.ts`, `typesense/`, `scripts/typesense-backfill.ts`) | a Typesense collection per table | fire-and-forget upsert and delete, backfill | calls overtake each other and get lost; a separate process pages through a moving table |
| Workbench projects (`routes/workbench-projects.ts`, `lib/workbench/hooks`, `lib/workbench/store`, the canvas) | one row per project; local storage; a debounce timer, a load state and a hydration flag per tab | load, autosave, flush, reload and migration after sign-in | saves, loads and the migration overlap; failed calls look like empty projects; the store changes under a running page |
| Edit chats (`app/api/agent-chat/route.ts`, `lib/edit-primitives`, `lib/agent-chat`, the canvas) | a conversation, a card, a queued confirmation; signed tokens | propose, confirm, apply, cancel | tokens are not used up; streams break off; confirmations wait for a stream to close |
| Workbench agent (`app/api/agent/route.ts`, `lib/agent/fallbacks.ts`) | the turns of one request, a queue of robot nodes | a bounded loop of model messages and tools | some blocks wait for a record while others go out; errors end the loop anywhere |
| Moderation page, render poll, latency timers, other views | view state | calls of the routes above | a few timers |
| Scraper (`src/packages/scrape`) | a file cache | fetch with retry | counting of attempts |
| Catalogue reads, emails, seeds, data scripts | none of their own | - | - |

The parts meet in Postgres. A PATCH passes the rate limit, the key check and
the write quota, edits the record, adds a mutation row and leaves a call to
Typesense behind. A review edits the same record and the same row. A
revocation edits the rows of many records. The web application is a client of
these routes; its chats edit through one shared moderator key on behalf of
their users, and its workbench draws what the agent streams onto a canvas that
the autosave watches.

What makes each part correct:

* edits and reviews: no live value without an origin in the trail; verdicts
  that say "undone" follow the undoing; deleted records stay deleted; a
  revoked key gains no more rows; serially, the record equals what its log says
* episodes: `done` means a finished render with a video; failures do not spread;
  no submitted render is lost except by a fault; a settled row moves only under
  a read that is older; everything tracked settles
* rate limit: eviction is invisible; no window admits more than a burst plus
  the rate; memory is reclaimed
* write quota: the cap holds up to the requests in flight, and each user is
  charged with their own edits only
* search mirror: drift has one of the known causes; the backfill misses nothing
* projects: saving and loading lose no edits but in known situations; a page
  shows what it loaded; edits reach a store
* edit chats: what the user cancelled stays out; the chat tells what is live;
  it unlocks; a queued confirmation goes out
* agent: robots get their closing messages and come before them; the canvas
  shows what the model drew; every request ends

## 2. The modules

| Module | Models | Used by |
| --- | --- | --- |
| `AuditLog` | the contract of the `mutations` table (abstract) | instantiated by `EditModeration` |
| `EditModeration` | edits, reviews and revocations of one record | `EditClaims`, `EditModerationProofs` |
| `EditClaims` | two statements of the repository about edits that the code breaks | `MCEditModeration` |
| `EpisodeLife` | what an episode tells those who look at it (abstract) | instantiated by `Episodes` |
| `Episodes` | the episodes of one simulation and their renders | `MCEpisodes`, `EpisodesProofs` |
| `RateLimit` | what the request limiter promises (abstract) | instantiated by `TokenBucket` |
| `TokenBucket` | the request rate limiter | `MCTokenBucket`, `TokenBucketProofs` |
| `WriteQuota` | the cap on a user's edits | `MCWriteQuota`, `WriteQuotaProofs` |
| `SearchMirror` | one table and its Typesense collection | `MCSearchMirror`, `SearchMirrorProofs` |
| `ProjectPersistence` | one workbench project, the tabs that show it and its two stores | `ProjectClaims`, `ProjectPersistenceProofs` |
| `ProjectClaims` | a statement about the migration that the code breaks | `MCProjectPersistence` |
| `EditChat` | one field, one of the two chats that edit it, and its requests | `MCEditChat`, `EditChatProofs` |
| `AgentLoop` | one request to the workbench agent and the robot it draws | `MCAgentLoop`, `AgentLoopProofs` |

An operator whose comment begins with "seeded fault" is a plausible bug. It is
used by nothing: put in place of the definition that follows it, it makes TLC
report the property listed for it in `PROJECT.json` ("mutants"), which shows
that the property depends on that piece of code.

Variables marked "history" are read by no guard and change no other variable.
`blamed` and `calm`, `told` and `intended` are of this kind: they say what a
property excuses or compares with.

### EditModeration

`live` is the `data` column of one row (or `NoRecord`), `log` the mutation rows
of that record in id order, `revoked` the keys with `revoked_at`, and `job[s]`
what request slot `s` is doing: the handler, the await it stands at and the
locals it keeps across it. One action is the code between two awaits of the
database, since other requests run during an await.

| Code | Actions |
| --- | --- |
| PATCH (`write.ts:103`) | `StartPatch`; `PatchNothing` (404, no-op) or `DiffPatch`; `ReadForMerge` or `NothingToMerge`; `WriteMerged` or `RowVanished`; `LogMutation` |
| PUT, DELETE | `StartPut`, `FinishPut`; `StartDelete`, `FinishDelete` |
| review (`mutations.ts:100`) | `StartReview`; `RefuseRevert` or `AllowRevert`; the actions of patchBySlug; `FlipStatus` |
| revoke (`internal-api-keys.ts:145`) | `StartRevoke`, `RevokeKey`, `CascadeRevoke` |
| a rejected database call, a restart | `RequestFails`, `Restart` |

Decisions of the abstraction:

* A JSON object is a total function on `Fields`, with `Absent` for a missing
  key. JSON drops `undefined`, so `old_values` cannot say "there was no such
  field", and the merge of a restore cannot remove one.
* patchBySlug inside a PATCH and inside a review is the same code and the same
  actions. It returns null for a deleted row and neither caller looks.
* `AuditComplete` forbids values out of thin air, and no more: a lost update, a
  stale restore, a reject or a revert that undoes a newer edit all leave values with
  an origin. What the log says of the record is `LiveMatchesLog`, which needs one
  request at a time; the lost update is `claim_merge`; the others are among the
  hazards of `PROJECT.json`, with no property of their own.
* The order of `created_at` is the order of insertion. Two rows with the same
  millisecond are not modelled.
* The revert check reads `Window` rows, 10 in the code and in the runs.
* A refused key, a 400, a 422 and a 429 change nothing and are no action. The
  quota has a module of its own. Emails are left out.
* `Seeds`, `Patches`, `Puts`, `Deletes`, `Verdicts` and `Reviewable` say what
  callers do. `Reviewable` is what moderators pick; the handler itself accepts
  any status, and so does the run `edit_requests`.

### Episodes

`row[e]` is an episode's status and whether it has a job id and a video;
`upstream[e]` is oneclick's render; `post[e]` where the POST handler is with
this episode (rows are inserted in one transaction, then one submit per row
runs on its own); `poll[r][e]` where the GET request `r` is with it. A GET
takes its snapshot (`StartGet`), asks oneclick (`Answer`, `AnswerFails`) and
writes (`SaveAnswer`, or `GiveUp` from the catch block). GET /, GET /:slug and
GET /v1/episodes/:id share this code up to which episodes they ask about.

oneclick is external. It is assumed to queue, run and end jobs, and to send a
`video_url` exactly with `done`. A submit whose answer is lost may or may not
have queued a job. A getJob that throws and a body without status are one
action, and a failed update is taken as not applied. An update that fails in a
catch block (`GiveUpFails`, `MarkSubmitFailedFails`) follows a fault and is not
counted as another. The test of invariant I5
at `simulations.ts:330` looks at a snapshot that `pollable` has already
limited to pending and running, so it never fires and is not an action.

`EpisodeLife` is the same without handlers, snapshots and answers on their way:
a row, a render of at most one job, and the set of episodes that met trouble.
The row may say of its render what that is or has been (`Been`), says "running"
when it learns its job, says "failed" after trouble of its own, and never loses a
video; one step changes one episode, but for the insertion. `Episodes` implements
it with `shown`, `render` and `hurt` mapped to `row`, `upstream` and `blamed`.

### TokenBucket

Time is in ticks, `Second` to a second, and tokens are counted in
1/`Second`, which keeps refills exact. `Take` is all of `take()`, the sweep
included. `unswept` is the map as it would be without eviction, and
`since`/`granted` an observation window that may begin at any moment. A clock
that steps back and the rounding of floating point are not modelled.

`RateLimit` is the promise without the map: buckets that gain their capacity
every second whether or not anyone comes, pay a token for each request let
through, and are never forgotten. `TokenBucket` implements it with the level of
a bucket mapped to what `take()` would find there now (`Found`), so an entry not
there, an entry behind on its refills and a full bucket are the same. A sweep and
a refused request are stutters.

### WriteQuota

`rows` is the `mutations` table with its timestamps, `job` the requests that
the middleware has let in. `AdmitKey` and `AdmitChat` give a request the
identities the key middleware gives it: `author_id` (null for a key without an
owner) and the user of the key that sends it (the forwarder's, for all chat
edits). `Log` is the row the PATCH adds; `EndWithoutRow` is every other end.
PUT and DELETE pass the same middleware but add no row, so they are never
counted.

### SearchMirror

`rows` and `order` are the table, `index` the collection, `syncs` the calls in
flight (a set: any of them may arrive next), `fill` the backfill. Store and
sync are one action, because what happens between them is not visible to the
table, and a restart there is the loss of the call. `Restore` is a review: the
decorator hands `reviewMutation` to the repository below it, whose patchBySlug
sends nothing. `Deliver`, `Refuse`, `Lose` and `Restart` end a call. The backfill
drops the collection or not, reads a page by offset and imports it; single
documents may be refused (`ImportPart`) in an answer that importDocuments does
not read.

`collection` says whether the collection exists. Only the backfill creates it
(`StartFill`, `EnsureCollection`), so it may be missing at first, while a
`--recreate` is between drop and creation, and after one that failed there
(`FillFails`), until somebody runs the backfill again. Meanwhile each call of the API gets
a 404 and is swallowed (`Refuse`): its slug is `disturbed`, and no later write
repairs it, since that write's call finds no collection either.

### ProjectPersistence

A content of the project is the set of the edits that led to it, so a lost edit
is one that is in no copy. `server` is the row of `workbench_projects`, `local`
the entry in local storage; each tab has what Clerk tells it (`auth`), its load,
the ref `hydrated`, its canvas, what its debounce timer will save (`pending`),
whether an agent turn runs, and a first prompt not yet sent. `puts` are the
saves on their way, which replace the whole row when they land.

| Code | Actions |
| --- | --- |
| the page opens, from its URL (Clerk is still loading) or by navigation | `Mount` (`MountLocal`, `MountApi`) |
| `useAuthStore` when Clerk resolves; `useMigration` | `ResolveGuest`, `ResolveUser` |
| `store.load` and its effects: hydration, autosave, prompt (`workbench-canvas.tsx:386-450`) | `ReadRow`, `Answer`, `AnswerFails` |
| `scheduleSave`'s timer; `flush` on unload and unmount; a killed tab | `TimerFires`, `Close`, `Crash` |
| the upsert, or a failure that `save` swallows | `Land`, `Lose` |
| `LocalProjectStore.save`, `load` and `delete`, done or refused | `StoreLocally`, `LocalAnswers`, `Ends` |
| the user and the agent | `SignIn`, `Edit`, `StartTurn`, `EndTurn` |

React runs the effects of one commit together, so each is part of the action
whose state change causes it. A load from local storage answers at once. The
migration of several projects is a loop; for one project it is one PUT whose
`mover` is the tab, whose end deletes the local copy, and which a page takes with it.

Both stores may fail, and neither tells. `Lose` and `AnswerFails` are the API's
failures. Local storage may be full, unavailable or corrupt: a save may leave
the entry as it is (`StoreLocally`), a load may answer null although there is an
entry (`LocalAnswers`, in `Mount` and in the migration of `ResolveUser`), and the
deletion after a migration may do nothing (`Ends`). Each call may fail on its own;
storage that is unavailable for good is the case in which all do.

`calm` turns false at each thing that may cost an edit in this design; the
property `KeepsEdits` lists them. They include every swallowed failure that can
cost one: a PUT or a load of the API that fails, a killed tab, a local save that
is refused, a page that opens and cannot read the entry. A migration that cannot read
the entry and a deletion that does nothing cost nothing, since the entry stays. The
causes are deliberately wide where the design itself is last-write-wins (an
edit while a second tab is open), so what the property checks is the rest: the
guard of the hydration, the joins of flush, timer, reload and migration in one
tab, and what a second tab that only looks may do.

### EditChat

An edit is its confirmation token. `surface` says which chat it is: the drawer
on a record page or the agent panel of the workbench, which share the tools
(`lib/edit-primitives`) and differ in the rest. `card` is the proposal on the
screen, `held` whether its buttons are disabled, `queued` the confirmation in
`queuedConfirmMessageRef`, `events` the stream of the request `reading`. On the
server, `running` are the handlers, `knows[r]` and `minted[r]` the tokens the
model of a request has seen or will see in its next turn, `sent[r]` and
`patched[r]` the PATCHes on their way and answered. The PATCH itself, with its
mutation row, is `EditModeration`; here it makes the field its value.

The drawer runs the tools of a turn one after the other, the workbench side by
side (`ToolMayStart`), and the workbench sends the conversation with every
token in the user's messages (`History`). A connection that is lost leaves its
handler running until its next event. The model is external: it proposes and
applies what it likes among the tokens it was given, and it is taken not to
write a token out in its own text. Expiry and the other refusals are one
action, `Refuse`.

A token may be applied any number of times, as in the code, by every request
that knows it. The properties do not forbid this: `CancelledStaysOut` is about edits
that were cancelled before any request could use them, and `SaysWhatIsLive` about
what the chat reports, and a repetition is reported like the first time.

Left out: `onConnect` of the workbench keeps the `sendMessage` of the last change
of the nodes (`workbench-canvas.tsx:944-963`), hence an old `isStreaming`. A connection
drawn while a turn runs can so open a second stream, which the guard of
`SendText` excludes; what the properties say holds while no connection is drawn
during a stream.

### AgentLoop

One request of `app/api/agent/route.ts`: `phase` is where the loop stands,
`queued` the robot nodes in `canvasEmitQueue` that wait for their record,
`said` which closing messages the canvas got. A message of the model is its
blocks, in any order; a robot node is counted when it comes and shipped when
its record is there, every other block goes out at once. The canvas has one
robot, which is enough to see updates and additions change places. `intended`
is the canvas had every block been sent in order. The retry wrapper around
`messages.stream()` sees only its synchronous part, so `MessageFails` is every
error of a message. The nudge adds text to the conversation; only whether it is
due is kept.

## 3. The runs

| Run | Instance | States | Shows |
| --- | --- | --- | --- |
| `edit_requests` | 1 key, 2 slots, 2 edits, 1 fault, all requests and verdicts | 1.8 million | `AuditComplete`, `UndoBeforeVerdict`, `OnlyStragglersSurvive`, `OnlyPutResurrects`, `KeepsAuditTrail` |
| `edit_serial` | 2 keys, 1 slot, 3 edits, revert, approve and revoke | 144 thousand | `LiveMatchesLog` |
| `episodes` | 2 episodes, 2 readers, 1 fault, with fairness | 423 thousand | `DoneIsGenuine`, `FailureIsOwn`, `RendersAreTracked`, `SettledStays`, `LivesItsRender`, `TrackedSettle`, `RendersShow` |
| `token_bucket` | 2 buckets of capacity 2 and 3, 6 ticks, 2 ticks a second | 536 thousand | `SweepLosesNothing`, `RateIsBounded`, `EntriesAgeOut`, `KeepsItsPromise` |
| `write_quota` | 2 users, 2 slots, cap 2, window 2, 4 rows | 771 thousand | `CapHoldsButForInFlight`, `OnlyOwnEditsCount` |
| `search_mirror` | 3 slugs, pages of 2, 3 writes, 1 fault, with or without a collection at first | 527 thousand | `DriftHasACause`, `BackfillReadsEveryRow` |
| `project_saves` | 2 tabs, 2 edits, 2 page views, either store failing at any call, with fairness | 1.26 million | `KeepsEdits`, `ShowsWhatItLoaded`, `EditsReachAStore` |
| `edit_chat` | both chats, 2 proposals, 3 requests, 2 tool calls each, 1 fault, with fairness | 87 thousand | `SaysWhatIsLive`, `CancelledStaysOut`, `Unlocks`, `QueuedIsSent` |
| `agent_loop` | 3 turns of up to 3 blocks, with fairness | 51 thousand | `RobotsGetClosers`, `ShipsBeforeClosing`, `CanvasKeepsUp`, `Ends` |
| `claim_merge`, `claim_reject_undoes`, `claim_migration` | as small as they can be | - | counterexamples, see section 6 |

Each passing run checks its module's `TypeOK` once (`edit_requests` for
`EditModeration`). All runs turn the deadlock check off, because edits,
faults or time are bounded and the system may stop at the bound.

Why the bounds are enough. The races of `EditModeration` are between two
requests: two edits of overlapping and of different fields, an edit and a
review, an edit and a revocation, a DELETE and either. Two fields and two
values are the least that tell a lost update from a stale restore. One fault
cuts any handler anywhere. The serial run has three edits because a revert, a
newer edit and a covered older edit need three rows. For `Episodes` two
readers give every overlap of a slow and a fast read, and two episodes show
whether one episode's failure touches another. The bucket run lets an entry
idle past its time to live, be swept and be used again, with a `Second` of two
ticks so that half-refilled buckets occur. In the quota run the overshoot
`MaxWrites - 1 + |Slots|` is reached, so the bound is tight. In
`search_mirror`, pages of two over up to three rows give a full page, a short
page and an empty page. In `project_saves` the project is new, stored in the
database or stored locally, and two page views open two tabs side by side or
one tab after the other, as guest, as user or across a sign-in; two edits are
what it takes for one save to overwrite another. In `edit_chat` three requests
are the proposal, a confirmation and one that overlaps it; two proposals show a
card that is replaced or answered for another. In `agent_loop` three turns
reach the limit with the nudge one turn earlier, and three blocks put an update
before, between and after two robots.

### Fairness

`Episodes`. `FairSpec` assumes that a started POST or GET handler goes on (weak
fairness of its steps: Node runs what is ready), that oneclick ends every job
it took (weak fairness, an assumption about the service), and that readers come
back: the workbench polls GET /:slug every three seconds while it shows a
render (`lane-cards.tsx:598`). The last is strong fairness of
`StartGet(r, Episodes)`, since a read can be impossible now and then: the
reader is busy, or no row has its job id yet. The workbench stops polling when
it sees its episode done or failed, and after four minutes. From then on the
properties hold only if pages that list or show the simulation are still
opened; nothing on the server moves an episode.

`ProjectPersistence`. Timers fire and PUTs end, well or not (weak fairness:
the browser runs due timers, and fetch resolves or rejects). Nothing is assumed
of users, loads, Clerk or the agent.

`EditChat`. The chat reads what its stream holds and notices that it is closed;
a handler that has no call out finishes (its turns are counted and its calls
have time limits); a PATCH is answered or refused; its result is handed on. Nothing is assumed of the user, or of the model's tools.

`AgentLoop`. The route goes on, which includes that a message of the model
ends, and a record that the queue waits for comes or times out (the API client
falls back to the model's own data). The model may ask for tools in every turn;
`Ends` rests on the count of the turns.

## 4. Proofs

tlapm checks eight modules. Assumptions are the named ASSUMEs of the modules,
which bound nothing but types, except `IdleTtl >= Second` for the rate limiter
(ten minutes in the code against one second). Every theorem below holds for all
values of the constants; one, `LogExplainsRecord`, has hypotheses about them.

**EditModerationProofs.**

* `TypeCorrect`. `TypeOK` is not inductive: a verdict about to be written must
  name a row, and a finished cascade a revoked key. `TypeInv` adds which
  handler may stand at which await (`JobsInOrder`).
* `UndoPrecedesVerdict`. The strengthening is `RestoredBeforeFlip`: a reject or
  revert that has reached the flip has marked its row undone.
* `TrailAccountsForLive`. `AuditInv` says of every blob a handler carries over
  an await (old values it will restore, merged values it will write) that each
  value is already accounted for, and that accounts only grow.
* `RevocationLeavesOnlyStragglers`. `StragglerInv` counts, for a revoked key,
  its PATCHes in flight together with its pending rows after the cascade. A
  PATCH that logs moves from one to the other; nothing adds to the sum.
* `DeletedStaysDeleted` and `ImplementsAuditLog`, the refinement: the initial
  state maps to the abstract one's, and each step to an `AuditLog` step or to a
  stutter.
* `LogExplainsRecord`, the serial reading of the log: between requests the
  record is what its edits in force make of the seed. It has hypotheses
  (`Serial`), each of which the property needs: one request at a time and no
  failed call (two PATCHes lose an edit, see `claim_merge`), no PUT (it leaves no
  row), a seed without missing fields (a restore removes none, see
  `claim_reject_undoes`), undoing by revert and not by reject (only revert looks
  for newer edits), no verdict on a row already withdrawn, and no more rows than
  the ten the revert check reads. Keys, fields, values, the number of edits up
  to that, approvals, deletions and revocations are free. `SerialInv` says
  of each row that its old value is what the edits in force before it had made
  of the field (`RowSound`): this, with the newer-edit check, is why putting the
  old value back withdraws that row alone. `JobSound` says the same of the PATCH
  or revert on its way.

**EpisodesProofs.** `EpisodeTypes`, `DoneMeansDone`, `FailuresAreOwn`,
`RendersKept`, `SettledMovesLate`. What a row says is only as good as what reads carry, so the
invariant is about answers in flight: `PollInv`, a terminal answer that a read
has not written yet is oneclick's last word on that render, which never
changes; `PostInv`, where a POST stands tells whether its render exists and
whether the row knows it; `RowInv`, a terminal row has such an answer or a
fault behind it. For `SettledMovesLate`, `SettledInv` adds that reads find a row
only when its POST is over, so that nothing but reads writes to a settled row.
`ImplementsEpisodeLife` is the refinement. `LifeInv` says that a row is as it was
inserted until its POST saves the job, and that an answer still to be written is
in what the render is or has been; that set only grows, however late the write.

**TokenBucketProofs.** `BucketTypes`, `EvictionIsInvisible` (a bucket idle for a
second is full, and refilling twice equals refilling once), `RateHolds` (tokens
left plus tokens spent never exceed a burst plus the refill since the window
began), `EntriesDoAgeOut` (the last sweep bounds every surviving entry's age).
`PromiseIsKept` is the refinement of `RateLimit`: a `Tick` is time for all
buckets at once (`Found` at a later time is `Found` now with the gain added and
capped again), a `Take` that pays is an `Admit`, and one that does not, with or
without a sweep, leaves every level alone, by `EvictionIsInvisible`'s invariant.

**WriteQuotaProofs.** `QuotaTypes`, `CapHolds` and `OwnEditsCount`. The cap alone
is not inductive, because a request already let in may log above it; `QuotaInv` counts
a user's rows and requests together, which starts below the cap, is conserved
by logging, and only falls with time.

**SearchMirrorProofs.** `MirrorTypes`: the listing has every row once, through
insertions and deletions anywhere in it. `DriftExplained`: `OwedInv` says that a
slug whose document differs and that nothing has disturbed has its last sync
still in flight or its row in the page the backfill holds. While there is no
collection there are no documents, and the backfill holds no page
(`CollectionHolds`), so a call that is refused then is the only way in which it
leaves a trace.
`BackfillIsComplete`: while nothing is deleted, rows only move towards later
pages, so what is still unread stands behind the offset, and a short page ends
at the end of the listing.

**ProjectPersistenceProofs.** `ProjectTypes` and `LoadsAreShown`. `LoadInv` ties a
tab's load to its sign-in and its hydration: only a signed-in tab waits for a
load, and while it does `hydrated` is down, so that the answer replaces what
the screen showed. That is why the reset of `hydrated.current` when the store
changes matters.

`EditsAreKept` is the longest proof. `KeepsEdits` says of each edit handed to the
autosave that some store, PUT or timer has it while `calm` holds; what must be
known besides is that nothing on its way lacks it. `KeepInv` has two parts. `Shape`
holds always: contents are of edits that were made (`ContentsReal`), a tab that
nobody is signed in to saves what it shows (`TabsShow`), and a guest's session
sends nothing to the API (`GuestSession`). `CalmInv` holds while nothing has gone wrong:
all PUTs in flight carry the same content, and it has all that the row has
(`RowGrows`); a signed-in tab shows and will save no less than the API has or will
have (`SignedTabs`), any other tab shows no less than local storage (`LocalTabs`),
what such a tab adds is new to the API (`Fresh`), and one migration at a time
carries the local copy, after which nothing is missing (`Migration`, `MovedOut`).
From these, every save, load and reload replaces a content by one that has its
edits, and each owed edit has a place (`HasEdit`). Local storage that refuses a
save or hides its entry ends `calm`, but for a sign-in that finds no entry to
migrate: `SignsInMoves` shows that this is safe, because the entry stays and, with no
other page open, the tab shows all of it. TLC found `KeepInv` and
`Owing` to hold in every state of the run's instance.

**EditChatProofs.** `ChatTypes`, and `CancelHolds`: an edit that was dropped is
known to no request, is in no message, is not queued and is not on the card
(`DropInv`), because a proposal comes to the card once (`ComingInv`), and a card
of the workbench whose confirmation was sent or waits has its buttons disabled,
Cancel too (`HeldInv`).
`SaysHolds`: while no connection or answer was lost there is one handler
(`OneHandler`), and while the workbench has not overlapped two applies there is one
PATCH or result on its way (`OneEdit`). So the field changes only by an apply
whose result is the next the chat will hear, and the last `applied` that is
handled, streamed or read names what is live (`LastWordIsLive`).

**AgentLoopProofs.** `LoopTypes`, `RobotsAreClosed`, `ShippedBeforeClosing`,
`CanvasFollows`. The invariant relates the counters to the queue, and the canvas
to `intended`: they agree whenever the queue is empty, and while it is not a
robot still to ship makes them agree, unless an update came in between.

Every safety invariant and action property of the passing runs is proved, with
the hypotheses named above for `LiveMatchesLog`. Only model-checked is liveness
under fairness, which the prover does not reach: `TrackedSettle`, `RendersShow`,
`EditsReachAStore`, `Unlocks`, `QueuedIsSent`, `Ends`.

## 5. What is not modelled

* Catalogue reads, statistics, search queries and ranking: no state.
* Emails and Supabase functions: output only.
* Validation and formatting: a rejected body changes nothing.
* Minting of keys, `last_used_at`, the users table: no other part reads what
  they write, but for the attribution that `WriteQuota` takes as given.
* The list and delete routes of workbench projects: no page calls them.
  Signing out: a page that loses its session is loaded anew.
* The moderation page and the render poll are clients of routes that are
  modelled; what they may ask for is in `Reviewable` and in the fairness of
  `Episodes`.
* Latency timers (`lib/latency`): state of single buttons.
* The canvas apart from projects, edit card and the agent's nodes: layout,
  snapshots, the tray, lane cards.
* The scraper: a sequential program, run by hand.
* Rendering, prompts, recipes, seeds, generated types and data scripts.

Much of the repository is of the last kind: of 36 thousand lines most are views,
the seed catalogue, type declarations, prompts and scripts, which keep no state
between calls and have nothing to interleave. The modules therefore stand for
a small share of the lines, but for most of those that change shared state.

## 6. Where the code and its comments part

Checked by runs that expect a violation:

* `claim_merge`: `repo/types.ts:88` says a patch is merged into the existing
  blob. Two concurrent PATCHes of different fields each write the whole blob
  they read, and one is lost (`prisma.ts:174`).
* `claim_reject_undoes`: `prisma.ts:337` says reject restores the live row. An
  edit that added a field leaves the field behind.
* `claim_migration`: `use-migration.ts:34` says that a failed migration leaves
  the projects in local storage. `ApiProjectStore.save` swallows its errors, so
  the local copy is deleted although nothing was stored.

Seen while modelling, without a run of their own:

* `repo/types.ts:104`, "Every PATCH creates a mutation row": not when
  createMutation fails after patchBySlug has written. `unlogged` in
  `AuditComplete` is exactly this exception.
* `schema.prisma:192`, edits are live while pending: not after an older edit of
  the field is rejected, since only revert looks for newer edits.
* `mutations.ts:141` offers `force: true`; nothing reads it. The check counts
  reviewed rows as well, so the advice "review the newer mutation first" does
  not help either.
* `mutations.ts:121`, the newer-edit check: it sees the ten newest rows only,
  and of two edits in one millisecond neither is newer.
* `internal-api-keys.ts:174`, pending rows of a revoked key are rejected: not
  those logged by PATCHes already in flight (`OnlyStragglersSurvive` says how
  many). If the cascade fails after `revoked_at` is set, a retry gets 404 and
  the rows stay pending.
* `simulations.ts:328` says status is monotonic. A slower overlapping read takes
  a finished episode back to running; `SettledStays` says exactly when.
* `schema.prisma:140`, pending to running to done or failed: a read while the
  render is queued takes a running episode back to pending.
* A POST cut off before its submit leaves rows without a job id. No read
  polls them and they never settle, which is why `TrackedSettle` speaks of rows
  with a job.
* `typesense-decorator.ts:15` and `typesense-backfill.ts:14`, the backfill
  reconciles drift: without `--recreate` it only upserts, so the document of a
  deleted row whose delete call was lost stays.
* `rate-limit-writes.ts:6`, "Caps writes per user": PUT and DELETE add no
  mutation row and are not counted.

In the workbench's projects:

* A local entry that does not parse counts as no project (`local-store.ts:27`), so
  a waiting prompt fires and the entry is saved over. A guest whose storage is full or unavailable is not told that
  nothing is saved.
* `workbench-canvas.tsx:1378`, "One rule: project exists in DB -> never fire" about
  the first prompt: in the commit in which Clerk resolves, the effect still sees
  the load from local storage and fires into a project the database has.
* `workbench-canvas.tsx:445`, the save must not fire when the load finishes: the
  hydration changes the watched state, so what was loaded is saved once more.
* Edits that an agent makes while a load hides the canvas are not handed to the
  autosave until the next change.

In the chats:

* `lib/edit-primitives/tools.ts:94` says an applied edit goes to review and "is
  NOT immediately live". It is live at once; the review comes after.
* A connection drawn on the canvas during a stream opens a second one: its
  handler has an old `isStreaming` (`workbench-canvas.tsx:963`).
* A confirmation token is not used up: whoever sends the conversation again can
  apply the edit again. In the workbench every token the user confirmed is in
  every later request.
* The result of an apply closes the card on the screen, which may be another
  edit's; a second confirmation that has to wait replaces the first.
* The workbench's card stays disabled if the stream ends without a result of the
  apply (`held` has no other way down than a result, a new card or Cancel, which is
  disabled too).
* The drawer, asked to confirm again after a lost answer, reports a failed edit
  with status 200, because the value is there already; cancelled after a
  lost connection, the old request may still apply the edit.
* `workbench-canvas.tsx:1250`, "Optimistically merge the new {field, value}": what
  is merged is the card the closure held when the request was sent, not the edit
  that was applied.
* After `needs_api_key` the chat route sends `done`
  (`app/api/agent-chat/route.ts:120`), which sets the status back to idle
  (`use-agent-chat.ts:288`).

In the agent loop:

* `app/api/agent/route.ts:268`, "preserving arrival order across blocks": only
  robot nodes use the queue. An update of a robot in the same message as the
  node overtakes it and is lost (`overtaken` in `CanvasKeepsUp`).
* The retries at `route.ts:220` surround the call that opens the stream. An
  overload shows at `finalMessage()`, which is not retried.
* The nudge may be added after the last turn, where no model reads it; after an
  error the closing messages count robots that are not sent before them.

## 7. Plan

Done: all the modules above, with proofs for each component.

What is left, in this order:

1. An abstract specification of a mirrored table, implemented by `SearchMirror`,
   with the refinement proved as for `AuditLog`, `EpisodeLife` and `RateLimit`.
2. Ties of `created_at` in the revert check, and the unfinished cascade of a
   revocation.
3. The latency timers, and the scraper's retry.
