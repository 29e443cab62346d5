# Formal models of the DSH plugins

TLA+ models of the concurrent parts of this repository's plugins
(`packages/*`), TLC configurations that model-check them on small instances,
and TLAPS proofs of what holds for every instance. Paths below are relative to
the repository. `PROJECT.json` lists, machine-readably, the runs, the lines each
definition stands for, the hazards and the theorems.

To repeat a check: `tlc -config ExtractionQueue.cfg MCExtractionQueue`; to
repeat a proof: `tlapm ExtractionQueueProofs.tla`.

## 1. Inventory of the system

The repository is a set of plugins for one host process, the DSH Web: it owns
agent sessions, session logs, tools and an HTTP server, and is not in this
repository. A few programs live outside that process: the supervisor that spawns
it and the relay server of the mobile bridge. All are JavaScript: one thread, and
interleaving at every `await`, callback, timer and microtask. What is hard is
therefore not locking but state that is read before an `await` and used after.

| Component | State it keeps | Operations | Talks to | Hard part | Correct when |
|---|---|---|---|---|---|
| Extraction queue (`knowledge-base/src/extractionQueue.ts`) | task map, line, running path, waiters | `enqueue`, `get`, `list`, `settled`, `drain`, worker loop | upload and retry routes, the extraction tool | microtask between `enqueue` and the loop; eviction | one run at a time, truthful status, every waiter released |
| Room feed (`group-chat/src/index.ts`, `stream.ts`, `routing.ts`) | tracker of event ids, runtimes, own account | `discover`, `open`, `sync`, `deliver`, `resolveSelfId`, `deliverToAgent` | room server (HTTP and socket), host agents | two sources of the same events, reconnects, crash | every message read, exactly once, and the trigger kept |
| Room uplink (`group-chat/src/index.ts`, `onSessionEvent`) | `pendingReply` | publish typed messages and turn replies | host event bus, room server, the feed that brings posts back | one variable for all rooms; loop of publish and feed | nothing echoed, replies in their own room |
| Room lifecycle (`group-chat`) | runtimes, poll intervals, pending opens, the room's model | `discover`, `open`, `ensure`, `closeRoom`, policy and model refresh, `selectRoomModel` | room server, session controller, the user's default model | overlapping passes, stale lists, a failed open, a default put back 60 ms later | one session and one loop per room, settings catch up, the user's default stays |
| Supervisor (`supervisor/runtime/supervisor.mjs`) | owned Web, running flag, respawn timer, active command | start, stop, restart, reload, respawn, close | operating system, Web's recovery route, CLI socket | exits, timers and commands at any `await` | one Web, a stop that lasts, sessions recovered |
| Profile guard, progress server (`supervisor/runtime`) | profile files, listeners | repair a profile, relay progress | file system, browser | crash between two file steps | the profile loads or is restored |
| Mobile bridge (`mobile-bridge`) | connection generation, socket, pairing, ticket | connect, disconnect, rotate, revoke | relay | late answers of an abandoned connection | at most one socket, of the last request |
| Relay (`mobile-bridge-server`) | desktops, phones, tickets | upgrade, ticket, revoke, forward | desktops, phones | replaced sockets, consumed tickets | a frame reaches the device it is for |
| Query-result analysis (`query-result-analysis`) | checkpoint per analysis | page, child session, checkpoint, resume, reduce | DataOps, child sessions | crash between child and checkpoint, two resumes | each row summarised once |
| Model sync (`dataops-managed/src/model-sync.ts`, `model-settings.ts`) | the sync record, the settings' models with their revision | `adopt`, `detach`, `resumeFollowing`, `setPrivateModels`, `publish` | DataOps server, host settings, the user's edits | two records written in two steps across awaits | the user's entries and choices win, offers arrive |
| Rest of DataOps managed | hand-off file, connector state | upgrade and resume, refresh tools | DataOps server, host | timeouts after success, stale reads | sessions resumed, newest tools win |
| Knowledge index (`knowledge-base/src/ftsIndex.ts`, `vectorIndex.ts`) | SQLite, vectors | index, search | file tree | one promise tail as a lock | the chain survives errors |
| Trash, external changes (`knowledge-base`) | tombstones, marks of own writes | remove, restore, audit | file tree | read, await, write whole | no tombstone lost |
| Everything else | see `PROJECT.json` | request handlers, tools, UI | libraries, DataOps | little concurrency of its own | not modelled, reasons in section 8 |

How they meet: the upload route of the knowledge base enqueues and a tool waits
with `settled`; the room feed and the uplink are two halves of one cycle (session
log, post, server history, feed, session log); the supervisor restarts the host
process in which everything else runs, so its crash and restart are the `Restart`
actions of the other models.

`PROJECT.json` "hazards" lists, at its line, what is hard to test in the modelled
components, with the property that covers it or the reason that none does. Those of
the components that are not modelled are in section 8.

## 2. Conventions

- One module per component, its `MC` module for TLC's constants, one `.cfg` per
  question, and a `...Proofs` module for the theorems.
- One action is one uninterrupted stretch of JavaScript: from an event, timer or
  resumed `await` to the next `await`. Synchronous helpers are operators.
- Operators named `Bug...` stand next to the definition they distort: a plausible
  mistake in that code (a missing reset, a dropped guard). No specification uses
  them; substituting one must break the named property (`PROJECT.json` "mutants"),
  which shows that the property depends on the code.
- Types are proved (`...TypeCorrect`, `AnalysisTypes`), not checked by the runs.
- All runs say `CHECK_DEADLOCK FALSE`: a queue with no work and a supervisor
  nobody commands have nothing to do, and the counters that bound a model
  (`MaxEnqueues`, `MaxMsgs`, `MaxCommands`...) stop it for good when used up. That
  something must still happen is said by liveness properties instead.

## 3. Modules and the code

### ExtractionQueue, ExtractionPromise

| Model | Code |
|---|---|
| `state[p]` | `tasks.get(path)?.state`, or `"absent"` |
| `slot`, `queuedAt`, `clock` | position in the `Map` (an existing key keeps it), `task.queuedAt` |
| `waiting`, `running`, `started` | the closure variables of those names |
| `kicked` | a `queueMicrotask(() => void work())` that has not run |
| `inRun`, `resuming` | `runOne` suspended in `options.run`; its caller about to go on |
| `taskWaiters`, `idleWaiters`, `answer` | `settled()` and `drain()` promises and what callers got |
| `Enqueue`, `Settled`, `Drain` | the functions of those names |
| `Work`, `FinishRun`, `Resume` | entry of `work()`, the rest of `runOne`, the loop's next turn |
| `Evicted`, `AfterEviction` | `evictFinished`, as the set it removes |

`ExtractionPromise` is the abstract service: accept, begin one, end it, forget
only what has ended. `KeepsPromise` is the refinement, with `status <- state`, and
`ServesEveryTask` its liveness. An extraction's result is chosen freely.

### RoomFeed

One room. Message `i` is the room's `i`-th event, so a cursor is a number. The
tracker is `seen`; `poll` is where `sync()` stands (asked, answered); `pushes` is
the socket; `awaiting` and `resolving` are the deliveries suspended in
`resolveSelfId` and `resolveAgent`; `inbox` holds what `followup` and `inject` have
queued and the host has not logged; `linked` and `dropped` are history (the socket
was up at some time; accepted messages that `deliverToAgent` gave up, because
`resolveAgent` failed or because `followup` or `inject` threw, which lines 1081-1085
swallow); `read[i]` counts the copies of message `i` in the session log. `Skipped` says
of a message that the cursor has passed it unread. `Deliver` is `deliver()` for one pushed record or for a page.
`Faults` switches on what a run allows to go wrong: `"push"` (a socket at all),
`"page"`, `"members"`, `"open"`, `"whoami"`, `"resolve"` (that request may fail),
`"throw"` (the agent may refuse a message).
Restart keeps the session log and the server's history and loses the rest;
`Seeded` is `seedFromSession`. Messages queued on the way are sets: the order in
which they enter the log is not modelled.

Who wakes the agent is `Wakes`, the policy "mention" for this member's own messages
and a known roster. Agents' replies come over the feed too; they are accepted and
then dropped, since they are not user messages, and RoomFeed leaves them out.

### RoomUplink

Several rooms and ordinary sessions, one listener. `Write` is a user message in a
session's log, `Speak` an `assistant/message`, `EndTurn` a `turn/end`;
`OnUserMessage` and the `pendingReply` branches are `onSessionEvent`. A post is in
flight until `Commit` puts it into the room's `history` or `PostFails` logs and
forgets it; `Deliver` is the feed returning the next history item to the session,
marked as coming from the room. Turns overlap as they like; `mixed` is history: the turns
of rooms during which another room was in a turn. The server's de-duplication by
`rpcId` is not in the model, so what is shown does not lean on it.

### Supervisor

Operating system: `proc[p]` (unborn, booting, listening, dead, reaped) and
`killed`; `External` is a Web left by an earlier supervisor. A Web takes the port or
finds it taken and dies; exit is noticed later (`ChildExit`). `sup` is the
`RuntimeSupervisor`: its fields under their names, and a program counter per flow
that may be in progress at the same time: the first start, the active command,
respawns, `close()`. An action advances one flow to its next `await`:
`Probe`, `Takeover`, `Drain` are `releaseExternalPort`; `Launch`, `WaitPort`,
`WaitEntry`, `Retry`, `Answered` the rest of `startWeb` (an answer that is not ok is asked
for again, without limit); `WaitExit`, `Check` the rest of
`stop`; `AskRunning`, `BuildEnds`, `Capture`, `StopAfterCapture`, `Recover` the
parts of `restart` and `reload`. `tries`, `down`, `ended`, `owed` and `met` are history:
respawns since the last success, a stop that succeeded with nothing started since, the last
command was answered without an error, what became of the sessions it captured (told, or
named as failed by a Web that answers 200 all the same, which `recoverSessions` only
counts), and whether two flows have been under way at one time.

One assumption is about time: `TimerFires` waits until a start whose child is gone
has noticed, because the respawn delay is at least 2 s and the loops of `waitForPort` and
`waitForRecoveryEntry` look every 200 ms.

### RoomLifecycle

Which rooms are open, above RoomFeed (what an open one does). Several rooms, several
`discover` passes under way at one time.

| Model | Code |
|---|---|
| `room[r]` | the server: membership, `agentTrigger`, model |
| `stored`, `live`, `chosen` | the host: a room's session on disk, in the registry, its model |
| `runtimes[r]`, `loops[r]` | the `runtimes` map with `policy` and `modelKey`; intervals that run |
| `pass[p]` | a `discover()`: the list it read and the room it is opening |
| `opening[r]` | `RoomSessions.pending`, and where that open awaits |
| `sel[o]`, `default` | a `selectRoomModel` call, with the default it read; `agent-default-model` |
| `Discover`, `Listed`, `Advance`, `Register` | the pass: start, answer, the loop up to the next closed room, the end of `open` |
| `Resolve`, `Create`, `Install` | `resolvePersisted`, `sessionController.create`, `installRoomModel` |
| `Selected`, `Restore` | the host's selection (it also changes the default), and putting the default back |
| `Dissolve`, `CloseRoom` | `DELETE rooms/<id>` and what follows its answer |

`users` is history: the default the user last chose, or `None` when selections
overlapped since then or one was cut off; `overlapped` records that two passes were
under way at one time. The save of the default that the host makes in the background
is taken to have landed when the selection returns.

### MobileBridge

Desktop (`mobile-bridge/src/index.ts`, `connect` to `disconnectNow`) and relay
(`mobile-bridge-server`) together, with the two channels of each socket between them.
`attempt[a]` is a `connect()` that awaits, with the generation and the ticket it
captured; `rotate[r]` a `rotatePairing()` likewise; `retry` and `rotation` are the
timers; `pairing`, `shown` and `refreshing` what the settings page sees; `ticket`,
`used` and `bridge` the relay's one ticket and socket per identity; `other` a second
instance with the same identity. A request's effect at the relay (`StartServed`,
`RotateServed`) and its answer at the desktop are two steps, so an answer can come
late or be lost after it took effect. Tickets and sockets are numbers that are used
again once nobody refers to them.

### QueryAnalysis

One analysis and its checkpoint file. `pages` is the query result, as rows per page;
`call[c]` a call of `analyze_query_result` with its local variables and the await it
is at. A page is read (`ReadPage`), its child answers (`ChildAnswers`), the checkpoint
is written (`Save`); then `Gather`, `Reduce` for one group, `Finish`. `Fail` is any
error or abort, `Crash` the end of the process: `writeCheckpoint` renames a finished
file, so a crash leaves the old one or the new one. A summary is the sequence of the
batch children it was made from, which is how `AnswerIsWhole` can say that nothing is
left out, doubled or out of order.

### ModelSync

A workspace that follows another one's models. `published` and `own` are on the
server: a publication carries every provider profile of its workspace, private models
included, and the ids others may use; the reader drops the rest (`Offers`). `held[m]` says
whose entry a model has in the settings, `revision` guards them and is `Unset` as long as
the settings have no models section; `record` is `SyncState`. `call[c]` is an `adopt`,
`publish` or page action at one of its awaits, with what it has read. `Compare` is the
stretch after the fetch (edited since? merge), `ModelsWritten` the write that a changed
revision refuses, unless the read saw no section: then no revision is presented and nothing
is compared. `RecordWritten` writes the whole record read at the start (`base`) with one
field changed. `updates` is the queue of the settings service. `wanted` and `disturbed` are
history: the choices that were stored, and what has happened that a property excuses, such
as a `"stale"` write, of a record that is no longer what the call read.

## 4. Runs

| Run | Question | Result | Distinct states |
|---|---|---|---|
| `extraction_queue` | all properties of the queue, refinement, liveness | holds | 109,955 |
| `room_feed` | once and one way into the log, with every fault, the socket and a crash; polling alone delivers | holds | 185,493 |
| `room_feed_push` | does every message arrive with the socket too? | violated | finding |
| `room_uplink` | no echo with any overlap; final part only and own room for turns no other room's turn overlapped | holds | 1,527,842 |
| `room_uplink_replies` | own room, with two rooms in a turn | violated | finding |
| `room_lifecycle` | one session, one open, one loop; the default stays; rooms catch up | holds | 522,353 |
| `room_model` | does a session end up on its room's model? | violated | finding |
| `supervisor` | all commands, faults, crashes and signals meeting: ownership, bounded respawns, recovery; one Web and a lasting stop until flows meet | holds | 4,498,658 |
| `supervisor_progress` | the same but SIGTERM: commands end, a dark service comes back | holds | 132,104 |
| `mobile_bridge` | one connection, displaced stays down, the ticket is tended, comes back | holds | 632,233 |
| `query_analysis` | sound checkpoint, whole answers, no page paid twice, calls end | holds | 55,948 |
| `model_sync` | the user's entries and choices stay, a follower stays one, offers arrive | holds | 1,513,123 |

Properties, in the words of the code they are about:

- Queue: `OneRunAtATime`, `StatusIsTrue`, `NoLostWakeup` (invariants);
  `StartsInAcceptanceOrder`, `WaiterHearsItsTask` (steps); `EveryCallerAnswered`,
  `ServesEveryTask` (liveness); `KeepsPromise` (refinement).
- Feed: `ReadOnce`, `HandedOnce`, `AcceptedIsKept`, `NoGapBelowCursor`,
  `PollingDelivers`; `EveryMessageArrives`, which does not hold.
- Uplink: `NoEcho`, `LoneRepliesStayHome`, `LoneTurnPublishesItsFinalPart`;
  `RepliesStayHome`, which does not hold.
- Room lifecycle: `NoReplacement`, `OpeningIsWatched`, `LoopIsOwned`,
  `DefaultIsKept`, `RoomsCatchUp`; `ModelCatchesUp`, which does not hold.
- Supervisor: `OwnsNoGhost`, `OneWeb`, `RespawnsBounded`, `LoneStopSticks`,
  `CapturedAreRecovered`, `EveryCommandSettles`, `ComesBack`.
- Mobile bridge: `OneConnection`, `StaysDown`, `TicketIsTended`, `ComesBack`.
- Query analysis: `FileIsSound`, `AnswerIsWhole`, `KeepsProgress`, `CallsEnd`.
- Model sync: `OwnIsKept`, `ChoicesStick`, `FollowerStays`, `OffersArrive`.

Some hold only where nothing overlaps, as far as each says: `LoneRepliesStayHome` and
`LoneTurnPublishesItsFinalPart` (of the turns that no other room's turn overlapped, whatever
overlapped before), `OneWeb` and `LoneStopSticks` (until two flows of the supervisor have
been under way at one time), `LoopIsOwned` (discover passes), `DefaultIsKept` (selections),
`KeepsProgress` (resumes of one analysis), `ChoicesStick` (until a stale record is written),
`FollowerStays` (calls), `NoGapBelowCursor` (the socket). The code serialises none of these; the next
sections say what happens when they do overlap. Others except what the code does lose:
`AcceptedIsKept` and `PollingDelivers` the messages that `deliverToAgent` gives up,
`PollingDelivers` also those of a crash, `OwnIsKept` the write that presents no revision,
`EveryCommandSettles` and the supervisor's `ComesBack` the waits without a bound.

### What the violations show

1. `room_feed_push`. A pushed event raises the tracker's highest id, and `sync()`
   reads from there: an event the socket missed just before is never read. The
   header of `stream.ts` relies on polling as the fallback that prevents this.
2. `room_uplink_replies`. `pendingReply` is one variable and `turn/end` does not
   compare rooms: with two rooms in a turn, one room's words are published in the
   other, and the other turn publishes nothing.
3. `room_model`. `discover` notes the room's new model as applied in the same breath
   in which it starts `applyModelSelection`, and an open whose selection fails leaves a
   session that the next pass takes over as it is. A selection the host refuses once is
   not retried, contrary to the comment at `group-chat/src/index.ts:933-934`.

### Other divergences, without a run

Where the text of the repository promises something the code does not keep, or where
overlapping loses something silently:

- `group-chat/src/index.ts:866-868`: only the first delivery waits for `whoami`; the
  next ones find `selfIdResolved` set and `selfId` unknown, and a self-mention among
  them becomes mere context. The comment says a slow answer delays a trigger.
- `supervisor.mjs:280, 301`: `cancelRespawn` clears a timer that has not fired. A respawn
  that has fired is already probing the port inside `startWeb`, and spawns after a stop that
  has succeeded; so is the first start when a stop command comes before it has ended.
  `StopSticks`, which `LoneStopSticks` restricts, is therefore false as it stands: with it
  as the invariant of `Supervisor.cfg` TLC needs five states (a stop is accepted during the
  first start, both find the port free, the start spawns, the stop's last check finds the
  port still free, since the Web is not listening yet, and the stop succeeds).
- `supervisor.mjs:201-211`: a Web that goes on answering the recovery route with something
  other than success is asked for ever, and the command that waits blocks all later ones;
  line 188 likewise waits for a port that the Web of another flow has taken.
- `supervisor.mjs:422`: captured sessions live in a local variable; when the command fails,
  for instance because the new Web dies before it answers, they are gone, while README.md:76
  promises each a message. Sessions that the Web names as failed are only counted (360-364).
- `model-settings.ts:75, 191`: for a workspace whose settings have no models section the
  read has no revision, so the write presents none, and an entry the user saves between the
  two is overwritten. `writeModels` says of this that "silently overwriting a concurrent
  edit is exactly what this feature must not do".
- `group-chat/src/index.ts:1081-1085`: what `followup` or `inject` throws is swallowed and
  the message, whose id was accepted, is lost to the agent.
- `group-chat/src/index.ts:221`: after a crash the tracker starts from the ids in the session
  log. A message that still waited for its agent while a later one was already logged is
  below that cursor and is never read again; this needs no failed request, only the crash.
- `group-chat/src/index.ts:269-286`: two rooms' selections within 60 ms of each other, or
  a choice the user makes in that window, leave another default than the user's.
- `group-chat/src/index.ts:961`: two passes that open one room start two intervals, and
  closing the room clears one of them. `rooms/<id>/open` (1401) has a `RoomSessions` of
  its own, so its open and that of a pass do not share one either.
- `model-sync.ts:256, 263`: the note becomes what is offered now, so a model the publisher
  withdrew looks like the user's own at the adoption after next, and the workspace
  detaches. A detach stored while an `adopt` awaits its fetch is undone by the record that
  `adopt` read before. A process that ends between the write of the models and that of
  the note leaves adopted models that look like the user's own.
- `model-sync.ts:143`: `fetchPublished` returns no `sections`, so published settings are
  never adopted.
- `mobile-bridge/src/index.ts:587, 754`: the answer of an older request for the list of
  phones can overtake a newer one, and the end of a stream its last chunks.
- `publishableReply` may leave an empty message, which is published all the same although
  `tests/reply-content.test.ts` expects the caller to drop it; a member's own typed message
  returns through the feed under the server's id and is read a second time; the warm-up's
  answer is published as a reply; a delivery whose `resolveAgent` fails is dropped though
  its id was accepted.

### Bounds

Each bound is a CONSTANT, named in the module, and chosen so that the interesting
case needs no more:

- Queue: three extractable documents and one Markdown file, two records remembered
  (so eviction happens while others run), four accepted tasks (a repeat of an
  evicted one included), one caller. Callers do not affect one another or the loop;
  the proofs cover any number.
- Feed: three messages with page size 2 make two pages, an accepted id between
  missed ones, and a reconnect between any two; one crash shows seeding, and a message
  that the seeded cursor skips. Two of the three messages may mention the member.
- Uplink: two rooms (interchangeable, hence the symmetry) and one ordinary session,
  two written messages, one of a peer, two turns of two parts, one restart. Two
  turns and two rooms suffice for a reply of one to be published by the other; that a
  third turn, after two that overlapped, is untouched by them is left to the proofs. Of the
  kinds that are never published, "quote" stands for the three: they take the same
  branch.
- Supervisor: four Webs (the command's, the respawns' and what an overlap spawns), one
  respawn attempt and then exhaustion, one command of any kind with two crashes in
  `supervisor`, one crash in `supervisor_progress`; every fault, alone and together. Two
  respawn flows can be in progress. The proofs of the five invariants need no bound: several
  commands in a row are theirs.
- Room lifecycle: two rooms (one behind another in a list), two passes (an overlap), one
  change on the server or by the user, one failure or restart of any kind; two places for
  calls of `applyModelSelection`. The proofs of the four invariants need no bound.
- Mobile bridge: two disturbances after the first connection, such as a takeover after a
  pairing or a restart of the relay during a rotation; two attempts, two rotations and two
  sockets at a time are what the code can reach before it supersedes the older one.
- Query analysis: three calls, two at a time (a call, its resume, and another resume
  meanwhile); results without rows, with an empty page in the middle and at the end, and
  with five pages, which in groups of two make three layers and an odd rest.
- Model sync: two models of one provider, one of them in the smaller publication; two calls
  at a time and three events are an edit, a failure and a request in any order.

## 5. Fairness

Each run that checks liveness uses a specification with fairness.

- Queue: the microtask and the resumed loop run (the event loop guarantees it), and
  every extraction ends, since tools and requests are killed at
  `EXTRACT_TIMEOUT_MS`. Nothing forces callers.
- Feed: intervals fire and requests end. A server that is asked again and again
  answers in the end, so `Answer`, `Page` and `OpenReady` are strongly fair: a
  failure that repeats for ever is not the code's to repair. The socket, the posting of
  messages and the host's driver are under no fairness.
- Supervisor: a process starts or ends, a killed one ends, an exit is noticed, timers
  fire and requests end (with an answer, ok or not, or an error). No crash and no command is
  forced, and no answer is forced to be ok: the liveness properties except flows that are
  caught in the waits of lines 201-211 and 188 (`Endless`), which have no bound. The Web is
  assumed to end on SIGTERM: the code waits for it without a limit of its own. Each flow is
  fair as a whole, since its steps follow one another.
- Uplink: no liveness is claimed: a failed post is not repeated.
- Room lifecycle: the discover interval fires and what is awaited ends, with an answer or
  an error. Failures are bounded, since a server that always refuses cannot be joined.
  No change, no turn and no dissolution is forced.
- Mobile bridge: timers fire, requests and frames arrive or fail. A rotation that keeps
  failing passes `expiresAt` in the end (`RotateFailed(r, TRUE)` is strongly fair): time
  goes on. No command, pairing or fault is forced.
- Query analysis: a call that runs goes on, as every await is answered or throws. Nobody
  has to resume; a crash ends a call.
- Model sync: what is awaited ends, and sign-ins recur, since tokens expire (`Adopt`, in
  any of the free places). No edit, request or failure is forced.

## 6. Proofs

All by induction, for every value of the constants allowed by the module's
`ASSUME`; types are part of the invariant. The assumptions only type the bounds and
keep markers such as `None` apart from data; no theorem has another hypothesis.

**ExtractionQueueProofs** (`QueueAssumption`). `IInv` is TypeOK, `OneRunAtATime`,
`StatusIsTrue`, the two parts of `NoLostWakeup` (work and waiters are reached) and
`OneLoop`: `started` is set exactly while one loop is suspended in a run or about to
resume. None of the stated ones is inductive without it: an arbitrary state with
`started` false and a run in progress would let `Work` start a second. Two lemmas
carry the argument: eviction never touches what is in flight
(`EvictionKeepsInFlight`), so an entry in line always has its record and a turn takes
the head (`TurnTakesHead`). From `IInv`: `TypeCorrect`, `Serialized`,
`StatusTruthful`, `WakeupNeverLost`, and `Refinement`, that `Spec` implements
`ExtractionPromise`: each action is an `Accept`, `Begin` or `End`, or leaves `state`
alone. `StartsInOrder` adds `LineIsOrdered`: the line is sorted by `queuedAt`, since who
joins is newer than all before and only the head leaves. `WaitersAreTold` is about
`FinishRun`, the one action that releases the waiters of a task: the record it leaves
shows the outcome they heard, or eviction has dropped it.

**RoomFeedProofs** (`FeedAssumption`). `FeedInv` adds to `ReadOnce`, `HandedOnce` and
`AcceptedIsKept` why they hold: while the room is open the tracker knows whatever is on
its way or in the log, and before that nothing is on its way (`TrackerKnows`);
messages wait for the account only while the one request runs (`AskedOnce`). An agent that
throws takes a message off its way, which disturbs none of these; `FeedKeepsAccepted` then
follows each accepted message to the log, to its way or into `dropped`. Crash and `seedFromSession` are the delicate step. `PolledFeedHasNoGap` is about behaviours
in which no socket was linked and nothing restarted: its `PolledInv` is that, as long
as this is so, accepted ids are a prefix and a page starts inside it. `HighestId` and
`LowestId` justify the two `CHOOSE`s.

**RoomUplinkProofs** (`UplinkAssumption`). `UplinkNoEcho` holds whatever overlaps:
`EInv` says that what is published is numbered no higher than what was written, said
or received (`Sourced`), that a pending reply has been said and is not published yet
(`PendingIsNew`), and that every published reply has been said (`PartsAhead`), so that
the next one of any kind is new. `UplinkLoneRepliesStayHome`
and `UplinkLoneFinalPart` hold with any turns overlapping, of the turns that no other room's
turn overlapped. `HInv` adds why: rooms that are in a turn together are both known as
mixed (`MixedKnown`); of a turn that is not, what is pending is its last part or nothing (`PendingIsLast`), and it has
published nothing yet (`NotYet`). What overlapping turns leave in `pendingReply` is gone
when the last of them ends, which is why a later turn is untouched.

**RoomLifecycleProofs** (`LifecycleAssumption`). `LifeInv` adds to the types three
facts. `Unminted`: a room whose session is about to be created has none, since its place in
`ensure`'s map of pending opens is taken (`LifecycleNoReplacement`). `DefaultHeld`: a
selection that is alone noted the user's own default, and while none has saved its
model the default is the user's (`LifecycleDefaultIsKept`).
`LoopInv`: until two passes overlapped, a pass stands at one room, and a room that is
open has the one interval it set (`LifecycleLoopIsOwned`). That a pass takes the first
room of its list which is not open needs a least element, from the well-founded order of
Nat.

**SupervisorProofs** (`SupervisorAssumption`). `SupervisorTypeCorrect` and
`SupervisorOwnsNoGhost` come from one invariant, over all flows: a Web becomes owned
only when it is spawned and its exit event clears it, whoever is waiting.
`SupervisorRespawnsBounded` needs `Budget`, since the bound alone is not inductive:
an armed timer is a try still to come, and a success may reset the count while it is
armed, which is why the bound is `MaxRespawns + 1`.
The other three hold with every command, crash, signal and fault allowed.
`SupervisorRecoversCaptured`: `InShape` says what a flow at each point is doing and that only
the command captures and recovers, `Remembers` that as long as captured sessions are owed
their message, the command that captured them is under way and will ask for their recovery
before it can end well; a failure ends it with an error. None of it depends on what other
flows do meanwhile.
`SupervisorOneWeb` and `SupervisorLoneStopSticks` are about behaviours in which no two flows
have been under way at one time, crashes and pending respawns included. `Apart` is their
invariant: until then at most one flow is busy (`OneFlow`), the fields say where that flow
stands, for instance that nothing is owned and no timer is armed when a stop makes its last
check, and that after a stop no timer is armed and nothing is owned (`Calm`), and the Web
that lives and was not told to end is the one that is owned (`NoneHidden`). That a stop does
not leave a Web behind needs all three: the flow which would spawn it is not under way, the
timer which would start that flow was cleared, and what lives was owned and therefore killed.

**MobileBridgeProofs**. `Core` is `OneConnection` and `StaysDown` with their
reason: an attempt that is not of the current generation never opens a socket
(`OldAttempts`), and the desktop knows every socket that is not closed
(`KnowsSocket`), so starting anew closes it. `BridgeTicketIsTended` needs to know whose
a ticket is (`TicketInv`): one just issued is nobody's, the one an attempt was given
becomes the one that is held, a rotation of the held ticket is about the current socket
(`HeldTickets`), and what a rotation brings is new (`NextTickets`). So a late answer
never replaces the ticket of another connection, and the timer it sets is for the ticket
that is shown.

**QueryAnalysisProofs**. `SoundInv` ties what a call holds and what the file holds to
one shape: the pages done are the first ones, and cursor and row count follow from
them. Hence `AnalysisFileIsSound`, for any crash and any number of resumes.
`ProgressInv` adds, for calls that never overlapped, that the one running call has at
least what is saved. `AnswersAreWhole` follows the reduction: a layer is described as
the slices of the batches between increasing cuts (`Cuts`), grouping takes cuts away, and
the last layer is the one slice from the first batch to the last. The model's `TotalRows`
and the library's `FlattenSeq` are recursive functions; the proof exhibits a function that satisfies the
equation and shows, by the least number at which two of them could differ, that it is the
only one. `WholeInv` says of every call, of the file and of every answer that they are
the whole of what they should be, overlapped or not; that all answers agree needs that
calls did not overlap (`OneAnswer`). `AnalysisTypes` then types the layers as well.

**ModelSyncProofs**. One invariant per property. What a merge keeps is fixed when the models
are read and stays true as long as the revision does (`Merging`), whatever overlaps:
`SyncOwnIsKept` needs nothing else, and excepts only a write that presents no revision.
`SyncChoicesStick` rests on what a call makes of the record it read (`Basing`): every write
but the user's own keeps both choices of its base, so as long as each write finds its base
in place (`"stale"` has not happened) the choices stand, whatever overlaps or fails. Its
clause on publications, and `SyncFollowerStays`, are about calls that ran alone, and add
what a single call has read (`Reading`, `Following`).

### Only model-checked

- Every liveness property (`EveryCallerAnswered`, `ServesEveryTask`, `PollingDelivers`,
  `RoomsCatchUp`, `EveryCommandSettles`, both `ComesBack`, `CallsEnd`, `OffersArrive`):
  fairness and ENABLED are outside the prover's reach.
- That the violations are real: TLC's traces, on the instances of section 4.

All invariants and action properties of the passing runs are stated by theorems. The
models use no RECURSIVE operator.

## 7. Plan

One run per distinct question; abstract specifications become properties of runs that
exist. What is left, in this order:

1. Supervisor: what still holds of `OneWeb` once flows have met, for instance that every
   Web but one finds the port taken and ends.
2. ExtractionRoutes, over ExtractionQueue: the two paths under which one document may
   be enqueued.
3. RoomLifecycle: `dispose` in a living process, and the `rooms/<id>/open` route with
   its own `RoomSessions`. RoomFeed: the order in which messages reach the agent.
4. MobileBridge: the list of phones and the tunnelled requests, where an older answer may
   overtake a newer one.
5. WorkspaceUpgrade (hand-off file against crash and timeout) and ToolDisclosure (a
   refresh that awaited against a later one) of DataOps managed.
6. TrashRecord, ExternalChange and IndexLock: the knowledge base's smaller protocols.

## 8. Not modelled, and why

The models cover the code in which the order of events decides what happens. That is a
small part of the repository: most of its hundred thousand lines are browser components,
request handlers, wrappers of libraries, and transformations of text and tables, which
have no state that a second actor could meet halfway.

Left out of the modelled components:

- `list()` and `active()` of the queue and `status` of the supervisor only read.
- The supervisor's socket protocol, progress server and profile guard: relays and file
  repair. A supervisor that itself crashes is covered as far as its successor is
  concerned by the adopted Web (`External`). SIGTERM between the stop and the spawn of a
  restart is in the model, but no text promises anything about the Web that then stays;
  SIGTERM before the handlers are installed (`supervisor.mjs:553`) is not.
- RoomLifecycle: `dispose` other than by a restart, the open route, and
  `session-maintenance.ts`.
- MobileBridge: the list of phones, tunnelled requests and sockets, the relay's traffic
  with phones and its stores of users and devices.
- QueryAnalysis: what a child session answers. ModelSync: the settings' sections.
- Content: message blocks, mentions inside text, summaries, ranking, chunking and
  rendering are pure functions over strings; the models keep only what routing reads.

Components without a module:

- Knowledge base, beyond the queue. Its hazards: one document enqueued under two paths
  (`index.ts:6752` and `4898`); the trash's records read, changed and written whole
  (`index.ts:4127`); marks of own writes that may outlive their event
  (`externalChange.ts:49`); the chain of promises that serialises indexing
  (`ftsIndex.ts:899`). All are in the plan.
- The rest of DataOps managed: the hand-off of `workspace-upgrade` (lines 204 and 282) and
  the refresh of tools (`tool-manager`, line 197). In the plan.
- `task-bus` (connector state read, changed and written, line 209), `credential-manager`,
  `workbench-vault`, `ocr`, `mineru`, `sql-workbench`, `api-client`, the DataOps account,
  admin and integration plugins, charts, office and image plugins, the mini-programme:
  requests, CRUD and UI with no protocol of their own.
- `ssh-manager`: sessions, transfers and tunnels over a library.
- The host, the room server, DataOps and the operating system are not in the repository:
  they appear only as the actions the code relies on and are marked external.
