# WatchWarden in TLA+

WatchWarden updates Docker containers on many hosts. A Go **agent** on each host
talks to the Docker daemon: it checks for new image versions, replaces containers
(stop-first or blue-green), rolls them back and repairs what a crash interrupted.
A TypeScript **controller** keeps a WebSocket connection per agent, decides what is
updated and when, stores everything in PostgreSQL and serves an API. A **web UI**
(React) shows it all and sends the operator's requests. An agent can also run alone
(solo mode).

The modules of this directory model the parts of that system in which the order of
steps decides what becomes of a container, a secret or a setting. `PROJECT.json`
maps each definition to the lines it stands for and lists runs, mutants, hazards,
findings and theorems.

## 1. Inventory

| Component (source) | State it keeps | Hard behaviour | What makes it correct | Module |
|---|---|---|---|---|
| Lock table (`agent/updater.go`: `lockContainer`, `StartLockCleanup`) | a mutex with a timestamp per container name | a goroutine waits for a mutex the janitor takes out of the map | one holder per name; nobody retries for ever | `LockTable` |
| Update engine (`agent/updater.go`, `docker.go`) | snapshots in memory; the daemon's containers, images, tags | a dozen daemon calls that fail one by one; the lock is given back during the pull; commands that take no lock | one replacement at a time; a failed update brings the old version back | `Updater` |
| Snapshot store, crash recovery (`snapshot_store.go`, `RecoverOrphans`) | one file per container ID | writes fail; files outlive containers; a crash in a recovery | the file is there before the container goes; every app gets its container back, under its name | `Updater` |
| Health monitor, crash-loop detector (`agent/healthmon.go`) | a monitor per container, rollbacks in progress, restart trackers | both decide on one container, then wait for its lock while it is replaced | one automatic rollback per update | `HealthMonitor` |
| Command handlers (`agent/managed.go`) | batch progress, prune lock | a goroutine per message | commands do not undo each other | with what they call |
| Agent hub (`controller/src/ws/hub.ts`) | connections, promise chains, in-flight marks, pending requests | each handler is cut into pieces by `await`; old and new connection of one agent | messages of an agent in order; no mark is left over; connected means online in the end | `AgentHub` |
| Prune service (`ws/prune-service.ts`, `api/routes/prune.ts`) | active prunes, the run over all agents | check, `await`, set; timeout against a late answer; one disconnect rejects everybody's requests | one prune per agent; an outcome belongs to its request; no run waits for nothing | `PruneService` |
| Session batcher, notifier (`notifications/*.ts`) | pending check and update batches, their timers, what was announced | a batch is replaced while it holds results; results that never cease | a timer belongs to a batch; each update is announced once; each outcome is reported | `SessionBatcher` |
| Check scheduler (`scheduler/engine.ts`, `api/routes/config.ts`) | cron tasks, global and per agent | a row is stored and applied in two steps | what runs is what the rows say | `CheckSchedules` |
| Update policies (`routes/config.ts`, `AgentDetail.tsx`) | a row per scope over defaults | a request carries one field and stores a row | an edit changes its own field | `UpdatePolicies` |
| Enrolment and recovery (`hub.ts`, `routes/agents.ts`, `index.ts`) | agent rows, tokens, recovery mode | registration goes over several awaits while rows and tokens change | admitted by one's own token only | `Enrolment` |
| Sessions, API tokens, one-time secrets (`auth.ts`, `api-tokens.ts`, three dialogs) | cookie, token rows, dialogs | answers that arrive at a closed dialog; revocation during a check | a secret is shown once; what is revoked stays out | `Access` |
| Notification channels (`notifications.ts`, `AddChannelModal`, `ChannelCard`) | rows, form, requests of card and form | edit and switch from old views; masks that are stored back | they commute; a secret stays a secret | `ChannelForm` |
| Registry credentials (`registries.ts`, `RegistryModal`, syncs) | rows, what each agent was sent | read and send in two steps, an agent connects in between | agents have what the table has | `Registries` |
| Orchestrator (`scheduler/orchestrator.ts`, UPDATE_SEQUENTIAL) | none between updates | cycles, priorities, rows in any order | dependencies first | `UpdateOrder` |
| Container settings, automatic updates (`db/queries.ts`, CHECK_RESULT, `ContainerRow`, `lib/semver.ts`) | rows by container ID, labels, global policy | settings change between the reads of a decision; IDs change | nothing is updated that is forbidden all along | `ContainerRows` |
| Version picker (`VersionPickerModal`, rollback route, `registry-client.ts`) | lists of images and tags | tags move between choice, pull and creation, in the registry and on the host | the image that was chosen | `VersionPicker` |
| Browser (`useStore.ts`, `useSocket.ts`, `ContainerRow` actions) | event store, query cache, timers | fetches overlap with changes and with the page's first one; buffered progress after its end | an old view is about to be refreshed; what is over looks over | `Browser` |
| WebSocket client, pruner's plan, self-update, solo mode, Docker helpers, configuration, SDK and types | see section 8 | | | none |

Interactions. The controller's hub sends commands over the WebSocket; the agent
starts a goroutine per message; a handler of `managed.go` calls the engine and
queues its result; the hub's chain for that agent stores it, clears the in-flight
mark, feeds the batcher and asks the agent to monitor the new container; the monitor
may call the engine's rollback. The engine shares the lock table with all handlers,
the snapshot files with its own next life, and the daemon with everybody, the
operator included. Browsers change rows through the API and hear of changes through
broadcasts, each of which makes them fetch again.

## 2. Plan and how far it has come

First the engine, since it is what may lose a container, with its lock; then the hub,
where everything meets; then the services around it, each with the part of API,
queries and UI that shares its state, and the agent's automatic rollbacks.

| Modules | Content | Proofs |
|---|---|---|
| `NameMutex`, `LockTable` | the promise of `lockContainer` and its implementation | `LockTableProofs`: safety and refinement |
| `Updater` | engine, snapshots, commands, crash, recovery | `UpdaterProofs` (also its use of `NameMutex`), `ContinuityProofs` |
| `HealthMonitor` | automatic rollbacks over what an operation of the engine comes to | `AutomationProofs` |
| `AgentHub` | connections, chains, marks, sweep | `AgentHubProofs` |
| `PruneService` | requests and what is built on them | `PruneProofs` |
| `SessionBatcher`, `UpdateOrder` | batches of notifications, timers, dispatch; batches of updates, their order | `AutomationProofs` |
| `Access`, `Enrolment`, `UpdatePolicies`, `CheckSchedules`, `Registries` | handlers that go on with what they read before an await | `RequestProofs` |
| `Browser`, `ChannelForm`, `ContainerRows`, `VersionPicker` | socket, store, queries; forms, rows, rollbacks | `DashboardProofs` |
| `MCServices`, `MCHubLiveness` | compositions for checking | `DashboardProofs`: `MCServices` |

What the plan has left is in section 8.

## 3. Modules and code

**`NameMutex`** is what a caller of `lockContainer` may rely on: each name has at most
one holder. **`LockTable`** is how `agent/updater.go` keeps that promise with mutexes
that come and go. A goroutine's `pc` follows `lockContainer`: `lookup` (find or create
the entry under `containerLocksMu`), `lock` (`entry.mu.Lock()`), `validate` (is the
entry still in the map and not deleted?), `retry` or `held`. The janitor holds
`containerLocksMu` for a whole sweep and is taken apart into `SweepTryLock`,
`SweepSkip`, `SweepDrop` and `SweepEnd`.

**`Updater`** is one host: `ctr`, `tag` and `registry` are the Docker daemon and the
registry (external; the daemon keeps names unique, and refuses to remove a running
container unless forced); `snapshots` and `disk` are the map and the files of the
snapshot store; `op[t]` holds the local variables of one handler's goroutine and
the daemon call it does next; `rec` those of `RecoverOrphans`. One action is one
call and the code up to the next one. `holder` is the lock per name, which an
update takes at `LockContainer`, gives back for the pull and takes again at
`Relock`. The commands of `managed.go` that take no lock are the single steps
`ContainerDelete`, `ContainerStop` and `ContainerStart`. `Crash` may come at any
point, in a recovery as well; then only `disk` and the daemon are left. Abstracted:
an app is a name with its `-ww-new` variant; an image reference is the app's floating
tag or pins a digest; configuration, networks and mounts go with a container unseen,
the calls that set them up are part of `Start`; a torn file counts as the one before
it; the snapshot that the map has under the name always goes with the one under the
ID. Operations on a `-ww-new` container are not requested.

Two calls answer less than they seem to. `InspectContainer` asks for the image's digest
in a second call and goes on without it: `BlindSnapshot` has `NoDigest`, from which the
daemon creates nothing; `spent.blind` counts these. And of the errors of
`ContainerRemove`, `isNonFatalRemoveErr` takes some for a container that is gone when it
is not (a 409): `RemoveTakenForGone`, counted by `spent.swallowed`, goes on to create a
container whose name is still taken.

**`HealthMonitor`** is one service of an agent. An operation of the engine is what
others can tell apart of it: looking the container up, getting the lock of its name
(and then, for a rollback to an image, whatever has that name by now: FIX-1.1),
removing, creating. `work[p]` belongs to a handler, to the monitor of container `p`,
or to the detector; `judged` is the container it was decided for, `at` the one it
works on. `rolling` is `rollbackInProgress`; it is released when the operation
returns. Time is for how many looks a container has been ill, two being long enough.
Between the inspection and the guard of `triggerRollbackWithReason` nothing waits, so
they are one step. `requestMade` and `undone` are history variables.

**`AgentHub`** is the class `AgentHub` with the update route. Node switches between
handlers at an `await` only, so an action is the code between two of them and takes
in the effect of the query that was awaited. A promise chain is a queue; its `pc` is
the await its first message is at: `ready` (not begun), `auth` (the token is being
checked), `store`, `online` (the write of the status), `containers`, `decide` and
`policy` (the reads before and after the in-flight mark is set) and `notify`. The
chain of a socket's first messages (`preAuthQueue`) is named after the socket,
`agentQueues[a]` is the chain an agent's messages go to once a socket's handlers
know the agent. `offlineWrites` counts close handlers and sweeps on their way to
the database. The agents are the environment: an agent dials whenever it likes,
believes in its last socket (`dialed`) and owes one `UPDATE_RESULT` per container of
an `UPDATE` that reached it there (`owed`); results of rollbacks, or of updates an
earlier connection asked for, may come at any time. Abstracted: `lastSeen` (any
connection may have been silent for sixty seconds), contents, messages that change
nothing the hub keeps for later, broadcasts, the rate limit. `OnlineWritten` and
`OfflineWritten` are the moment the row changes; connections of the database's pool
may overtake each other.

**`PruneService`** has the hub's `pendingRequests` with `sendAndWait`, the service's
marks and runs, and the agents that answer. A settled promise lets its caller go on
before the next event (`EventLoopIdle`). An agent of `Legacy` answers without an id.
Queues of the agent are bounded and drop what does not fit, connections lose what is
under way, and request ids that are done with are handed out again.

**`SessionBatcher`** counts armed timers instead of naming them, so that a timer that
outlives its batch shows. A dispatch is a set of items with the channels still to try;
channels fail, and the entry in the log of a failure may fail too.

**`CheckSchedules`**, **`UpdatePolicies`**, **`Registries`**, **`Enrolment`** and **`Access`**
have requests as records with a `pc`: what was read, what was stored, what is still to
be applied or sent. Each has one history variable that tells the requests the code
cannot order (`raced`, `intermingled`, `behind`) or what was true while a request went
on (`presented`, `wasLive`). Cron expressions, policies, tokens and logins are values.

**`ChannelForm`** keeps of a channel's configuration what the ways back into the form
tell apart: a masked secret, an unmasked value, an object that the form makes a string.
**`UpdateOrder`** takes the recursion of `topologicalSort` apart into a stack of calls;
rows and names come in any order. A container is put into its priority's batch when its
call returns: that is where the grouping of the result, in its order, puts it. Batches
are named by their priority (`batchMap`), `due` holds those the agent has not finished,
and it takes the smallest. **`ContainerRows`** goes from an agent's queue
through CHECK_RESULT with its two reads to the agent again; `barred` collects the
containers whose settings have forbidden an update since the check was handled, and
`MatchesLevel` is `semverMatchesLevel`. **`VersionPicker`** has the registry's tags and
those of the agent's host, the container (what it runs, and the tag it was made from),
the versions its log mentions, and the modal; what is sent is `Body`. The agent pulls and
tags (`AgentPullsDigest`, `AgentPullsTag`), and up to thirty seconds later creates from the
tag (`AgentRollsBack`, or `AgentRestores` when that fails). Meanwhile `LocalTagMoves`, a
pull without the lock or another container's rollback, may give the tag another image,
which `rollback.retagged` notes.

**`Browser`** has the controller's data as a version number; events carry no data but make
the queries fetch. TanStack Query (external) begins a fetch that is under way again when
its query is invalidated, but not a query's first one (`Joined`). The page begins with
that first fetch under way and no socket. `missed` says that one of four things has left
the browser without a trigger, and nothing has read the data since: an event was lost, a
fetch failed, REGISTER wrote its Docker info after its event (`AgentReportsQuietly`), or an
invalidation joined the first fetch after it had read the data (`JoinedTooLate`). The end
of an update is of two kinds, since the hub drops `originalContainerId`: a failed one has
the ID its progress is kept under, a successful one that of the new container.

**`MCServices`** puts twelve components that share no state side by side: `part` is the
one a behaviour is of, the others stay as they begin. So a state of the run is a
state of one component, with the others constant, and what holds of the run holds of
each; `MovingPart`, the view of a state, is that component's part of it. `MCHubLiveness`
does the same for hub and batcher. Where components do share
state (locks and operations, chains and marks, requests and service, the rows and the
agent that reports them, store and rows of the UI), they are in one module.

## 4. Runs

| Run | Instance | Distinct states | What it shows |
|---|---|---|---|
| `lock_table` | 2 goroutines, 2 names, 4 entries, the janitor | 26,506 | mutual exclusion, refinement of `NameMutex`, no call and no sweep is stuck |
| `updater` | 1 app, 2 goroutines, updates and blue-green; 3 requests, 2 faults, 2 crashes | 2,381,642 | no update loses a container a file cannot bring back; one failing call is survived; a failed update brings back the version that ran; crashes leave one container under its own name; blue-green is never dark |
| `updater_rollback` | all six kinds, 2 requests, 1 fault (files included), 1 crash | 120,714 | each operation returns; each recovery ends |
| `agent_hub` | 1 agent, 2 sockets, 2 chains, 2 messages, 1 late offline write, 1 failing query, 1 result owed | 1,678,611 | a connection's messages stay in one chain; no mark is left over |
| `agent_hub_liveness` | the hub with one message besides REGISTER and one late offline write; 1 container, 2 results, 1 channel | 77,215 | a dead connection goes; a connected agent turns online; an outcome is reported |
| `prunes` | 2 agents (one old), 2 prunes, 1 other request, 2 runs, queues of one | 754,684 | marks and prunes are paired; outcomes belong to their requests; no run waits for nothing |
| `services` | twelve components, see below | 2,441,463 | the property of each |

They take between half a minute and two and a half with two workers; the five runs of
section 6 end at their counterexample in seconds.

The parts of `services`: batcher (2 agents, 2 containers, 2 results, 1 channel; about
49,000 states), schedules (1 agent, 2 expressions, 2 requests; 320,000), policies (1
agent, 2 fields of 2 values, 2 edits; 2,000), enrolment (1 machine, 2 sockets, 2 rows,
2 tokens, limit 1; 60,000), access (1 secret, 1 use; 106,000), form (1 channel;
303,000), registries (1 credential, 1 password, 1 agent, 2 requests; 33,000), order (3
containers, 2 priorities; 178,000), rows (1 container, 2 IDs, the UI sets the manual
policy only; 266,000), picker (2 images, 1 tag; 647,000), browser (1 change, 2
actions; 452,000) and health
(4 containers, 2 requests; 25,000).

Why these bounds. *Lock table*: what can go wrong needs two goroutines on one name
and a sweep between look-up and lock; the second name lets a sweep have more than
one entry to visit, and four entries let each name's be replaced while somebody
waits for the old one. *Updater*: operations of different apps share only the file
directory and the recovery pass, so one app and two goroutines show every race. Three
requests let a third operation meet what two raced about; two faults, inspections without
a digest included, are one more than the engine's own repair survives; two crashes put one into a recovery. `MaxId`
never is what stops an operation. *Hub*: a reconnect race needs an old and a new
socket of one agent; forgotten sockets are dialled again. Two chains are the old one
that still runs and the one begun after a close. Two messages are one in work and one
behind it, or one in each of two chains. One late offline write (`MaxOffline`) is what
can come after a new registration; the proofs are about any number of them, and of results
owed. `FaultOrRouteSpec` cuts one combination: a query that fails while the update route
has an agent marked, which leaves the mark whatever else happens (section 6). *Prunes*:
two agents let one's disconnect hit the other's request, two runs overlap, two ids let a
late answer meet a new request. `RunOrQuestionSpec` keeps other requests and runs apart:
a question meets single prunes, a run meets prunes and other runs. *Rows*: what the
UI's other policies do to a row the labels do as well. *Requests*: two under way at a
time are what a race needs; a third could only repeat it, since what a request reads
and stores is one row. *Order*: three containers with dependencies among two of them
and two priorities have cycles, chains and a larger priority on either side. *Health*:
four containers are one given, one made by an update and two rollbacks; two requests
let one update the service and another interfere with what is undone. *Browser*: two
versions tell old from new; more events or versions repeat the pattern, and the
proofs are about any number. Symmetry is used in safety runs only.

*Picker*: two images and one tag are what a tag needs to move, here or there. The types of
`LockTable`, `Updater` and `AgentHub` are no run's business but the proofs' (section 7).

Each property has a mutant in `PROJECT.json`: a plausible bug of the code (a lost
re-check, a snapshot kept in memory only, a timer that is not cleared, a rollback
that is monitored like an update) that the same run refutes. Mutants stand before the
definition they vary.

## 5. Fairness

`LockTable`: Go's mutexes are starvation-free, a goroutine that can lock one again
and again gets it (strong fairness of look-up, lock and validation); a running
goroutine goes on (weak fairness of the rest). Nothing makes the janitor start.
`LockContainerReturns` supposes that sweeps cease, as each failed validation is a
sweep's doing; the code has one every ten minutes.

`Updater`: daemon calls come back (weak fairness of an operation's step), the lock
serves its waiters (strong, by `LockTable`), the container restart policy starts the
agent again, and recovery goes on. No operation has to be requested and no fault or
crash has to happen; both are bounded, so a run ends its trouble.

`AgentHub`: the event loop and the database go on (weak fairness of handlers and
offline writes); `ws` forces a socket closed thirty seconds after `close()`; the sweep
runs every thirty seconds and a closed connection is silent; the agent's ticker
sends a HEARTBEAT over an open socket again and again (strong, since the bound on
messages may shut it out for a while). Nobody has to dial.

`SessionBatcher`: an armed timer of the longest wait fires, a dispatch tries its
channels one after the other and returns (each `send` has a timeout). The sliding
window is not fair: results may come for ever.

## 6. Disagreements

Five runs end in a violation; `PROJECT.json` quotes the lines in full.

| Run | What the code does | What is said |
|---|---|---|
| `recovers_latest` | snapshot files are never removed after a success; recovery takes any file of a name, by map order | recovery uses "the exact pre-update image digest" (`website/docs/architecture.md`) |
| `rollback_reaches` | a rollback recreates from the floating tag, which the pull has moved | it "restores a container from its stored snapshot" (`updater.go:865`) |
| `settings_survive` | a container that is recreated has a new ID; the heartbeat deletes its row with what the operator had set | values set in the UI "are never overwritten by agent heartbeats" (`labels.md`) |
| `dependencies_first` | the order of updates reads the columns of the UI, labels are stored in others | "Docker label values always win" (`README.md`) |
| `edit_keeps_secret` | masked secrets are fetched into the form and stored again | "Fetch single channel with decrypted config (for editing)" (`useNotifications.ts`) |

Met while modelling, in the models as the code has them, and given no run:

*Agent.*
- `isNonFatalRemoveErr` is for a container that is "already gone" (`updater.go:482`; "non-fatal
  if already gone", line 812) but accepts any 409 and "already in progress". The update
  then creates under a name that is still taken, the restore fails for the same reason,
  and the stopped old container is left as it is: one failing call and the app is down.
  `SingleFaultKeepsService` excludes this one (`spent.swallowed`).
- A snapshot whose inspection found no digest (`docker.go:412`) has nothing the restore
  of a failed update could create from (`updater.go:836`). That counts as the one thing
  that goes wrong; with another the app is down.
- The recovery of a rollback to an image creates from `ImageRef` (`updater.go:1035`), not
  from the digest: it may bring back another version than the one that ran.
- A rollback to a digest creates from a local tag (`updater.go:1010`, `1031`), which a pull
  or the rollback of another container may move while the old container stops. The
  comment on it says "so the exact version is pinned even if the tag moves upstream in
  the meantime" (`updater.go:922`); on the host it is not. `RollbackReachesShownImage` is
  about rollbacks whose tag nobody else moves between the two.
- CONTAINER_DELETE by a name or a short ID removes the container and leaves its file
  (`managed.go:574`).
- A rollback to an image removes the container with no snapshot on disk
  (`updater.go:1022`), against ADR 003, "Before any destructive step".
- The file of the container an update replaced outlives CONTAINER_DELETE; the next
  start of the agent brings the deleted container back (`managed.go:574`).
- The crash-loop detector looks for a snapshot under the ID of the crashing container
  (`healthmon.go:390`), but an update saves it under the ID of the one it replaced
  (`updater.go:771`): what a successful update made is never brought back from a crash
  loop, although `README.md:65` says the detector "detects and rolls back containers
  stuck in restart loops". What does have a snapshot under its ID is a container whose
  update could not stop or remove it.
- For the same reason a monitor without an old digest calls a `RollbackContainer` that
  finds no snapshot.
- `h.monitors` is keyed by the ID the hub sent and asked for the first twelve digits
  (`healthmon.go:384`): the detector never sees a monitor with a full ID.
- An automatic rollback that waited for the lock is applied to whatever has the name
  by then (FIX-1.1), be it a newer update.
- With both self-update containers stopped and the original name free, the branch that
  logs a rename removes the container (`updater.go:390-392`).

*Controller.*
- Messages before and after authentication are on two chains, and so are those before
  and after a close event: two HEARTBEATs of an agent may interleave, against
  `wiki/pages/components/controller.md:29`.
- A handler that outlives its connection writes `online` after the close handler's
  `offline` (`hub.ts:306`), and nobody takes that back before the agent reconnects.
- A query that fails after the in-flight mark is set leaves it (`hub.ts:396`,
  `agents.ts:196`), which is why `MarkNotLeftOver` speaks of a database that answers;
  the first of several `UPDATE_RESULT`s clears the mark of the whole update
  (`hub.ts:518`).
- One agent's disconnect rejects the pending requests of all (`hub.ts:862`), contrary
  to the comment above it.
- The recovery counter is not reset within the life of the process (`hub.ts:1113`).
- At shutdown notifications are flushed when the key their channels are decrypted with
  may be gone already (`index.ts:259`).
- PATCH of a policy answers 200 for a row that has vanished.
- A rollback asked for from a row with a former ID has no target (`agents.ts:244-270`), and
  the agent, told to use a snapshot, fails: the name is that of the container in place.
- A single `UPDATE_RESULT` is passed on without `originalContainerId` (`hub.ts:540-552`),
  which is what the agent sends after each update. The UI relies on it ("Use
  originalContainerId when present", `useStore.ts:283`) and calls what is left over "a stale
  entry (e.g. old agent without originalContainerId)" (`useStore.ts:305`). So the progress
  of each successful update stays until the timer of five seconds.
- REGISTER writes agent version and Docker info after its only broadcast
  (`hub.ts:272-288`): nobody is told to fetch them.

*Web UI.*
- Events less than half a second apart put the refresh off (`useSocket.ts:15-19`).
- An invalidation during the first fetch of a page joins it. If that fetch has read the
  data before, what `onopen` or the debounce was to bring is not fetched.
- A PRUNE_PROGRESS after PRUNE_COMPLETE brings the progress back; a lost
  PRUNE_RUN_COMPLETE leaves the run running.
- The fallback timer five seconds after an update clears the progress of a second one.
- A pending action other than a check has no timeout; one of the same kind as the last
  result is cleared at once (`ContainerRow.tsx:213-221`).
- An expanded form is reset by a refetch that brings a change.
- `savedChannelId` outlives the dialog it was for (`AddChannelModal.tsx:198-241`).

## 7. Proofs

All leaves are checked by TLAPS with Z3, Zenon and LS4. Nothing is assumed but the
named assumptions on constants, which TLC evaluates in the runs.

**`LockTableProofs`**: `TypeCorrect`, `MutualExclusionHolds`, `HeldEntriesStay` and
`TableImplementsNameMutex`. Mutual exclusion is not inductive: that two holders
cannot have different entries of one name follows from `HeldEntryInTable`, which in
turn needs that the janitor drops an entry only while it owns that entry's mutex
(`JanitorOwns`) and that nobody changes the map during a sweep (`TodoInTable`). The
refinement maps a step to one of `NameMutex` or to a stutter.

**`UpdaterProofs`**: `UpdaterInvariant`, `TypeCorrect`, `ReplacementIsExclusive`, for any
apps, goroutines, kinds, faults and crashes. The strengthening says of every
operation that its container still has the name its lock is for (`Sound`) and that
it has that lock whenever it may replace something (`LockShape`). The name is read
before the lock is taken, so the heart of it is that a container keeps its name
except for blue-green's own rename and recovery's (`Kept`, `Renamed`).

The module also proves what ties the engine to its lock table: `LocksAreReturned` (a lock
is held only by an operation that is at work on the name of that lock: every return gives
it back) and `EngineUsesNameMutex`, by which the engine asks for, gets and gives back
locks as `NameMutex` says, `LockTable` being the table that keeps that promise
(`TableImplementsNameMutex`). The one step of the engine that is two of `NameMutex` is the
port conflict of a blue-green update, which unlocks and asks again as an update
(`ReleaseAndRequest`); a crash starts the locks anew. Each step of an operation is one of
five moves on its lock (`LockMove`), and that a thread which asks has no lock left rests on
`LocksOwned`. Both theorems are about every instance; no run of section 4 states them.

**`ContinuityProofs`** is what the engine is for: nothing is lost for good and nothing goes
dark. Each theorem but one has a hypothesis on the kinds of requests, and is false without it.

- `RemovalsAreRecoverable`, under `UpdatesOnly` (updates of both strategies and a disk that
  takes files; a rollback to an image saves no snapshot). Its invariant `SafeInv`: an
  operation's snapshot describes its container to the letter, but for the digest when an
  inspection has not found it (`Describes`), it is on disk from the save on, and recovery removes a temporary container only while the original is there.
- `BlueGreenKeepsService`, under `OperationsOnly` (CONTAINER_STOP and CONTAINER_DELETE may take
  away what a blue-green update relies on): rollbacks and updates of any kind beside it,
  any failures and crashes. `TriedInv` says that the new container does not run before
  its trial and runs from then until the old one is stopped.
- `ServiceSurvivesOneFault`, under `UpdatesAlone` (a rollback may replace a container that
  does not run; commands stop them on request). `ServiceInv`, as long as one
  thing went wrong (`OneFault`: a fault or a missing digest, no removal that falsely counts
  as done) and no crash came: every app has a running container, or is in the window of one
  update, and each operation knows at each step what it has left of its app
  (`Serves`). An update that turns back, to the old container or the old image, has had
  the one fault, so the digest it goes back to is known and the way back cannot fail again. The lock makes the windows exclusive.
- `FailedUpdatesRestoreVersion`, of any requests, faults and crashes: what an update has
  noted of its container is that container's digest or none (`RestoreInv`), whatever the
  pull has made of the tag, and what it recreates has it.
- `CrashesLeaveOneContainer`, under `UpdatesAlone`. `SettleInv`, as long as no call failed:
  names are unique, each running operation secures what its app has left (`Secures`), a
  crash leaves an app with a container, under either of its names or both, or with a
  file (`Left`), and what `RecoverOrphans` has listed and seen is so at each of its steps:
  there are no temporary names left when it turns to the files, and a name it has not
  seen is free (`RecSettles`). A crash in recovery leaves no less.

**`AgentHubProofs`**: `HubInvariant`, `TypeCorrect`, `ConnectionsStayInOrder`,
`MarksAreCleared`, for any agents, sockets and chains. Order needs to know where
messages may be: those of a socket in an agent's chain came after it was registered,
REGISTER is the first in its socket's queue, and the socket is not registered until
it has been authenticated (`QueuesSorted`); so a socket that becomes an agent's
connection has nothing in any agent's chain yet, and the chain that is deleted with
a connection has messages of dead sockets only. Marks need a case for each way
somebody may stop being responsible for one: who decides sends or clears, what is
sent is owed, what is owed arrives over the same connection, what has arrived
clears the mark when it is handled, and a new connection clears it at once.

**`PruneProofs`**: `PruneInvariant`, `TypeCorrect`, `MarksArePaired`,
`RunsAwaitTheirRequests`, `OutcomesAreTheirOwn`, for any agents, requests, runs and
queue lengths. Marks, requests and runs prove each other: a prune under way has an
address, a run that waits is at an agent of its list, and each has exactly the request
that will wake it. Outcomes need that agents which echo ids never queue an answer
without one, and that an id under way belongs to one request.

**`AutomationProofs`**, notifications: `BatcherInvariant`, `TimersGoWithBatches`,
`UpdatesAreAnnouncedOnce`. What is collected, what is announced in the open batch and what
is on its way are disjoint, and the last two are marked. Updates: `OrderInvariant`,
`DependenciesComeFirst`, for any containers, priorities and dependencies, cycles included.
`Reaches(c)` is what is in every set closed under dependencies that has those of `c`, so no
induction over paths is needed. While the sort goes on (`SortInv`), the calls on the stack
each depend on those below (`StackDepends`), and a container was visited if and only if it
is on the stack or in a batch (`SeenIsCalled`). So a dependency found visited when its
dependent's call returns is in a batch already, or below on the stack, and then the two
depend on each other: what is in the batches is `Grouped`. At the agent (`SentInv`), what is
in the batches before its position is what it has recreated, but for its own container,
and in the end of a sequence that ran out of time only the one direction is left.
Rollbacks: `RollbacksAreJudgedOnce`. Here the guard alone does not suffice, since it is
released when a rollback returns. The invariant says besides that no two automatic
operations share a guard (`Guarded`), that what was undone is gone and its ID does not come
back (`GoneWhenUndone`), and that snapshots, monitors and guards go back to a request
(`ByRequest`), since what only a rollback has made is neither monitored nor saved.

**`RequestProofs`**: `RevokedTokensStayOut`, `AdmissionIsByOwnToken`, `PoliciesInvariant`,
`EditsChangeOneField`, `SchedulesAreApplied`, `SyncsReachAgents`, `SecretsInvariant` and
`ShownOnceAndOnlyOnce`, each for any number of requests under way. Five of them are one
argument: what a request read at an await is
accounted for while it goes on, either since it still holds, or since somebody has
noted that it does not (`ArrivedLive` and `ReadLive`; a candidate held by a
registration had the token; `EditIsAlone`; `StoredIsThere`; `ReadAlone`, `WillHear` and
`FormsAreFilled`). Secrets are another matter: `ShownIInv` follows the answer with a secret
through its request and its dialog, which have it one after the other and never both.

**`DashboardProofs`**, browser: `BrowserInvariant`, `StaleViewsAreRefreshed`, `ProgressEnds`.
Needed besides: unless `missed`, a fetch that has read old data is followed by another
trigger, and so is an old view without a fetch (`FetchIsFollowed`). Channels: `FormInvariant`, `EditsAndSwitchesApart`; each step of a
channel's row is one of four (`RowStep`). Rows: `RowsInvariant`, `SettingsAreHonoured`; what
settings have forbidden since the check was handled is forbidden by the rows the decision
is made with, the current ones until it has read them, its own copy afterwards
(`BarredStays`). Rollbacks: `ShownImageIsReached`; from the tagging on, the tag names the image
that was pulled, unless somebody else has moved it (`TargetKept`).

The last two theorems there are about `MCServices`. `PartsAreComponents`: each behaviour of
the composition is one of each of its twelve components, so what is proved of a component
holds in the run that checks it. `PartsAreTyped`, `ServicesTypeOK` for all constants,
follows from it and the types of the components: six are part of the invariants above; for
schedules, enrolment, registries, picker, browser and health there is a theorem each
(`SchedulesAreTyped` and so on). That the browser shows a version the controller has had
needs `VersionsInRange`.

Assumptions the proofs need of the constants, beside types: names that stand for nothing
are none of the things (`NoRow`, `NoSecret`, `NoChannel` and their like; `Unset` is no
service), agents and their containers are finitely many, and the bounds on tasks and on
delayed checks are at least one.

## 8. Only model-checked, and not modelled

Liveness under fairness (`LockContainerReturns`, `SweepEnds`, `OperationsReturn`,
`RecoveryEnds`, `DeadConnectionSwept`, `ConnectedTurnsOnline`, `OutcomeReported`) is out
of the prover's reach and stays with TLC. All other properties of the passing runs are
stated by a theorem. What the theorems on the engine
leave to TLC is named by their hypotheses: rollbacks and commands beside updates are
checked for exclusion, return and recovery only (`updater_rollback`).

Not modelled:
- `SelfUpdate`, the `-ww-old` pass of `RecoverOrphans` and the delegation of
  `UpdateContainer` to it; CONTAINER_RESTART and RESTART_UNHEALTHY.
- The WebSocket client's reconnection and back-off. What it loses and how its queue
  fills appear in `PruneService`.
- The pruner's plan against running updates: an image may be planned for removal when
  a rollback starts to rely on it (`pruner.go:335`).
- Solo mode and the local scheduler.
- Messages that are only shown: HEALTH_STATUS, logs, diffs, prune dialogs, pages
  without input; setting and changing the password; retention of logs and history.
- Parsing, formatting and transport (configuration, registry client, signature
  verification and scanning, message templates, SDK, type declarations); they keep
  little state, and what they return is a nondeterministic outcome where a module
  needs it.
