# Verification of AgentSmith Lite

TLA+ models of the parts of this repository in which concurrency, failure and
ordering decide whether the program is right, the TLC runs that check them on
small instances, and TLAPS proofs of what holds for every instance. Paths are
relative to the repository; `application/…` stands for
`packages/application/src/…`, `postgres` for
`packages/adapters-postgres/src/postgresProductStore.ts`, `controller/…` for
`packages/sandbox-controller/src/…`.

## 1. The system

A Node API process serves a Web UI and keeps its state in Postgres. An agent
*Task* works in a *Sandbox Run*: a Pod with its Secret, ConfigMap, Service and
NetworkPolicy in Kubernetes, with the "Botified" runtime in it. A Task has at
most one unreleased Run; its Runs follow one another and share the Kubernetes
object names, so labels and UIDs say whose an object is.

| Part | State it keeps | Operations | Interacts through | What is hard, and what makes it correct |
|---|---|---|---|---|
| Run rows (`postgres`, `packages/adapters-postgres/src/inMemoryProductStore.ts`) | `sandbox_runs`: state, fencing token, readiness, claim, lease, action deadline, cleanup claim, Pod UID, release reason | some twenty transactions: claim, begin/complete/recover action, record, activate, fail, request release, claim for cleanup, drain, complete release, fenced update | called by startup, reaper and user requests | compare-and-set against snapshots of different age; the fence must move with every change of state |
| Startup (`application/taskService.ts` 1557–2500) | map of local operations; locals across many awaits | `startLiveSandbox`: claim, prepare, config, observe, apply, wait ready, open, activate; unknown results; failure | store, Kubernetes, Botified | calls with a deadline whose result stays unknown; a crash between deadline and completion; a release half way |
| Reaper (`application/sandboxLifecycleService.ts`) | nothing between calls; rows and inventories within one | `reapSandboxRunsOnce` | store, Kubernetes; called by the runtime loop, one call at a time per process | everything it acts on was read before an await; deletes must hit only what is doomed; releases once, and only when nothing is left |
| Controller (`controller/reconciler.ts`, `controller/kubernetesPort.ts`) | none | plan; apply, list, exact read, delete with UID precondition | Kubernetes API | stale inventories, reused names, objects that linger with a `deletionTimestamp` |
| Runtime loop (`application/runtimeService.ts`) | `tickInFlight` | serial tick: settlements, Task sync, reaper | timers | one tick at a time; a failed tick must not stop the loop |
| Admission and capacity (`postgres` 2536–2670) | none of its own: counts of unreleased Runs, the Project's limit and usage rows | admit or reject a Run; recompute the usage | Task creation, restart, message, terminal; release | what was counted under the namespace and Project locks must still be so at the insert; five transactions take overlapping locks |
| Task preparation | workspace directories and markers | promote, recover | file system, store | crash between marker and promotion |
| Idempotency receipts (`postgres` 2401–2488, `application/idempotentMutation.ts`) | `task_idempotency_records`: claim token, lease, request hash, response | begin, takeover, complete, replay | every mutation | two owners of one key after a lease ran out; an answer must stay true and stay the same |
| Terminal start (`postgres` 1450–1533, 3322–3378) | the Task's terminal-start owner and its receipt | begin or join, terminalise | startup, release, receipts | one owner per Task; every end of a startup completes its receipt |
| Message delivery (`application/taskService.ts` 1192–1368, 1663–1816) | `task_messages`: status, claim, lease, text; the Run's `currentLlmMessageId`; the timeline cursor; the chain of timeline copies per Task | create, edit, delete; copy the timeline, settle the owner, claim, post, accept | the runtime loop, users' requests, Botified | a lost answer: posted once all the same, and learnt from the timeline; decisions on a state of Botified read several awaits ago |
| Task interaction log | product log, projected interactions | append, project | Botified timeline | expired history, order of product and runtime events |
| Provider broker and settlement (`application/openAIProviderBroker.ts`, `application/projectPolicyService.ts`, `postgres` 778–823) | `project_provider_settlements`, `project_resource_usage` | reserve, dispatch, deliver, settle, mark unknown, fail, expire, prune | runtime loop, LLM provider, Project deletion | expiry against a late answer; a refund of what was sent; usage kept as a running sum of rows that are deleted |
| Project policy, alerts, notifications | limits, windows, alert states | evaluate, recover, acknowledge | settlements, file usage | raised and recovered once per window |
| File libraries, files, recursive deletion (`application/fileLibraryService.ts`, `application/recursiveDeletionService.ts`) | `file_libraries`: lifecycle, deletion phase, claim and lease; quarantine directory with marker; receipts | bind, request, claim, isolate, account, erase, finalize | Tasks, file system, receipts | deletion against binding; resumption by another process after any step; a worker that lost its lease and does not know |
| Project deletion (`application/deletionService.ts`) | `projects.lifecycle_status` and the directory tree | begin, erase, finalize | reservations, Runs | erased files cannot be brought back when the rows stay |
| Workspaces, membership, credentials, endpoints, context, settings | single rows | edits | HTTP | role and ownership rules |
| Sessions and OIDC | login state, sessions | start, callback, expire | identity provider | replayed callback |
| HTTP API | none | routing, streaming | all services | – |
| Terminal executor (`bash-executor`, Rust) | shell session, output buffer | attach, detach, resize, exit | WebSocket | bounded replay buffer |
| Web UI state (`src/components/tasks/task-command-storage.ts` and others) | commands with keys in browser storage, page state | store, retry, settle; late answers | HTTP API, tabs | two tabs; an answer for a page that moved on |
| Migrations (`scripts/db/apply-migrations.mjs`) | applied versions | apply in order under a lock | Postgres | two runners |

`PROJECT.json` lists every part with its status, and under `hazards` what in
it is hard to test, at its line.

## 2. Modules

| Module | Models | Correspondence |
|---|---|---|
| `SandboxRuns` | one `sandbox_runs` row and its transactions | `CanX(row, …)` is the condition under which the transaction does not return null, `"stale"` or `"conflict"`, `X(row)` the row it writes. Each transaction locks its rows, so guard and effect are one step |
| `SandboxLifecycle` | startup, reaper, user requests, store, Kubernetes, time, crashes | `run`, `current`, `settled` are the store; `cluster` and `inflight` Kubernetes and the POSTs still on their way; `op[p][r]` the locals of `startLiveSandbox` for Run r in process p; `reap[p]` those of one `reapSandboxRunsOnce`. A label (`pc`) stands for each await, so whatever is read before one and used after it may be stale |
| `RunContract` | the abstract specification: what may be known of a Task's Runs | stages, presence in Kubernetes, settlements; no fences, claims, leases or calls |
| `LifecycleRefinement` | the mapping from the second to the third | `release_requested` and `failed` map to "doomed"; a Run is present when it owns an object |
| `MCSandboxLifecycle` | instances for TLC | – |
| `MessageDelivery` | the messages of one Task on their way to Botified | `message` is `task_messages`; `run.owner` is `currentLlmMessageId`; `loop` the locals of one visit of `syncActiveTasksOnce` to the Task (sync, reconcile, dispatch), with a label wherever what it decided may be overtaken; `sync` the copy of the timeline that holds the Task's turn (`syncTaskTimeline`); `posts` requests to Botified; `queue`, `timeline`, `ran` Botified itself, as the adapter in `packages/ports/src/botified.ts` uses it |
| `MCMessageDelivery` | instances for TLC | – |
| `TaskCommands` | the store transactions of Task commands, lock by lock | `session[s]` is the transaction of one database session: its kind, what the request read before it, how many of its locks (`Locks`, in the order of the statements) it has. `taskRun` is the state of each Task's current Run, `posts` and `starts` are `task_idempotency_records`, `activeTasks` is `project_resource_usage.active_tasks` |
| `FileLibraryDeletion` | the deletion of one File Library | `library` is its row, `disk` its tree and the quarantine, `receipts` the requests' receipts, `attempt[w]` the request process w serves, with a label for each await |
| `ProviderUsage` | the provider calls of one Project and its deletion | `settlement` are the rows, `usage` the running sum, `call[c]` where `settledCall` is; `project`, `files`, `deletion` the Project's deletion |
| `MCResources` | one instance of each of the last three | they share no variable; see below |
| `SandboxLifecycle_proofs`, `SandboxOwnership_proofs`, `SandboxRelease_proofs`, `RunContract_proofs`, `MessageDelivery_proofs`, `TaskCommands_proofs`, `FileLibraryDeletion_proofs`, `ProviderUsage_proofs` | theorems | section 5 |

`MCResources` runs three independent modules in one instance: in the first
state of a behaviour `part` says which of them it is a behaviour of, and the
others stay as they are. It checks of each what a run of its own would check.

`TaskCommands` keeps of a Run what `SandboxRuns` has as its states ("failed" and
"release_requested" are one here) and adds what that module leaves out: that a
transaction is a series of locks, that several Tasks compete for room, and the
receipts that ride along.

`MessageDelivery` stands on its own: of the Run it needs only that it is
starting, active, ending or released, in that order, and that a Run which ends
fails the message that owns it in the same transaction
(`failOwnedRunLlmMessageWithClient`). That this is how Runs behave is what
`SandboxLifecycle` is about.

Choices a reader should know:

- **Time.** An instant (lease, action deadline, the two minutes of a cleanup
  claim) is kept as the ticks left to it: −1 for null, 0 once passed. `Tick`
  lets time pass everywhere at once and may be taken at any moment, so every
  order of expiry and step is covered. A deadline an operation *sampled* keeps
  its own copy (`left`, `inTime`), since the code compares sampled instants.
- **Requests.** A POST is put in `inflight` and served by `Land` at any later
  moment up to its deadline, also after its caller crashed or gave up.
  `withHardDeadline` (`application/taskService.ts` 3597) gives every call a hard
  deadline no later than the stored one, so no request outlives it; this is the
  documented assumption of `docs/core-workflow-product-improvement-plan.md`
  1331–1334 and the model makes it too (`Tick` drops a request at its deadline).
- **Kinds.** The Pod and the ConfigMap. Secret, Service and NetworkPolicy are
  applied and deleted as the ConfigMap is. The order of the code (the Pod
  is created last and deleted first) is kept.
- **Fence.** `MaxToken` bounds it: an action that would exceed it is not
  enabled. In `Lifecycle` and `Liveness` the bound is never reached (18 and 12 are more
  than the budgeted disturbances can use; deadlock is checked there). In the others
  it cuts long behaviours off.
- **Disturbances** (`FaultKinds`, `MaxFaults`) are budgeted: a crash of a
  process, a failing call, a POST whose caller loses the connection while the
  request is still on its way, a Pod that fails or disappears, a repeated
  request. A call may fail wherever one is awaited; a store call that fails has
  had no effect. Two failures have a kind of their own, "unowned", because they
  end a Run on behalf of one who does not own its startup: a claim that
  fails (`OpClaim`; `application/taskService.ts` 2159, caught at 1612), after which the row
  is failed under whatever claim it carries (2466), and a preparation that fails
  (`PreparationFails`, `FailUnprepared`; 1265 reads the readiness, 1272 fails
  the Run in a later transaction). Finding 5 is what they do. A startup begun again behind a passed deadline counts
  as "repeat": begun again and again it would hold the drain up for ever,
  because the reaper does not drain a Run its own process operates on
  (`application/sandboxLifecycleService.ts` 429).
- **One Task.** The reaper walks through the Runs of all Tasks in turn, and no step of
  it relates two Tasks; the model has the Runs of one Task.
- **Delivery.** The reads between two calls that can be overtaken are one step when the
  store call after them checks again whatever they decided: a claim is
  conditional on everything the loop had looked at. A lease is "live" or
  "expired"; it may expire at any moment. A POST not yet served stays in
  `posts`. Its caller may lose the connection before or after Botified took the message
  ("call"), or give up while it is still on its way ("late"). A call meant for an
  earlier Run fails, since each Run has a service key of its own. Botified keeps its
  timeline in the Task's directory and answers a second POST of a message as a
  duplicate; what a new Run finds in the queue of the last one it resumes or
  drops.
- **Transactions** (`TaskCommands`). A transaction takes its locks one by one and
  waits for those others hold. With the last one nothing keeps it waiting, and its
  writes and its commit are one step with that lock: nobody sees the difference,
  since all it writes is locked or counted under locks it holds. It may
  end without effect at any moment before: a lost connection, a crash, or the
  database's choice of a victim. Rows that are locked only behind another
  (policy and usage behind the Project, Run and owner receipt behind the Task)
  have no lock of their own. A restart without a message
  (`restartTaskSandboxAtomically`) takes the locks and makes the writes of the one with a message.
- **The walk** (`FileLibraryDeletion`). A tree is at home, in quarantine, partly
  erased or gone; contents, inodes and devices are left out, and a check of them succeeds
  exactly when the tree is where it was put. A worker is a process: locks in memory
  (`withProjectFileLock`, the lifecycle lock) keep its attempts apart and nothing else.
  A worker that lost its lease goes on until a checkpoint notices, and
  noticing is an action it need not take before its next step.
- **Usage** (`ProviderUsage`). Tokens are numbers, and cost is charged by the same
  statements. A row is "overdue" when its five minutes are over and "recent" while
  the endpoint's window holds it. Of a row pruned for its age a history variable
  keeps what it was charged.
- Operators ending in `Mutant` are plausible mistakes (a dropped guard, a
  missing reset). Each shows that one property notices it.

Left out within these parts: audit events, receipts and the Task row's own
fields that ride in the same transactions; the reaper's counters, plan summary
and error texts; manifest contents; the terminal-start owner (one branch of
`OpFail` stands for it; `TaskCommands` has it). In the delivery: receipts, the interactions shown on
the screen, artifacts, and a timeline whose beginning expired (`historyStatus`
"gap"), where messages may be missing from what is read. In the resources:
audit events, presentations, hashes that do not match, the lease of a terminal
start's claim (whoever holds it, the next request binds to the same Run), edit
and archive of Tasks, the deletion of single entries, file byte limits, alerts.

## 3. Runs

The runs of the lifecycle use `MCSandboxLifecycle`, two kinds of objects, and lives of one tick for
lease, action and cleanup claim. One tick suffices: the model only tells
"running", "passed" and "unset" apart, and `Tick` may fall anywhere.

| Run | Instance | Checks | Why these bounds |
|---|---|---|---|
| `Lifecycle` | one process, one Run, two disturbances of crash, failed call, repeated request; deadlock checked | `TypeOK` `SettledOnce` `BarrierCoversRequests` `ReleasedIsClean` `FenceMoves` `WriteBackLosesNothing` | A second startup operation needs one disturbance, so two allow a crash in the middle of each, or a failed deletion followed by a crash. UIDs for both creations of the only restart. |
| `Succession` | two Runs in turn, slow deletion, a crash or a failed call | `OneUnreleasedRun` `SnapshotFenced` `ImplementsContract` | Two Runs are enough for a leftover of one to meet the other; four fence moves take the first from admission to release; the second is followed until it is claimed for cleanup, after a disturbance until it ends (`SuccessionBound`). |
| `Overlap` | two processes start the same Run, one of them reaps; slow deletion; one Pod fault, lost answer or unowned failure | `OneActionPerRun` `ActivePodKept` `DeletesOnlyDoomed` | Two contenders and a reaper are all the roles there are. While both operate, `NarrowPart` keeps the instance small: three fence moves, one object created or one disturbance, nothing lingering, nothing left by a Pod fault or a lost answer (TLC judges the states beyond and goes no further); only the stored claim and deadline matter then, and what lies beyond is proved (section 5). What the reaping process does alone has seven fence moves and four UIDs: the first Pod and ConfigMap and one more of each. |
| `Liveness` | fair scheduling, one disturbance of crash, failed call, unowned failure, repeated request | `ReleaseCompletes` `DeadlineResolved` | As `Lifecycle`. |
| `Delivery` | two messages, one edit each, two Runs, two disturbances of crash, failed call, late POST | `TypeOK` `PostedOnce` `OwnerCanSettle` `AcceptedWasTaken` `CursorLeavesNoneBehind` `DeletedStaysOut` `RanAsStored` | Order, waiting and ownership need two messages; leftovers need two Runs. Two disturbances allow an answer lost and the copy after it failing. |
| `DeliveryLive` | as `Delivery` without edits and late POSTs, fair | `OwnerRuns` `PendingMovesOn` `TakenIsLearnt` | An edit changes no status. |
| `Resources` | *deletion:* two processes, two keys, two faults (error, death of a process, stalled heartbeat), fair; *provider:* two calls of 1 or 3 tokens, limits 2 and 4, a window of one request, one fault; *commands:* two Projects of one Task each in one namespace with room for one Run, Sandbox limits 0 and 2, two sessions, a post and two terminal starts, two Runs | `DeletionTypeOK` `BoundLibraryIntact` `FinalizedIsClean` `AnswersTrue` `AnswerKept` `DeletionEnds`, `ProviderTypeOK` `UsageIsSum` `SentIsCharged` `WithinLimits` `DeletionWaits`, `CommandsTypeOK` `ReceiptsTell` `OnlyRepeatedPosts` `CapacityKept` | A resumption needs a second process, a stale worker a fault and a resumption two; two keys let one request find what another deleted. Two calls compete for one place in the window, and a measure may be above or below its estimate. Two sessions are a pair of transactions in any order; room for one Run and a limit of 0 make every admission a contest. What needs more sessions is what the proofs are for. |
| `Reactivation` | one call, no fault | `ActiveHasFiles` is violated | finding 4 |
| `UnknownResult` | a lost answer | `ReleasedIsClean` is violated | finding 1 |
| `ReleaseIntent` | a crash | `ReleasedOnlyAfterIntent` is violated | finding 2 |
| `StaleObservation` | two Pod faults | `BarrierCoversRequests` is violated | finding 3 |
| `UnownedFailure` | one unowned failure | `BarrierCoversRequests` is violated | finding 5 |

What they show. With one process, as the deployment has it (`replicas: 1`,
strategy `Recreate`, `controller/appManifestRenderer.ts` 131), a crash, failed
calls other than the unowned ones and repeated requests: no request outlives the deadline its Run carries,
a released Run owns nothing and never will again, it is settled once, and
writing a whole row back never undoes a startup's step. An unowned failure
breaks the first two of these, and still no other action begins beside the
one under way, nothing but what is doomed is deleted, and the Run is released. The deadline and the
claim alone keep two processes' external actions apart. Whatever the age of its
inventory, the reaper deletes only objects of Runs that are released, doomed or
stuck behind a passed deadline, and never the Pod of an active Run.

A message is posted at most once, with the text the Task stores, and never
after its deletion, whatever is lost, edited, deleted or restarted meanwhile. What a
stored cursor has passed is accounted for, although two kinds of callers copy
the timeline and a given-up message may turn up in it later. The owner of a Run
can always be settled, so that a lost answer costs the messages behind it one
lease and nothing more.

A File Library to which a Task is bound is never touched, the row outlives the
tree, a deletion comes to its end from wherever it was interrupted while its
request is repeated, and what requests were told stays true and stays the same.
The one way a deletion does not end is a quarantine with both copies of its
marker (`TwoMarkers`): two processes publish at once, one renames its copy after the
other wrote a second, and the other ends before its rename. Every later attempt
refuses such a directory. With one process it does not happen.

A Project is charged each provider call once, whatever order expiry, late
answers, failures and crashes take; no refund is cut off at zero; a call
that was sent stays charged; a reservation and a deletion of the Project exclude each other.

Room for Runs is never given twice, a terminal start is answered by whatever
ends the startup, and of a post's "created" and its message there are both or
neither. `OnlyRepeatedPosts` says which deadlocks Postgres may have to resolve:
a post and a post that restarts the Sandbox, under one key (a repetition
sent while the Run is released in between), take the receipt and the Project in opposite
orders (`postgres` 1569, 1594). One of them is ended and its user repeats it. The lock
order in `docs/core-workflow-product-improvement-plan.md` 1171–1182 does not
name receipts.

The five "violation" runs are where the code disagrees with its documents or tests.

`CHECK_DEADLOCK FALSE` is set where behaviours are cut off by a bound on fence
or UIDs (with slow deletion, each reaper call in which an object lingers
moves the fence) or end because the only Run is released and no reaper
remains to loop; `Lifecycle` checks deadlock. `Delivery` and `DeliveryLive` end
when the last Run is released and no message is left to create. `Resources` and `Reactivation`
end when every call has ended or every Run of the bound has been used.

### Fairness

`FairSpec` assumes weak fairness of the reaper (as a whole), of each startup
operation once begun, of time, and of Kubernetes finishing a deletion. The
runtime loop is a timer that starts a tick whenever none is in flight and whose
failures are swallowed (`application/runtimeService.ts` 70–104), so the reaper
is called again and again; an operation is a chain of awaits, each with a hard
deadline. Nothing is assumed of users, of admission, of a Pod becoming ready,
of a request being served before its deadline, or of disturbances.

For the delivery, `FairSpec` assumes that the loop goes on within a visit, that
a copy of the timeline that has begun goes on, and that leases pass: awaits and the clock.
A copy waits for its turn behind the copies asked for before
(`syncTaskTimeline` chains promises in order), so the loop's turn comes however many
requests of users there are: strong fairness of `LoopTick` and
`LoopSyncAgain`. Botified is assumed to answer and to end its turns; a Task
whose turn never ends does hold its messages back, by design. The loop visits
the Task in each tick (`application/runtimeService.ts` 70–104).

For the deletion of a library (`DeletionFairness`): each process goes on with
the attempt it serves, leases and receipts come to their end, and users repeat
a request that is not answered, under this key or another. Nothing else resumes a
deletion, so without that nothing could be promised. Not assumed: that a
worker notices the loss of its lease, or that a fault does not strike.

## 4. Findings

1. **An unknown result drops the deadline at once.**
   `runSandboxStartupAction` (`application/taskService.ts` 2373) recovers the action after a
   lost connection too, which clears the deadline, claim and lease
   (`postgres` 1175). `docs/core-workflow-product-improvement-plan.md` 1346–1348
   says both "remain durable until the deadline expires". Run `UnknownResult`:
   the release finds no barrier, and the POST then creates an object of a
   released Run (`docs/async-state-consistency-product-improvement-plan.md` 453
   promises it cannot). The next reaper call deletes it as an orphan.
2. **A release without intent.** `reapSandboxRunsOnce` decides which Runs to
   drain before it lists Kubernetes
   (`application/sandboxLifecycleService.ts` 138) and which to claim after (194). A
   deadline that passes in between leads to `completeReleasedRun` (325), from
   starting straight to released.
   `docs/agentsmith-lite-botified-boundary-correction-plan.md` 221 says release
   begins only from a request or a failed or deleted Run's cleanup intent. Run
   `ReleaseIntent`. `RunContract` therefore lets a starting Run be released.
3. **A failure read from an old inventory is persisted on a newer row.**
   `persistTerminalFailureTransitions` re-reads the row and fails it under its
   current fence (792); `failSandboxRun` (`postgres` 1027) clears an open
   deadline. `docs/core-workflow-product-improvement-plan.md` 1354 says to wait while the deadline is
   unexpired. Run `StaleObservation` finds it with two Pod faults.
4. **A Project is brought back without its files.** `finishProject`
   (`application/deletionService.ts` 42) erases the Project's directory before
   `finalizeProjectDeletion` may find it not ready, and `beginProjectDeletion`
   (`postgres` 425) sets a deleting Project with live reservations back to
   active. An expired call does not hold a deletion up, but its late answer
   makes its row live again (`postgres` 794). Run `Reactivation`: expiry, begin, erase, late
   answer, not ready, retry; the Project is active and empty.
   `tests/service/deletion-service.test.ts` 240–257 asserts that a reactivated
   Project has its files.
5. **A Run is failed by one that does not own its startup.** Twice a failure is
   committed that knows only the state and the fence, neither of which moves when
   a startup begins. `reconcileTaskPreparations` reads `startupReadyAt`
   (`application/taskService.ts` 1265) and fails the Run in a later transaction
   (1272); in between the Run may become ready and its startup send its first
   POST. Run `UnownedFailure` finds it with that one fault. The other: a process crashes with
   a POST under way, the loop begins the startup again
   (1200–1206, or 1294 for a terminal), its `claimSandboxStartup` call fails (2159), and
   `persistStartingRunFailureOrAdopt` fails the row under the claim it finds
   there, the crashed operation's (2466–2469). TLC finds it too, in 14 states, with
   `{"crash", "repeat", "unowned"}` and three faults in that cfg (the startup begun
   again counts as "repeat") and `Admit` restricted to ready Runs. Both clear
   the open deadline (`postgres` 1035), so that the release no longer waits
   for the POST, where `docs/core-workflow-product-improvement-plan.md` 1354–1363
   lets a failure terminate a claim only after its deadline passed and its
   resources are drained.

Seen and not counted as disagreements: `reconcileUnknown` of the readiness wait accepts a Pod
that has an IP but is not ready (activation checks readiness again); a Pod that
disappears together with a lost answer may leave a fence mismatch
that never resolves (fails closed); a POST that is served after its ten
seconds passed, while the loop holds an idle state it read before, lets the
owner be cleared although Botified works on the message, so that the broker
refuses its model calls (`OwnerRuns` is therefore checked without "late"), and
a queue that Botified takes over from an earlier Run has no owner either.

## 5. Proofs

`SandboxLifecycle_proofs` proves, for every value of the constants allowed by
`RunConstants` and `LifecycleConstants` (any processes, Runs, kinds of objects,
lives, bounds and disturbances), that `Spec` implies

- `TypeCorrect`: `[]TypeOK`;
- `NeverTwoRuns`: `[]OneUnreleasedRun`;
- `NeverSettledTwice`: `[]SettledOnce`;
- `SnapshotsAreFenced`: `[]SnapshotFenced`;
- `FenceNeverGoesBack`: `FenceMoves`.

The inductive invariant is `IInv`: the four state properties together with
`SnapshotLive` (the row a reaper holds was unreleased when it was read, and
from the exact reads on it does hold one) and `UnbornBlank` (a Run not yet
admitted has no fence). They need one another: that a release settles a Run once follows from the
fence of the row the reaper holds (`SnapshotFenced`), because the held row was
unreleased (`SnapshotLive`); that a new Run does not disturb a held row follows
from `UnbornBlank`; and every step needs the types.

The argument has three layers. Row by row: each transaction of `SandboxRuns` keeps the
row's type, and either leaves state and fence alone (startup
transactions) or moves the fence by one (the others). Then
one lemma per action: how it moves rows (`RowMoves`:
a row keeps its state and token, or its token grows by one) and the rows reapers hold
(`HeldMoves`). Then `IInv /\ [Next]_vars => IInv'` from those, with `Admit` on
its own because it alone creates a row.

`SandboxOwnership_proofs` builds on it, still for any number of processes and
reapers and all disturbances:

- `OneActionAtATime`: `[]OneActionPerRun`;
- `ActivePodsAreKept`: `[]ActivePodKept`;
- `OnlyDoomedIsDeleted`: `DeletesOnlyDoomed`.

None is inductive. An action is alone because it *owns* the row: `Ownership` says
that no two operations have one claim (`ClaimsUnique`, from `newId`), that an action under way has
claim, fence and deadline of the row as long as the Run starts
(`ActingOwns`), and that a row which lost its owner with a deadline set is
*stuck*: nobody can act under it again before the drain. `Doomed` is what a
deletion needs: the Run has ended or is stuck, and its deadline is past. It is stable,
and `KubeInv` says of whatever a reaper is about to delete, and of whatever
Kubernetes is already deleting, that its Run is doomed, so the age of an
inventory does not matter; and of the Pod an operation has recorded, is about to record
or to activate, that it is intact or its Run doomed. Each action is put into one of a few
*shapes* (`RowShape`, `OpShape`, `HeldShape`, `ObjectShape`), and the conjuncts
are proved against the shapes.

`SandboxRelease_proofs` proves what needs a hypothesis:

- `NothingIsWrittenBackOver`: `WriteBackLosesNothing`, under `OneProcess`;
- `BarrierIsKept`: `[]BarrierCoversRequests`, `ReleasedStaysClean`: `[]ReleasedIsClean`, and
  `LifecycleImplementsContract`: `ImplementsContract`, under `OneProcess` and
  `NoStrays`.

`OneProcess` (`Procs` has one member at most) is the deployment's: one replica, replaced and not
scaled. `NoStrays` leaves out lost answers, Pod faults and unowned failures, because the code
does fail there: the runs `UnknownResult`, `StaleObservation` and `UnownedFailure` are these
very properties violated (findings 1, 3 and 5). Crashes, all other failed calls and repeated
requests are allowed, in any number. So what the three theorems say of the code is
that with one process these three are the only ways, in what is modelled, to lose a deadline over a request,
and a fix of the three findings is what makes the promise of the documents whole. Both hypotheses are about constants
and hold in the runs `Lifecycle` and `Succession`; the last theorem is one
`Succession` checks with slow deletion and a crash.

The invariants grow from one to the next. `SoloInv`: while the reaper holds the row of a stuck startup,
no operation is at work on it (`HeldAlone`), since its own process has none and
there is no other; so the row it writes back is the stored one. `ClearInv`:
a request on its way has the deadline of its row, is the only one of its Run, and its
operation waits for it or has given up for good (`Requests`); for that nothing
may fail the Run meanwhile, which rests on the recorded Pod being there
whenever the reaper plans with a row that records it (`PlanView`). `CleanInv`: what the final inventory
did not find is not there and cannot appear (`InventoryClean`), because the
Run is doomed and a request would need an open deadline. The refinement is then
shown one step at a time: every action changes at most one row or one object,
and what the contract sees of it is one of its steps or nothing. `SettledOnce`
of `IInv` carries the history variable over.

`MessageDelivery_proofs` proves, for any number of messages, edits, Runs and
disturbances of every kind (`DeliveryConstants`), that `Spec` implies
`[]TypeOK` (`DeliveryTypeCorrect`), `[]PostedOnce` (`NeverPostedTwice`),
`[]OwnerCanSettle` (`OwnersCanSettle`), `[]AcceptedWasTaken`
(`AcceptedOnlyIfTaken`), `[]CursorLeavesNoneBehind` (`CursorNeverLeavesBehind`),
`[]DeletedStaysOut` (`DeletedNeverTaken`) and `[]RanAsStored`
(`RunsWhatIsStored`): every invariant of the run `Delivery`. None of them is inductive.
`IInv` adds what the process knows between its awaits: a message about to be posted
was never posted (`PostedFresh`) because a claim is never undone; what
Botified has or is sent is claimed and has its stored text (`OnlyClaimed`), because only pending messages
are edited; what was read or answered as taken was taken (`TakenKnown`); a copy
about to be stored accounts for every input it passed and ends within the
timeline (`CopyCovers`, `CopyBehind`). One lemma per variable says which actions
write it, one per conjunct that each of those keeps it.

`OwnerRunsAlone` proves `[]OwnerRuns` when `"late"` is not among `FaultKinds`, with
everything else allowed. `OwnerInv` adds that the only POST under way is the one
the loop waits for (`OnePost`; this is what a late POST breaks), that the message
being delivered owns the active Run (`DeliversOwner`), and that between
reading that Botified is idle and settling on it Botified stays idle
(`SeenIdle`), since only the loop posts.

`TaskCommands_proofs`, for any Tasks, Projects, requests and sessions
(`CommandConstants`): `CommandsTypeCorrect`, `CapacityHeld`, `ReceiptsTrue`, `NoOtherDeadlock`. All
rest on `Base`: a session's transaction is well formed and **no lock is held
twice** (`Exclusion`), which is preserved because a lock is only taken when
nobody holds it. For the capacity, what a transaction counted is still so
as long as it holds namespace and Project (`RoomStays`): whoever could make it
false, by admitting a Run or changing the limit, needs one of the two. For the
receipts, a Task's starts in progress are bound to its starting Run and every
end of the startup answers them; a post's claim is its session's own or one
left behind. For the deadlocks, `Rank` numbers the locks (receipt of a create,
namespace, Project, Task and library, receipts of starts and of restarting
posts) and every transaction but a plain post takes them upwards, so along a
chain of waiting sessions the rank of what they wait for strictly rises and a
circle cannot close without such a post and its counterpart. The types need
that a number of a Run is bounded by the number of Runs admitted
(`AdmissionsLeft`: a Task of that many Runs would fill the set of them
alone), and that transactions, receipts and history only hold numbers that
Runs have had.

`FileLibraryDeletion_proofs`, for any processes, keys and faults:
`DeletionTyped`, `BoundLibrarySafe`, `FinalizedClean`, `DeletionAnswersTrue`,
`DeletionAnswerKept`. The inductive invariant `DeletionInv` adds that only a
row that says deleting has work going on (`WorkNeedsDeleting`), that the phase in the row
tells where the tree can be (`PhaseTells`), that bytes leave the account
before the tree is opened for erasure (`AccountedFirst`), and what is owed to requests under way
(`Awaited`, `Remembered`, `MissingIsNever`). A stale worker is harmless because everything it may
still do to the disk is allowed by the phase, and everything it may do to the
row is conditional on its claim.

`ProviderUsage_proofs`, for any calls, amounts and limits: `SentCharged`,
`DeletionWaited`, `LimitsKept`, from `OnItsWay`: where a call is tells what its
row can be. `UsageSummed` and `ProviderTyped`: the usage is the sum over the charged
rows, and no total is ever cut off at zero. `UsageIsSum` is nearly inductive
itself (`SumInv` adds that measures and pruned totals are numbers); the work is in the sums. A sum
of the community modules is a recursive function, so that it exists, that any element
may be taken out first and that two disjoint sets add up is proved here by
looking at a smallest set, or a smallest number, of which it fails: the
library's well-foundedness of the subset ordering has sets for parameters and
can be cited, where its induction theorems cannot. A step then
changes one row's share (`OneShare`) or takes the due rows out at once (expiry).

`RunContract_proofs`: `ContractKeepsPromises`, the contract implies that one Run
is alive at most, that Kubernetes holds nothing of an unborn or released
Run, and that every released Run was settled once, for any number of Runs.

**Model-checked only:** every safety property of the passing runs is proved;
what is left to TLC is liveness: `ReleaseCompletes`, `DeadlineResolved`,
`PendingMovesOn`, `TakenIsLearnt` and `DeletionEnds` (fairness and ENABLED are out
of the prover's reach). Without the hypotheses above `BarrierCoversRequests`,
`ReleasedIsClean` and `OwnerRuns` are false, as the violation runs and section 4
say; `WriteBackLosesNothing` and `ImplementsContract` for several processes
are neither proved nor checked. RECURSIVE operators, which the prover cannot
use, do not occur.

## 6. Plan

Done: `SandboxRuns`, `SandboxLifecycle`, `RunContract`, `LifecycleRefinement`,
`MessageDelivery`, `TaskCommands`, `FileLibraryDeletion`, `ProviderUsage`, and
the proofs of section 5. Left, in this order:

1. `Idempotency`: `runIdempotentMutation` around a mutation that reads and
   writes between, with a claim nobody renews. Abstract specification: an
   operation per key takes effect at most once. (proofs)
2. The abstract specification of a message (waiting, handed over once, learnt,
   given up) that `MessageDelivery` implements; its Run replaced by `RunContract`'s.
3. `TaskPreparation`; the deletion of single entries, uploads.
4. `InteractionLog`: expired history ("gap"), recovery backwards, replay; the
   projection against a reference merge over bounded inputs.
5. Alerts; Web command storage; terminal executor; sessions; migrations.
6. Proofs: the contract refinement without Pod faults only, with a contract
   weak enough for lost answers; of the new modules, their types and
   main invariants first.

### Not modelled

- Pages, the API client, HTTP routing, manifest rendering, configuration,
  path validation, cryptography, network clients: pure functions or plain I/O
  with little control of their own. They are the larger part of the lines.
- `packages/adapters-postgres/src/inMemoryProductStore.ts`: a second
  implementation of the same store without concurrency; the models follow `postgres`.
- Single-row edits (names, pins, credentials, endpoints, context, settings,
  membership): one statement each, checked by the database's constraints.
- Session and login flows, alerts and notifications, interaction log, task
  preparation, terminal executor, Web state and migrations: planned above.
