# A formal model of the Lumo Harness control plane

Lumo Harness extends an agent harness (`dsh`) with a *control plane* (Go services over PostgreSQL,
Redis and Nacos), a *data plane* (nodes that host agents) and *plugins* (TypeScript, loaded into the
nodes). This directory holds TLA+ models of its parts, the TLC configurations that check them and
proofs for TLAPS. Source paths below are relative to `src/platform/`.

The system's own logic is mostly of one shape: several copies of a process decide from something
they have read, and write the decision to a shared database under a condition that is meant to
notice when the reading was stale. The models follow that shape: one TLA+ step per statement,
transaction or critical section that another process can observe, everything between two of them
open to the others.

- [Inventory](#inventory)
- [Modules](#modules)
- [Session control](#session-control), [the control queue](#the-control-queue), [the scheduler](#the-scheduler)
- [Migration, node loss and readiness](#migration-node-loss-and-readiness)
- [Governance](#governance)
- [Flows](#flows)
- [Documents, knowledge and what runs on a node](#documents-knowledge-and-what-runs-on-a-node)
- [Connectors, projects and usage](#connectors-projects-and-usage)
- [Releases, installations and skills](#releases-installations-and-skills)
- [Runs, bounds and fairness](#runs-bounds-and-fairness)
- [What is proved](#what-is-proved)
- [Where code and comments disagree](#where-code-and-comments-disagree)
- [Not modelled](#not-modelled)
- [Plan](#plan)

## Inventory

| part | state | operations | interacts with | what is hard | what makes it correct |
|---|---|---|---|---|---|
| **session-control** `control-plane/session-control` | PostgreSQL: `session_control_state` (one row per session), `session_control_audit`, `action_reviews`; in memory: a queue per session | execute a command (queue, load, decide, commit, audit), forced release, reads | OPA (policy), consoles and plugins that call it, `@lumo/control` which reads the row | several instances race on a row; verdicts from old readings; waiting, time-out and grant cross; holders that overstay; lost acknowledgements; crashes | the audit replays the row; a request has at most one effect; whoever is answered is answered what the audit says; no turn is lost |
| **scheduler** `control-plane/scheduler` | PostgreSQL: leases, tasks, attempts, dispatch outbox, control commands, governed executions, dead letters; in memory: what each process believes of its leases and of the nodes | elect, place, queue, preempt, cancel, drain, report, migrate, reap, reconcile, dead-letter | nodes (dispatch, stop, results), governance (governed runs), node directory (Nacos), federation registry | leases lost between decision and commit; two kinds of lease; stale rounds; stop calls that race with placements; late reports; clusters that return | no node is overcommitted; one attempt at a time, dispatched once; tokens in order; the ledger agrees with the task; only lost work is moved; waiting work is placed |
| **heartbeat** `control-plane/heartbeat` | Nacos instances, `lumo_service_heartbeats`; in memory: since when a node is missing | register, watch, report loss and recovery; publish, evaluate, gate | scheduler, collaborator, governance | flapping, reads and reports that fail, late readers | a lost node is reported with evidence, once; management calls are served on fresh evidence only |
| **governance** `control-plane/governance` | tasks, runs, results, hand-over outbox; devices, connections, commands; users, departments, roles, sessions, passkeys; skills, grants, revocations | delegate, retry, cancel, report, review; enrol, renew, connect, hand over; sign in, administer; publish, resolve | scheduler, desktop agents, identity provider, registry | handlers that read in one transaction and write in another; a machine and its channel that fail independently; administrators who act at once | closed work is quiet; DONE rests on a result; the ledger agrees with the machine; an administrator remains; sessions rest on their grounds; only what was approved is released |
| **flows** `control-plane/flows` | definitions, snapshots, change drafts, cron cursors, trigger outbox, runs, lineage | review, publish, fire a cursor, deliver a trigger, execute a graph, replay a run | projects, connectors | replicas with stale readings; delivery at least once; the local clock | each due time fires once; no trigger is lost; one attempt each; what runs was reviewed |
| **collaborator** `control-plane/collaborator` | documents in memory, WAL in Redis, snapshots in PostgreSQL, ownership ring, publish outbox, threads | apply, subscribe, snapshot and trim, hand over, publish, replace a thread | editors, knowledge, CRDT kernel (Rust) | ownership moves while updates and snapshots are under way | acknowledged updates survive |
| **knowledge** `dsh-plugins/knowledge` | sources with versions, vector outbox, remote index | ingest, withdraw, edit, rebuild, project | collaborator, embedding service | calls repeated, delayed, overtaken | the index holds the newest confirmed text |
| **session-log** `dsh-plugins/session-log` | PostgreSQL: `session_log`, `session_writer_lease`, `session_log_heads`; in memory: a queue of writes | acquire, renew and release a writer's lease, publish the head, append, backfill, restore | agent sessions on a node | renewal in flight at disposal; failed appends; a new writer on another node | one writer at a time, no gap, no fork |
| **recovery** `dsh-plugins/recovery` | journal of tool calls | intent, outcome, adjudicate, confirm | agent loop, approvals | crash between call and outcome | an unsafe call is not run twice without asking |
| **job-control** `dsh-plugins/job-control` | `job_execution`, result events, commands | dispatch, take, acknowledge, record | jobs on a node | redelivery, records that overtake one another, restarts | a command is carried out; the stream tells of each job once |
| **connector-gateway** `control-plane/connector-gateway` | breakers and a cache in memory; approvals, connectors, grants and their clean-up in PostgreSQL; tokens in a vault | invoke, approve, break; log in, refresh, disconnect, sweep | external services, OAuth providers | overlapping calls and breaker states; two stores without a common transaction; crashes | an approval is consumed once; a breaker is never stuck; no token is lost track of |
| **projects** `control-plane/projects` | projects, members, rows that hang on them, decisions, reports | create, archive, delete, supersede, confirm | flows, governance, budgets | checks and writes in different statements | nothing is orphaned; records stand |
| **llm-gateway, metering, usage-ledger** `control-plane/{llm-gateway,metering,usage-ledger}` | budget trees, outbox, ledger; batching groups in memory | hold, coalesce, reserve, commit, publish, consume | model providers, RocketMQ | timers that fire late; checks and deductions in two statements; delivery at least once | nobody is held beyond the window; every cost is booked once |
| **registry** `control-plane/registry` | objects, index, channels; on a node: directories, manifests, state file, processes | publish, roll out, reconcile, install, start, uninstall | nodes, governance (skills) | crash in the middle of a replacement; two processes on one disk | a node runs what was published, wholly |
| **control** `dsh-plugins/control` | on a node: a cache of session states, what the poll did last; reads `session_control_state` | read, refuse a step and put its input back, refuse a tool, cancel, wake | session-control's row, the agent's loop | stale and late readings; stops that race with steps and tools; overlapping rounds | a command takes effect in time; no input is lost |
| **mailbox** `dsh-plugins/mailbox` | `mailbox_future` | create, settle, poll, wait, sweep | agents of all nodes | expiry against settlement; repeated deliveries; a sweep that does not run | the first settlement counts; nobody waits for ever |
| **agent-teams, subagent-host, subagent-remote** `dsh-plugins/` | teams and boards; child runs, callback outbox | assign, wake; spawn, take, settle, call back | scheduler, mailbox | children on nodes that fail | work ends once and is reported |
| **edge-gateway, terminal-gateway, rate limits, observability** | route tables, buckets, metrics | forward, follow, limit | users | little: short transactions and forwarding | — |
| **desktop, console, lumo-ui, other plugins, data-plane image, deploy, shared** | — | presentation, packaging, schemas, adapters | — | — | — |

`PROJECT.json` lists every part with its main source files and whether it is modelled, wholly or partly
and up to where, and the hazards with the properties that watch them.

## Modules

| module | what it is | models |
|---|---|---|
| `SessionState` | the state machine of a session as data and pure operators | `session-control/internal/state/state.go` |
| `ControlLog` | abstract: the row of each session as a serial log of legal commands | what `store.Commit` promises |
| `SessionControl` | all instances over one database | `internal/control/control.go`, `internal/store/store.go` |
| `SessionControl_proofs`, `ControlQueue_proofs`, `Scheduler_proofs`, `Delegation_proofs`, `DeviceTasks_proofs`, `SignIn_proofs` | theorems about the module named, the last also about `Organization`; see [What is proved](#what-is-proved) | |
| `PulseLock` | abstract: a turn one pulse owns at a time, that can be overstayed | what `queue.Manager` promises for a session |
| `ControlQueue` | the queue of one session in one instance, critical section by critical section | `internal/queue/queue.go` |
| `SingleFlight` | abstract: a task's attempts, one at a time, each dispatched once | what `PlaceTask` and `CompleteTaskAttempt` promise |
| `Scheduler` | election, placement, stops, drain loops, nodes | `scheduler/cmd/scheduler/main.go`, `internal/{store/store,server/server,election/election,planner/planner}.go`, `dsh-plugins/subagent-host/src/governed-dispatch.ts` |
| `Migration` | work taken away from clusters and nodes that are lost | `scheduler/internal/store/{migration,store}.go`, `cmd/scheduler/{migration,stall}.go`, `internal/clusterreg` |
| `NodeLoss` | nodes reported lost, and the threads they host | `heartbeat/{nacos,nodeloss}.go`, `collaborator/internal/store/threads.go` |
| `Readiness` | heartbeats of services and the gate they feed | `heartbeat/{heartbeat,readiness,watcher}.go`, `governance/internal/{readiness,domain,server}` |
| `TaskStates`, `Delegation` | the two state machines of a delegated task; its runs, hand-over, reports and reviews | `governance/internal/{domain/domain,store/store,store/task_results,server/server}.go` |
| `DeviceIdentity`, `DeviceTasks` | a machine's certificate and channel; a run handed to it | `governance/internal/store/{devices,nodes}.go`, `internal/device/gateway.go`, `registry/cmd/desktop-agent/main.go` |
| `Organization`, `SignIn` | users, departments, administrators; signing in (extends `Organization`) | `governance/internal/store/{users,organization,oidc,auth,webauthn}.go` |
| `FlowTriggers`, `FlowLifecycle` | the trigger outbox and its attempts; definition, review and publication | `flows/internal/{store,trigger,server,domain}` |
| `CronCursors`, `CronCalendar` | the producers of cron triggers; the search for the next occurrence | `flows/internal/{schedule,store,cron}` |
| `FlowGraph` | validation, execution order and lineage of a graph | `flows/internal/{domain,engine,lineage,store}` |
| `Documents` | one document over several instances | `collaborator/internal/{hub,store,ring,server}` |
| `Knowledge` | from a publication to the vector index | `collaborator/internal/{store,dispatch}`, `dsh-plugins/knowledge/src` |
| `SessionLog` | the replicated log of one session | `dsh-plugins/session-log/src` |
| `ToolJournal` | the journal of tool calls | `dsh-plugins/recovery/src` |
| `JobControl` | jobs of a node and commands for them | `dsh-plugins/job-control/src` |
| `Mailbox` | one future of the mailbox | `dsh-plugins/mailbox/src` |
| `Actuation` | what control commands do to a running agent; composed with `ControlLog` | `dsh-plugins/control/src` |
| `OAuthGrants`, `Invocations` | grants and their tokens; calls, approvals and the breaker | `connector-gateway/internal` |
| `Projects` | one project and what hangs on it | `projects/internal/{store,server,domain}` |
| `Coalescer`, `Metering` | the batching window; budgets, outbox, broker and ledger | `llm-gateway/internal`, `usage-ledger/internal` |
| `Rollouts`, `Installs` | channels of the registry; what a node has installed and runs | `registry/internal/{store,plan,resolve,server,provisioner,artifactruntime}` |
| `SkillReleases`, `SkillAccess` | versions of governed skills and their release; who may use them | `governance/internal/{store,server,domain}`, `registry/internal/governedskills` |
| `MC_Governance`, `MC_Services`, `MC_Live` | small instances and compositions for TLC; `MC_Governance` and `MC_Services` also hold theorems about the composition. The three core components are checked as they are, with the constants of their `.cfg` | |

**Who composes whom.** `SessionControl` does not repeat the queue. It uses what `ControlQueue` is
checked to implement (`PulseLock`): one owner per instance and session, a hand-over to a waiter when the
turn is given back, and an eviction at any time; and it keeps the two ways in which a wait may end
(before and after the grant), because the handler treats them differently. `Migration` treats a placement
as one step, what `Scheduler` is checked to make of it. `DeviceTasks` takes a usable channel from
`DeviceIdentity` ("ready"); `SignIn` is an extension of `Organization`, so the two run together.

**Worlds.** Components that share no modelled state are checked in one run: every behaviour of
`MC_Governance`, `MC_Services` and `MC_Live` belongs to one component with one set of bounds, named by
the variable `world`, which never changes. The invariants are implications from the world. In
`MC_Governance` each part has variables of its own; in the other two the components keep theirs in common
places `s1`, `s2`, ..., in the order in which their modules declare them (`INSTANCE ... WITH`), and places
a component has no use for stay empty. So a state of such a run is a state of one component, and the
number of states is the sum over the worlds. A component's own properties keep their names in its module;
the run checks conjunctions of them (listed below).

Definitions called a *faulty variant* or *mutant* in comments belong to no action: each is a form of a
definition with a plausible bug, used to see that a property notices it. Properties introduced as *stated
and not kept* are checked by no run: they say what a comment promises, and the section on disagreements
says how the code fails them.

## Session control

**State.** `row[s]` is the row of `session_control_state` (realm, state, revision, last correlation id,
last command) or `NoRow`; `audit[s]` the rows of `session_control_audit`; `owner[i][s]` the pulse in
effect in the queue of instance `i`. A request is a *pulse*: `pc[p]` is where its handler is,
`seen[p]`, `verdict[p]` and `attempt[p]` are the local variables of `Execute`, `answer[p]` what the
caller was told.

| action | code |
|---|---|
| `Submit`, `Start`, `GiveUp`, `GiveUpGranted` | `Queue.Acquire` as `Execute` sees it: at once, after a wait, `BusyError` (recorded as `busy`), or the plain `ErrBusy` of a grant that crossed the time-out (returned, not recorded) |
| `LoadAndDecide` | the body of the retry loop: `Store.Load`, the realm check before the policy is asked, the policy's answer (any), the state machine |
| `CommitChange`, `CommitVerdict` | `store.Commit` under the row lock: realm, then revision, then state, revision and audit in one transaction |
| `CommitConflict`, `CommitRealmMismatch` | its two refusals, and the retry or its exhaustion |
| `FindNoRow`, `InsertUnlocked` | the path without a row to lock: two steps, since another transaction may create the row between them |
| `RecordLoad` ... `RecordLost` | `recordVerdict`: a load and a commit whose failure is ignored |
| `Release`, `Evict` | the deferred `Release`; the sweep, at any time after a turn began |
| `StoreFails`, `Crash`, second branch of `Conclude` | the database refuses; an instance dies with its queue and handlers; a commit succeeds and the caller is told of an error |

A first row is created by `INSERT ... ON CONFLICT DO NOTHING` and then locked inside the same
transaction, so creating and changing it are one step. `Init` allows rows a former deployment left
(any state a program writes, revision 0).

**Properties.** The central one is `AuditReplaysRow`: the applied audit rows of a session carry the
revisions 1 to the row's exactly once and in order, each starts where the one before ended, and the
last one explains the row. `OneEffectPerRequest`, `AnswerMatchesAudit`, `AuditStaysInRealm`,
`TurnHasHolder`, `NoFreeTurnWhileWaiting` and `AllAnswered`, of the run `live`, are
stated with the code behaviour they are about in the module. `ControlLogSpec` is the refinement.

## The control queue

`ControlQueue` has a step for each critical section of the queue's mutex and none larger: `Arrive`
reads the clock *before* the lock (`m.opts.Now()` in `Acquire`), `Enter` sweeps, then takes the turn or
queues, with that reading; the `select` may take any ready branch (`Wake`, `TimeOut`, `Cancel`);
`Abandon` and `AbandonGranted` are the two outcomes of `abandon`, the second of which lets the lock go
and calls `release` in another critical section (`Return`). Time is discrete and `MaxHold`,
`WaitLimit` are in its units. The deletion of empty queues from the map is not visible to callers and
is left out; the history `entered` is only for a property.

`LockSpec` is the refinement to `PulseLock`; `TurnIsCared` says that a turn never belongs to a caller
that has gone home; `FirstComeFirstServed`, `NoFreeTurnWhileWaiting`, `EveryCallReturns` and
`NoTurnForEver` complete it.

## The scheduler

**State.** `lease[scope]` stands for the global lease row and for those of the clusters; `held[i][scope]`
is what the process believes (`election.State`, an atomic pointer that may be late); `row`, `ledger`,
`outbox`, `cmd`, `taken` are the tables `scheduler_tasks`, `scheduler_task_attempts`,
`scheduler_dispatch_outbox`, `scheduler_control_commands`, `lumo_governed_executions`. `job[w]` is the
program counter and the local variables of an HTTP call or of a drain loop; the locks on the lease row
and on a task's row are read off it.

| actions | code |
|---|---|
| `Acquire`, `AcquireUnseen`, `NotAcquired`, `Expire` | one election attempt and its answer, seen in time or not; `expires_at` passing |
| `Receive`, `Plan` | `handlePlace`: replay of a standing placement, the lease it decides under (`server.go:234`), the planner over a reading of the load |
| `Fence`, `Inspect`, `Gate`, `Write` | `PlaceTask`: `checkFencing ... FOR UPDATE`, the task's row `FOR UPDATE`, the slot gate, the upserts and the dispatch |
| `Queue`, `FindVictim` | `QueueTask`, then the preemption it may try |
| `Cancel`, `RecordIntent`, `StopAcked`, `StopFailed`, `Confirm` | `handleCancel` and preemption: read, intent, call to the node, `requestStop` |
| `DrainTick`, `DrainList`, `DrainPick`, `Panic` | the drain loop of `main.go` and `drainOnce`: the leadership is read twice; `PendingTasks` is the query, the first `Batch` (32 in the code) of the waiting tasks by deadline, priority and age |
| `Report`, `Take`, `Settle` | results of ordinary attempts; admission and end of governed runs by their runtime |
| `Crash`, `Shutdown` | a process dies; the orderly stop, which gives back the global lease only |

*Abstractions.* Weights, labels and scores of the planner are left out: any eligible node with room may
be chosen. `Deadline` and `Priority` of a task are constants; its age is left open, so of equals the query may
return any; so is the order in which a round takes what it has read (deadlines and weighted fair queueing). `expires_at` is compared with the start of the
transaction; a lease that expires while its holder waits for the lock passes the check, and since nobody
else touched it the same behaviour has `Expire` after `Fence`. `delivered_at` is not kept: of the
modelled steps only `Take` reads it, and `taken` covers that. The node's report names its attempt, or 0
for the current one. Ordinary tasks end by `Report`, governed ones by `Settle`.

**Properties.** `NoOvercommit` (the slot gate), `PlacedUnderCurrentLease` and `TokensFollowAttempts`
(fencing), `SingleFlightSpec` (refinement: one attempt at a time, each opened and dispatched once, a
governed run never twice), `LedgerFollows`, `CancellingOnRecord`, `AcknowledgedStays` (the stop
protocol), `WaitingWorkIsPlaced` (liveness, of a task that fewer than `Batch` waiting tasks may come before).
Of the tasks behind them nothing is promised: `NobodyStarves` states what the fair queueing is meant for and the
limit of the query defeats (below, *Where code and comments disagree*).

## Migration, node loss and readiness

| module | state ↔ code | actions ↔ code |
|---|---|---|
| `Migration` | `row`, `ledger`, `outbox`, `ran` = `scheduler_tasks`, `scheduler_task_attempts`, `scheduler_dispatch_outbox`, `lumo_governed_executions`; `age` = how long ago a cluster reported itself; `listed`, `snap` = the node directory and each replica's copy; `round` = a replica's round of migration or reaping | `Report`, `Silent`: cluster registration and its ageing; `RefreshNodeSnapshot`, `RefreshFails`; `JudgeClusters`, `ListMigratable`, `MigrateTask`: `migration.go`, one step per statement; `Stall`, `ReapStalled`, `DeadLetter`: `stall.go`; `ClaimDispatch`, `RequeueStaleDispatch`, `Complete`, `Reconcile` with lists that may be old; `Put`, `PlaceTask` |
| `NodeLoss` | `thread`, `notice`, `seq` = the tables and the sequence of the notices; `missing`, `reported` = the observer's memory in every replica; `tx`, `cursor` = a report being applied and a coordinator's cursor | `Register`, `Tick`: a registration is lost or comes back, time passes; `ReadNodes`, `ReadFails`: one round of the loop; `ReportNodeLoss`, `CommitNodeLoss`, `AbortNodeLoss`: `FailThreadsOnNodeLoss` up to and from its commit; `CreateThread`, `TransitionThread`, `PollNotices` |
| `Readiness` | `row` = `lumo_service_heartbeats`; `publisher`, `late` = a service's loop and the statements it gave up; `reading`, `snapshot` = governance's watcher | `Run`, `Publish`, `Write`, `WriteFails`, `Lands`, `Resume`, `Stop`, `Crash`: `heartbeat.go`; `BeginRefresh`, `ReadAll`, `Refresh`, `RefreshFails`, `Restart`: `watcher.go`; `Gate` = `ResolveGate`, `Serves` = `requireCluster`; `Prune`; `Tick` keeps the intervals of a publisher that runs |

`MovesAreSafe`: only lost work is given up (`OnlyLostWorkIsGivenUp`: judged from two readings taken at
different times, against tasks read after them), what was moved is not delivered (`MovedIsNotDelivered`)
and ends are kept (`EndsAreKept`). `NodeLossHolds`: a node is reported on evidence only, an outage of the
directory not counting (`LossIsEvident`), a lost thread has one live successor at most (`OneHeir`), and
failing a thread and telling its coordinator are one fact (`NoticesTellOfFailures`). `ReadinessHolds`:
management calls are served only if the table showed every required service serving, at most a stale
reading and a query ago (`GateFailsClosed`), and three consecutive failures of a publisher do not make it
unhealthy (`ThreeFailuresAreBorne`).

*Abstractions.* A placement is one step (see `Scheduler`); every replica may be in a round, since
leadership is tested at its start only. Ages are counted in periods. Versions, reasons and the report of
quiet replicas are left out of the heartbeats.

## Governance

| module | state ↔ code | actions ↔ code |
|---|---|---|
| `Delegation` | `task`, `run`, `result`, `outbox` = the tables; `placed` = the scheduler's answer for a run; `call[c]` = what a handler read and has not yet used | `Create`, `ReadForRetry`/`Retry`, `ReportNewRun`, `ReportRun`, `ReadForStatus`/`Status`: handlers of `server.go`, read and transaction apart; `Cancel`, `Reconcile`, `MirrorTask`, `MirrorRun`: the stop and what is made of the scheduler's answer; `Deliver`, `Defer`, `RecordPlacement`: the delivery loop; `Result`, `Decide`, `Transition`: results and business events with their gates; `Abandon`: a handler fails |
| `DeviceIdentity` | `node` = rows of the node and its connection; `machine` = identity file and channel of the agent | `SetDevicePolicy`, `IssueDeviceEnrollment`, `EnrollDevice`, `RotateDeviceCertificate` (its answer may be lost), `ReplayEnds`, `CertificateEnds`, `ConnectDevice`, `Desire`, `DeviceHeartbeat`, `Break`, `HangUp`, `DisconnectDevice`, `LeaseEnds` |
| `DeviceTasks` | `run`, `sched`, `outbox`, `result`, `cmd`, `server` = tables; `link` = what is on its way; `disk`, `agent`, `job` = journal, inbox, receipts, loop and runner of the agent | dispatcher: `DispatchDeviceTask`, `DispatchDeviceCancellation`, `ClaimDeviceCommands`, `CommandEnds`; agent: `Accept`, `Stop`, `Answer`, `Finish`, `RecoverTaskInbox`, `Die`; gateway: `CompleteDeviceCommand`, `RecordDeviceTaskResult`, `Receive`; `ConnectDevice`, `Break`, `DisconnectDevice`, `LeaseEnds`; `SchedulerCancels`, `TaskCancels` |
| `Organization` | `user`, `dept`, `role`, `grant`, `identity`, `session` = the rows | one action per transaction: `CreateLocalUser`, `UpsertUser`, `ResetPassword`, `UpdateRole`, `AssignRole`, `RevokeRole`, `LinkOIDCUser`, `UnlinkOIDCUser`, `CreateDepartment`, `UpdateDepartment`; `GrantEnds` |
| `SignIn` | `ticket` = captchas, challenges, flows; `failure`, `totp`, `passkey` = the rows; `call` = requests between two transactions | `Captcha`, `Password`, `VerifyLoginMFA`, `Open` (`CreateAuthSession`), `ChangePassword`, `ReadTOTP`/`WriteTOTP`, `BeginPasskeyAssertion` ... `CountSignature`, `BeginOIDCLogin` ... `CompleteOIDCLogin`, `LockEnds`, `SessionEnds`; `Administer` and `SetUserCredentials`: what an administrator does to those who sign in, at any time |

`ClosedTreeIsQuiet`, `DoneRestsOnAResult`, `WaitingRunIsCared` and `AttemptsStandStill` are about
delegated tasks under every interleaving of two handlers and the delivery loop.
`ConnectionsAreSound` = `MachineKeepsAWayIn` (a renewal whose answers are lost does not lock the machine
out) and `AppliedIsOfThisConnection` (what makes a node deliverable was said over its present channel).
`LedgerIsBackedByTheMachine` relates the task ledger to the machine's disk through broken channels and
restarts. `OrganizationIsSound` = `AdministratorRemains` and `OrganizationIsConsistent`; `SignInHolds` =
`SessionRestsOnItsGrounds` and `TicketsServeOnce`, with an administrator's reset, suspension or unlinking
between any two transactions of a sign-in.

*Abstractions.* Cryptography is a yes or no: a password is the number of its setting, a certificate its
serial, a passkey its signature counter. Transactions under the realm's advisory lock or a row's lock are
single steps. Expiry (of grants, locks, commands, leases) may happen at any time. The scheduler of
`Delegation` is its answers; `DeviceTasks` starts with placed runs.

## Flows

| module | state ↔ code | actions ↔ code |
|---|---|---|
| `FlowTriggers` | `outbox`, `bound`, `run` = `flow_trigger_outbox`, `flow_trigger_bindings`, `flow_runs`; `worker` = a worker's delivery | `EnqueueTrigger`, `EnqueueCron`, `EnqueueReplay`; `ClaimTriggers`, `RenewTrigger`, `RequeueStaleTriggers`, `AckTrigger`; `PrepareTriggerBindings`, `StartTriggerRun`, `FinishTriggerRun`; `Publish` and `Switch` change what would be bound; `Abandon`, `Tick` |
| `FlowLifecycle` | `flow`, `snapshot`, `change` = the rows; `step` = a transition between its two statements; `view` = the draft a user looks at | `TransitionFlow`/`Finish` and `Begin` (two statements), `Review`, `Rollback`, `UpdateDefinition`, `CreateChange`, `SaveChange`, `SubmitChange`, `DiscardChange`, `ReviewChange` |
| `CronCursors` | `cursor` = `flow_cron_cursors`; `cycle` = each producer's cycle | `ListCronAutomations`, `LoadCronCursors`, `UpsertCronCursor`, `DeleteCronCursors`, `DueCronCursors`, `FireCronCursor`, `Edit`, `Tick`, `Stop` |
| `CronCalendar` | an expression as written and as parsed, a zone whose clock changes once, a cursor | `Pass`, `Fire`: a cursor goes from occurrence to occurrence, or catches up; `ParseField`, `DateMatches`, `Following`, `CaughtUp` = `parseField`, `dayMatches`, `Next`, `Due` |
| `FlowGraph` | the edges, the engine's in-degrees and order, an answered query | `Validate` = `ValidateDefinition`; `Execute`, `Return` = `Run`; `LineageNeighbors` |

`FlowsHold` = `TriggersHold` (`OneAttempt`, `DeliveredIsSettled`, `ReplaysArePinned`),
`PublishedHasSnapshot`, `CursorsHold` (`FiresOnce`, `NothingBetween`), `CalendarHolds` (`NextIsFirst`,
`DueIsLatest`: the search against its definition over every minute of a small calendar, with a clock that
skips or repeats minutes, at midnight too) and `GraphHolds` (`RunsInOrder`, `LineageIsComplete`: the
algorithms against their definitions over all graphs of three nodes). `OutcomesKept`,
`SnapshotsAreReviewed` and `FiresForward` are the action properties.

`FiresOnce` holds for one replica under edits (world `edits`) and for two while nobody edits (`producers`). With both
(`replicas`) the exactly-once of the code's comment is not kept (run `cron_replicas`); what is then left, and checked,
is `NothingBetween` and `FiresForward`: an occurrence is queued only if it is later than what its cursor has fired or
where it started, so none is queued twice between two upserts of the cursor.

*Abstractions.* An expression is, for the cursors, the set of instants at which it fires; that `DueCronCursors` returns at most
100 cursors is a cycle that stops early (`Stop`); an event has
one name that every automation subscribes to; handlers of nodes answer anything. The small calendar has
days of four hours of two minutes, weeks of three days, months of at most three days and a leap day, so
that every field and every carry of the search matters.

## Documents, knowledge and what runs on a node

| module | state ↔ code | actions ↔ code |
|---|---|---|
| `Documents` | `wal`, `counter` = Redis; `saved` = `collab_state`; `doc`, `snapshot` = an instance's document and the local values of `Snapshot`; `peers`, `ring` = Nacos and each instance's ring | `Connect`, `ReadTail`, `Install` (`Open`); `AppendWAL`, `Acknowledge`, `AppendUnanswered` (`Apply`); `Take`, `Merge`, `SaveState`, `Trim` (`Snapshot`); `EvictIdle`, `Drain`, `Sync`, `LoseCounter`, `Crash` |
| `Knowledge` | `publications` = `collab_publish_outbox`; `source`, `queued` = `knowledge_sources` and its vector outbox; `vectors` = the remote index; the rest: dispatchers, editors and drainers at work | `Publish`, `Scan`, `Call`, `Write`, `Ingested`, `Refused`, `TimedOut`, `LateIngest`, `Withdraw`; `Read`, `Save`, `Delete`, `Rebuild`; `LockRow`, `Clear`, `Fill`, `RollBack` |
| `SessionLog` | `lease`, `log`, `head` = the tables; per node `session`, `tail` (its promise chain), `write` (what the first of them is doing), `token`, `fenced`, `renewal` | `Begin`, `Create`, `Restore`, `Construct`, `Emit`; `EnsureToken`, `PublishHead`, `AppendRecord`, `WriteFails`; `Renew`, `RenewRuns`, `RenewAnswered`, `RenewFails`, `Expire`; `Dispose`, `Release`, `Forget`, `Crash` |
| `ToolJournal` | `row` = `tool_call_journal`, for one key; `call` = each handler | `RecordIntent`, `ReadPrior`, `Adjudicate`, `Execute`, `RecordOutcome`, `Confirm`, `Crash` |
| `JobControl` | `job`, `known`, `batch` = a node's jobs, handles and commands in hand; `execution`, `stream`, `command` = the tables; `record` = writes under way | `Begin`, `End`, `Record`, `RecordFails`; `Dispatch`, `Take`, `ClaimExpires`; `Apply`, `ApplyFails`, `Restart` |
| `Mailbox` | `future` = a row of `mailbox_future`; `settle`, `waiter` = calls under way, `result` = what a settler was told | `Create`, `Sweep`; `Ask`, `Update`, `Read` (`settle`), `AskAgain`; `BeginWait`, `Poll`, `GiveUp` (`wait`) |
| `Actuation` | `row` = session-control's row, moved by `ControlLog!Effect`; `cache`, `query` = `stateCache` and calls of `currentState`; `acted` = the poll's memory; `inbox`, `agent` = the agent's loop | `BeginTurn`, `NextStep`, `CallTool`, then `ReadRow` and `DecideStep` or `DecideTool` (the hooks); `BeginRound`, `ReadRow`, `EndRound`, `RoundFails` (the poll); `Command` |

`DocumentsHold` = `AckedSurvives` (of one instance, with crashes: what a sender was told is saved can be
opened again; two instances do not keep it, see run `docs_twoholders`), `KnowledgeHolds`
(`DeliveredIsIndexed`, `IndexFollowsSource`), `SessionLogHolds` (`TokensTellWritersApart`, `GivenIsDone`,
`SmoothIsOneHistory`), `ReachedOnce` `JobsHold` (`StreamIsWellFormed`, `DoneIsCarriedOut`), `MailboxHolds`
(`FirstSettles`, `WaitersAgree`) and `ActuationHolds` (`InputIsKept`: what is claimed for a step is given to
one or put back in its place, in order, whatever commands come meanwhile; `OnlyAbortedIsCancelled`: however
old the reading). Action properties: `WritersHoldTheLease`, `NoEditIsLost` and `CommandsTakeEffect`: no step
and no tool passes that the row had refused for the cache's ttl when it was asked for and still does,
though answers come late and overwrite newer ones in the cache.

*Abstractions.* A CRDT state is the set of updates merged into it (the kernel, yrs in Rust, is external).
A text is a number; chunking and embedding are left out. An event of a session is told apart by position
and incarnation; hot and cold layers and the staleness of queries are left out; a session is not resumed
on a node that still drains it. The agent's loop is external and modelled as the hooks see it (claim, ask, run);
its hooks' queries do not fail. A time to live counts down, and the clock is the database's.

## Connectors, projects and usage

| module | state ↔ code | actions ↔ code |
|---|---|---|
| `OAuthGrants` | `grant`, `cleanup` = `connector_oauth`, `connector_oauth_cleanup`; `tokens` = the vault; `request` = the exchange each worker has in flight | `Begin`, `Reserve`, `Complete`, `Exchange`, `WriteToken`, `Finish`, `Refresh`, `Fail`, `Deny`; `Disconnect`, `Upsert`, `Switch`; `Retire`, `SelectKey`, `DestroyToken`, `ForgetKey`; `Crash`, `DeadlinePasses` |
| `Invocations` | `manifest`, `approvals` = rows; `cached`, `calls`, `breaker` = one replica's memory | `Route`, `AskApproval`, `Decide`, `ApprovalExpires`, `InvokeApproved`, `Invoke`, `Allow`, `FinishClosed`, `FinishHalfOpen`, `Return`; `Upsert`, `Switch`, `CacheExpires` |
| `Projects` | the project's row, members, rows that hang on it, decisions, reports; `handler` = requests let through and not yet done | `CreateProject`, `Require`, `AddMember`, `ReadMember`/`WriteMember`, `UpsertRow`, `DeleteAutomation`, `ReadStatus`/`WriteStatus`, `DeleteProject`, `AppendDecision`, `CreateTaskReport`, `ReadReport`/`ConfirmTaskReport` |
| `Coalescer` | `caller`, `group`, `groups`: the held requests, the groups and the table under the mutex | `Acquire`, `Fire` (the timer), `Callback` (its goroutine, late), `Cancel`, `Drop`, `Close`, `Tick` |
| `Metering` | `tree`, `outbox`, `ledger` = tables; `call`, `batch`, `broker`, `consumer`, `attempts` = calls, publishers' transactions, the broker, the consumers | `Reserve`, `Answer`, `Disconnect`, `Commit`, `CommitFails`; `TakeBatch`, `Send`, `MarkPublished`, `AbandonBatch`; `Receive`, `Insert`, `InsertFails`, `Ack`, `Redeliver`, `Restart` |

`ConnectorsHold` = `GrantHolds` (`GrantIsConsented`, `TokensAreTracked`, `SecretsAreUsedOnce`: database
and vault have no common transaction, and a process may die between any two steps) and `CallsHold`
(`ApprovalsAreOneShot`, `ProbesAreOut`). `RecordsHold` includes `NothingIsOrphaned` and `PointersAgree` of
projects, with `RecordsStand` as action property. `UsageHolds` = `CoalescerHolds` (`HeldIsBounded`,
`SeatsAreTaken`) and `MeteringHolds` (`BooksBalance`, `OverrunIsBounded`, `NothingVanishes`), with
`BatchesAreDue` as action property.

*Abstractions.* The breaker's sliding window is its verdict; a broker delivers at least once in any order.
Bodies of requests, model providers and the choice of a model are left out. Artifacts, spaces and
automations of a project behave alike and are one set.

## Releases, installations and skills

| module | state ↔ code | actions ↔ code |
|---|---|---|
| `Rollouts` | `blobs`, `artifact`, `rollout` = object store, index, channel; `putting` = transactions of administrators | `BeginPublish`, `PutBytes`, `InsertArtifact`, `PublishFails`, `Distrust`; `BeginPut`, `CommitPut`; `Select` = `SelectRolloutVersion` |
| `Installs` | `disk`, `skills`, `state` = a node's files; `job` = the provisioner; `process`, `request` = the artifact runtime; `report` = the registry's row | `Retarget`, `Reconcile`, `MoveAway`, `Place`, `WriteManifest`, `ReplaceSkills`, `WriteSnapshot`, `WriteState`, `Report`, `InstallFails`, `Crash`, `Damage`; `Ask`, `Start`, `Stop`, `Exit`, `RemoveFiles`, `RemoveState` |
| `SkillReleases` | `skill`, `source` = rows of skills and versions; `request` = a publication under way; `bundle`, `refused` = the publisher's last snapshot | `CreateSkill`, `CreateSkillVersion`, `AskPublish`, `PublishSkillVersion`, `Assemble`, `Restart` (the schema's own update runs at each) |
| `SkillAccess` | tree, role, membership, versions, grants, revocations; `reading` = what a resolution has read | `Begin`, `RoleIDs`, `DepartmentPath`, `DepartmentAncestors`, `ProjectMember`, `MatchingRevocations`, `Candidates`, `Resolve`: a statement each; `GrantSkill`, `RevokeSkill`, `DeleteSkillAccess`, `Transfer`, `NewVersion`, `Change` at any time |

`ReleasesHold` = `RolloutsHold` (`SelectedIsFetchable`, `HoldbackIsAnother`), `InstallsHold`
(`ConvergedIsInstalled`, `PartsAreInvisible`: a crash between any two file operations) and
`SkillReleasesHold` (`PublishedStands`, `BundleIsApproved`, `SnapshotIsServed`, without a restart; with one
`BundleIsApproved` fails, run `skills_released`). `RecordsHold` includes `SkillAccessHolds`
(`RevocationsPrevail`, `HighestPrevails`). Action properties: `ReleasesOnlyWiden`, `StartsAreVerified`.

*Abstractions.* Bytes are a digest, signatures a property of a payload; dependencies of artifacts,
bundles, proficiency of workers and the ranking of candidates are left out.

## Runs, bounds and fairness

| run | question | properties | distinct states |
|---|---|---|---|
| `sc_races` | do three requests on two instances leave an audit that replays, as a refinement of `ControlLog`? 1 session, 1 realm, pause and resume, 2 reads each, no faults | `TypeOK`, `AuditReplaysRow`, `ControlLogSpec` | 629 042 |
| `sc_faults` | the inductive invariant, and what callers, realms and turns see under failures, crashes, lost acknowledgements: 2 requests, 2 instances, 2 realms, six commands, 2 faults | `IInv`, `OneEffectPerRequest`, `AuditIsTrue`, `TurnsAreCared` | 988 684 |
| `queue` | everything about the queue: 3 pulses, `MaxHold` 2, `WaitLimit` 1, arrivals up to 2, clock up to 4 | `QueueIsSound`, `FirstComeFirstServed`, `LockSpec`, `EveryCallReturns`, `NoTurnForEver` | 122 663 |
| `sched_contention` | placement, cancel, preemption and ends of tasks with two instances racing for the lease and a slot: 1 node with 1 slot, 2 tasks (1 governed, the other urgent), 2 calls at a time, 3 in all, 1 fault | `TypeOK`, `NoOvercommit`, `LedgerFollows`, `TokensFollowAttempts`, `CancellingOnRecord`, `SingleFlightSpec`, `PlacedUnderCurrentLease`, `AcknowledgedStays` | 932 706 |
| `sched_live` | is waiting work placed under either scope of lease, though a round reads one task only? 2 instances of one cluster, 1 node, 3 tasks, one of a cluster without nodes, 3 calls, 1 fault | `PlacedUnderCurrentLease`, `WaitingWorkIsPlaced` | 794 454 |
| `governance` | delegated tasks, machines, departments, administrators, signing in (nine worlds) | `ClosedTreeIsQuiet`, `DoneRestsOnAResult`, `WaitingRunIsCared`, `AttemptsStandStill`, `ConnectionsAreSound`, `LedgerIsBackedByTheMachine`, `OrganizationIsSound`, `SignInHolds` | 1 040 049 |
| `services` | the other services (thirty-seven worlds) | `NodeLossHolds`, `FlowsHold`, `DocumentsHold`, `ConnectorsHold`, `RecordsHold`, `UsageHolds`, `ReleasesHold`, `WorkIsKept`, `RecordsAreKept` | 3 120 319 |
| `live` | does what was begun come to an end? (eight worlds) | `EverythingEnds` | 155 194 |
| `sched_twoleases`, `docs_twoholders`, `cron_replicas`, `skills_released` | claims of comments that the code does not keep, as small as shows it | `NoOvercommit`, `AckedSurvives`, `FiresOnce`, `BundleIsApproved` | — |

Conjunctions: `QueueIsSound` = `TypeOK` ∧ `TurnIsCared` ∧ `NoFreeTurnWhileWaiting`; `TurnsAreCared` =
`TurnHasHolder` ∧ `NoFreeTurnWhileWaiting`; `AuditIsTrue` = `AnswerMatchesAudit` ∧ `AuditStaysInRealm`;
those of the compositions are named in the sections above. `WorkIsKept` and `RecordsAreKept` collect
the action properties of the worlds.

*Why these bounds.* A conflict needs two requests and its exhaustion `MaxAttempts` = 2 reads; a third
request (`sc_races`) conflicts with a retry and waits behind a waiter. One session is enough because no
step of one session reads or writes another (the proof is for any number); two realms let one lose the
race for the row. In the queue, three pulses give a holder, a waiter and a waiter behind it; `MaxHold`
> `WaitLimit` lets a waiter time out before and after a take-over. In the scheduler one slot and two
tasks make every placement a race for the last slot; two instances are enough for a deposed leader and
its successor, one fault, at any step, for the deposition. In `sched_live` a `Batch` of 1 and two tasks that wait at once make the
limit of the query matter: with the order of the query dropped, `WaitingWorkIsPlaced` fails. `MaxCalls`, `MaxFaults`, `LastArrival`
and `MaxClock` are the only bounds of these modules that are not in the code.

The bounds of the worlds are in the instances of `MC_Governance`, `MC_Services` and `MC_Live`; bounds
that are not in the code are marked *bound* where a module declares them (`MaxAttempt`, `MaxCrash`,
`MaxChange`, ...). The principle is the same everywhere: two actors for each race (two handlers, workers,
publishers, editors, administrators, or a handler and a loop), two versions or attempts so that an old one
can meet a new one, a third where the code keeps "previous" or "next" beside "current"; one crash or loss
per step that can be lost, two where the recovery can be interrupted (`Installs`); and ages counted to the
smallest value at which the code's limit has two sides. Where one component needs different bounds for
different questions it has more than one world:

| component | worlds |
|---|---|
| `Delegation` | `solo` (scheduler, retries), `upgraded` (a row older than runs), `family` (parent and child, every business event) |
| `DeviceIdentity`, `DeviceTasks` | `identity` (2 policies, 3 certificates, 2 connections); `devices` (1 run, 2 connections, 1 managed command) |
| `Organization`, `SignIn` | `departments` (3 departments), `administrators` (2 users, 2 subjects); `passwords` (2 requests at once), `passkeys` (3 tickets, provider links) |
| `Migration` | `moves` (1 task, 2 nodes in 2 clusters, 2 attempts) |
| `NodeLoss`, `Readiness` | `losses` (3 threads, 1 outage), `outages` (2 threads, 2 outages); `beats` (a publisher and its failures), `gate` (a publisher and a reader) |
| `FlowTriggers` | `triggers` (2 automations, 2 workers), `replays` (2 rows) |
| `FlowLifecycle`, `CronCursors`, `CronCalendar`, `FlowGraph` | `flows` (3 snapshots, 2 change drafts); `edits` (1 producer, expressions that change), `producers` (2 producers, none), `replicas` (2 producers, 1 edit); `calendar`; `graph` (all graphs of 3 nodes) |
| `Documents`, `Knowledge` | `documents` (1 instance, 2 clients, 3 edits, 1 crash); `indexing` (2 dispatchers), `sources` (2 editors, 2 drainers, 1 removal) |
| `SessionLog`, `ToolJournal`, `JobControl` | `writers` (3 events), `leases` (2 events and late answers), both with 2 nodes and 1 failure; `journal` (3 calls, each class of tool); `commands` (2 commands), `jobs` (2 jobs) |
| `Mailbox`, `Actuation` | `mail` (2 settlers, 2 waiters, each delivery twice); `inputs` (2 messages, pause and resume), `orders` (a ttl of 2, stop and abort) |
| `OAuthGrants`, `Invocations`, `Projects` | `grants` (2 workers, 4 generations), `invocations` (2 calls, 2 versions), `projects` (2 clients, 4 requests) |
| `Coalescer`, `Metering` | `requests` (4 requests, batches of 3); `calls` (3 calls, 2 trees), `ledger` (2 publishers, 1 consumer, 1 crash) |
| `Rollouts`, `Installs` | `rollouts` (3 changes); `provisions` (2 versions, 2 crashes, 1 damage), `runtime` (2 requests) |
| `SkillReleases`, `SkillAccess` | `skills` (2 skills, no restart), `upgrades` (1 skill, 2 administrators, 1 restart); `access` (a user), `agents` (an agent) |

`CHECK_DEADLOCK FALSE` is set where a bounded instance may have done everything it may do, or a system
really may rest.

*Symmetry* is used in safety runs only; model values that it permutes are alike in `Init` and in every
action.

*Fairness* is of what the program does by itself. `ControlQueue`: a call goes on, time passes, the
background ticker sweeps; nothing is assumed of a holder, which may never release. `Scheduler`: the
drain tickers fire, election attempts are repeated and their answers arrive at times, transactions and
calls go on; nothing is assumed of nodes (which may never report), of expirations or of crashes. `MC_Live`
assumes weak fairness of handlers, workers, publishers, consumers, tickers, of the writes and renewals of a
session log, of the executor of jobs and the expiry of its claims, of the polls of a waiter and the time of its future (`Going1` to `Going4`), and strong
fairness of single steps that may fail each time they are tried but succeed at some time: a file operation
of the provisioner, an answer of the index, a message handed out by the broker, an outcome recorded
(`Tried1` to `Tried7`); those steps are all retried by loops in the code. As a behaviour is one of a single
world, the conditions of different worlds are disjuncts of one condition. Nothing is assumed of requests,
edits, crashes, expirations or failures, which are bounded in number. `EverythingEnds` = `<>[]Settled`:
every control request is answered, a trigger is delivered or has had all claims of the model, a
publication is confirmed or given up and the index follows, a charge is in the ledger or was given up, a
node ends with what its channel selects, a session's writes are done and a node that lost its lease has
stopped, a command for a job is taken, and a waiter is told, at the expiry if by nobody else: nothing is
assumed of the sweep or of those that settle.

## What is proved

Eight modules hold theorems. Unless a line says otherwise they are for any values of the constants that
the assumption of the module allows. An assumption says only that values are of the kind the code uses
(numbers are naturals, `None` is no row, tables have the domains they are declared with); TLC evaluates
each on the instances it checks (`ControlAssumption`, `QueueAssumption`, `SchedulerAssumption` are
`ASSUME`s of their modules, the other three are part of `InstancesAreCovered` in `MC_Governance`).

| module | assumes | theorem | says |
|---|---|---|---|
| `SessionControl_proofs` | `ControlAssumption` | `Invariance`, `TypeCorrect` | `Spec => []IInv`, `[]TypeOK` |
| | | `AuditReplaysTheRow`, `AtMostOneEffect` | `Spec => []AuditReplaysRow`, `[]OneEffectPerRequest` |
| | | `NoTurnIsWasted` | `Spec => []TurnsAreCared` |
| | | `AuditTellsTheTruth` | `Spec => []AuditIsTrue` |
| | | `ImplementsControlLog` | `Spec => ControlLogSpec` |
| `ControlQueue_proofs` | `QueueAssumption` | `QueueStaysSound` | `Spec => []QueueIsSound` |
| | | `ServesInOrder` | `Spec => []FirstComeFirstServed` |
| | and `IdsAreUnique` | `ImplementsLock` | `Spec => LockSpec` |
| `Scheduler_proofs` | `SchedulerAssumption` | `TypeCorrect` | `Spec => []TypeOK` |
| | | `PlacesUnderCurrentLease`, `AcknowledgementsStay` | `Spec => PlacedUnderCurrentLease`, `AcknowledgedStays` |
| | | `CancelsOnRecord` | `Spec => []CancellingOnRecord` |
| | and `OneLease` | `NeverOvercommits`, `LedgerAgrees`, `TokensInOrder` | `Spec => []NoOvercommit`, `[]LedgerFollows`, `[]TokensFollowAttempts` |
| | and `OneLease` | `ImplementsSingleFlight` | `Spec => SingleFlightSpec` |
| `Delegation_proofs` | `DelegationConstants` | `ClosingIsQuiet`, `AcceptanceRestsOnAResult`, `NoWaitingRunIsLost`, `HistoryStands` | `Spec => []ClosedTreeIsQuiet`, `[]DoneRestsOnAResult`, `[]WaitingRunIsCared`, `AttemptsStandStill` |
| `DeviceTasks_proofs` | `DeviceConstants` | `LedgerIsBacked` | `Spec => []LedgerIsBackedByTheMachine` |
| `SignIn_proofs` | `AccountConstants` | `OrganizationStaysSound` | `Spec => []` (`AdministratorRemains` ∧ `OrganizationIsConsistent`) |
| | | `SignInStaysSound` | `SignInSpec => []` (`SessionRestsOnItsGrounds` ∧ `TicketsServeOnce` ∧ `AdministratorRemains`) |
| `MC_Governance` | none for the identity of a machine | `ConnectionsStaySound` | `Spec => []ConnectionsAreSound` |
| | `InstancesAreCovered` | `ClosedTreesAreQuiet`, `DoneTasksRestOnResults`, `WaitingRunsAreCared`, `EndedAttemptsStand`, `MachineBacksTheLedger`, `OrganizationStands`, `SessionsStand` | the properties of the run `governance`, from the theorems above |
| `MC_Services` | the instances of its worlds, `NilIsNoRow`, `NilIsNoEntity` | `ConnectorsStand`, `RecordsAreSound`, `ReleasesStand` | `Spec => []ConnectorsHold`, `[]RecordsHold`, `[]ReleasesHold` |
| | | `NodeLossStands`, `UsageStands` | `Spec => []NodeLossHolds`, `[]UsageHolds` |
| | | `RecordsStay` | `Spec => RecordsAreKept` |

Every theorem is reached along one line: an invariant stronger than what is wanted, that the initial
states satisfy and each action keeps. What had to be added, and why:

**Session control.** `AuditReplaysRow` is not inductive: nothing in it says that what a pulse is about to
write fits the row. `IInv` adds why it does. `SeenIsPast`: what a pulse has read and not yet acted on is
the row or older, and *equal revisions mean equal rows*, which is what makes the comparison of revisions
in `store.Commit` sufficient. `VerdictIsSound`: a verdict that changes the row is the one the row that was
read deserves, and only such a one is called `applied`. `TriesAreCounted` bounds the reads.
`EffectsAreInPlace`: before its commit a pulse has no effect, after it at most one. The lemma `StepKinds`
reduces the audit to three kinds of steps: those that leave row and audit alone, those that append a row
that is not `applied`, and `CommitChange`; `ChangeReplays` is the one place where the replay argument is
made, and the refinement of `ControlLog` follows from the same invariant. TLC checks `IInv` in `sc_faults`.

What callers are told needs `AnswersInv` on top: an answer that concludes is on record, and the others
left no effect (`Told`); a pulse that records without concluding was busy or lost its last race
(`RecordAnswered`, without which the rows of `recordVerdict` could contradict the answer); and a row keeps
the realm of the audit entries with a revision (`RealmKept`). `TurnsAreCared` is inductive with `IInv` once
it is split into what it says of an instance's turn and of a waiting pulse (`CaredByParts`): the proof is
that whatever leaves a turn passes it on (`PassOnCares`, `LeaveCares`).

**The control queue.** `FirstComeFirstServed` compares a history with who was served, so `IInv` must tie the
waiting list to both: the waiters are exactly the calls that still hope, each once (`WaitersHope`,
`HopefulWait`, `WaitOnce`), in the order of the history (`WaitInOrder`), which holds exactly those that got
at the queue (`HistoryIsTold`, `EnterOnce`); a grant is remembered until its call sees it (`GrantedBefore`),
the case in which a time-out crosses a hand-over. The refinement of `PulseLock` assumes that ids are
distinct, as the comment of `queue.go:176` does: with a repeated id an evicted holder releases its
successor's turn, and the refinement is false.

**The scheduler.** Some properties hold under any leases. `IInv` = types, plus: a worker between the fencing
check and the commit is still the holder with that token (`InsideIsFenced`) and alone there for its scope
(`InsideIsAlone`). That is the argument of `SELECT ... FOR UPDATE` on the lease row, and fencing
(`PlacedUnderCurrentLease`) follows. `CancellingOnRecord` and `AcknowledgedStays` rest on who writes what
(`WhoDispatches`, `WhoCommands`, `WhoWrites`): a command keeps its attempt and its acknowledgement while
the row keeps its attempt (`CommandsStay`), whatever late intent or failed call is recorded over it.

The slot gate and the ledger need more than a lease per scope: `InsideIsAlone` excludes two placements
under *the same* lease only. With `OneLease` (no instance decides under a cluster's lease, since none has
a cluster with tasks bound to it) every worker's scope is the global one, and `OneInv` follows: what
`PlaceTask` read of the row is current when it writes (`ReadsAreCurrent`), the room the gate saw is still
there (`RoomIsKept`), the ledger has every attempt up to the row's (`LedgerIsWhole`) and no token newer
than the lease's (`TokensAreIssued`). Without `OneLease` the four theorems are false: that is the
counterexample of `sched_twoleases`.

**Delegated tasks.** A handler reads in one transaction and writes in another, so the interesting additions
are about calls: a delivery's acknowledgement concerns a run that is with the scheduler, ended or replaced
(`RecordsRest`), else the acknowledgement would forget it; and a call is about rows that exist
(`CallsAreKnown`). About rows: every active run the scheduler is to execute is in the outbox or there
(`ActiveRunIsCared`, stronger than the property, which speaks of the one a task waits for); a recorded
result of the newest run is what run and task say (`ResultsStand`), which is why `complete` may look at
the run and its result only. The proof classifies the steps once (`DataKinds`, `CallKinds`: which row is
opened, decided, moved, reported) and then works with the kinds.

**The machine's task loop.** The ledger trusts messages, so the invariant is about messages: an acceptance
on its way is backed by the inbox, an outcome by the receipt (`MessagesAreSound`), and every command
mentioned anywhere is in the store (`CommandsAreKnown`). What a message says stays true (`SoundStays`)
because the machine's files only gain (`Gains`, `DiskStays`), also when the agent dies between two of them.

**Accounts.** `AdministratorRemains` is preserved by `preserveActiveAdmin` wherever it is called; the proof
is about the steps that do not call it (a new or a replaced password, a link, a sign-up, the end of an
expiring grant among them) and shows that none empties the set that is counted (`AdministratorStands`). For the tree the addition is
`ParentsAreThere`: a parent of a department exists, also when both are disabled; only then does the moved
subtree (`KeepsItsPart`, `MovedTree`: exactly the rows whose path begins with the moved one's are rewritten)
keep paths, levels and parents in agreement, however deep it is. A session rests on its grounds because each action that takes the grounds
away ends the sessions in the same transaction (`Without`), and `createAuthSession` compares the password
again (`OpenStep`; `OpensUnchecked` is the mutant without the comparison). Tickets serve once because a
served one is spent (`SpentOnUse`).

**The compositions.** `OneInstallation` and `OneDirectory` show that a behaviour of `MC_Governance` is one
of the instance its world names and stutters elsewhere, so each instance's theorem carries over
(`INSTANCE ..._proofs`). The identity of a machine has no module of proofs of its own: its invariant
(`IdentityInv`: the machine's epoch is never later than the node's) is proved there.

**The services.** Their modules have no proofs of their own; `MC_Services` holds the invariant of each proved
service (`GrantsInv`, `CallsInv`, `ProjectInv`, `AccessInv`, `RolloutInv`, `ReleaseInv`, `InstallInv`, `SeenStands`,
`TimersStand`, `SeatsStand`, `LossInv`, `GateStands`, `BeatInv`, `MeteringInv`), written over the places in which the
service keeps its variables there, and `ServicesInv` joins them; `WorldsPart` shows that a step is one of the
world's own service. The theorems are for the numbers of workers, calls and users of the instance; bounds on
generations, versions and requests play no part in the arguments. A service that appears in two worlds is an
instance with a parameter (`Access(k)`, `Skills(k)`, `Installs(k)`, `Nodes(k)`, `Usage(k)`, `Ready(k)`), and its lemmas are for
every `k` that meets what they assume of it: `LossConstants`, `MeteringConstants`, `GateConstants` and
`BeatConstants` say no more than that sets are finite, numbers are numbers and the mark of nothing is no entity,
except where the text below says so. Lemmas such as `NodesCount` and `UsageCount` say that the instances count as
the library does.
*Grants*: a key in the vault is reserved before it is used and is one exchange's (`KeysAreReserved`), the row
uses only the key of its own generation (`RowIsOfItsGeneration`), so neither the sweep nor a late exchange can
touch the token of a newer row; secrets that are presented are older than the row (`SecretsAreOlder`), hence
none twice. *Calls*: an approval is consumed by the call that carries it, and what a call has passed it
passed with that approval (`CallsAreTyped`, `CallsInv`); the probes the breaker counts are calls on their way.
*Projects*: the decisions' pointers stay within the list and agree (`ProjectInv`); a row that is gone has no
date, no member and nothing that hangs on it. *Access to skills*, for both kinds of worker at once (`Access(k)`):
while a revocation stands and means the worker, each of the statements that has been read since the beginning
has found its ground (`GroundIsRead`), so it matches when the revocations are read and marks its skill
(`SteadyIsSeen`); in the loop the chosen candidate is the best of those seen, and all of its rank agree with it
(`BestIsChosen`), in whatever order they come.
*Channels* (`RolloutInv`): a change carries the row its transaction read, which was sound when it was read
(`ChangesAreSound`), and stays so because versions stay published (`PublishedStays`); that is why the holdback
computed from an old row still names a version with bytes. *Releases of skills*, with and without restarts
(`Skills(k)`): what is being published was approved with the text it has now, since a saved version is never
written again (`SavingKeeps`); only a restart makes up pointers, hence the condition in `OnlyApproved`.
`NilIsNoRow` says that the mark of a missing row is no row. *Installations*, of the provisioner and of the
runtime (`Installs(k)`): each step of the provisioner has on the disk what the steps before it have put there, as
long as nobody else touched the disk in its round (`JobIsOnDisk`), and a verified request still finds a whole
payload under the same condition (`VerifiedStands`). *Sources*: while nothing was removed, an editor who sees the
version he has read sees its text (`SeenStands`). *Groups of requests*: the timer of a group in the table is
armed with exactly the rest of its window, or has gone off at its end (`TimerRuns`), and the callback of a group
that has left finds another one in its place. That bounds how long a request is held (`HeldIsBounded`). For the
seats (`SeatsStand`) one must add that groups not yet opened are empty and that nobody waits in one: only then does
a new group start with its opener alone, and one who leaves late, when his group has gone, takes nobody's seat.
*Loss of nodes* (`LossInv`, for both worlds): what an observer remembers of a node is what it saw, or nothing, since
a failed read forgets it (`WatchStands`), so that what it judges has been missing for the grace. Threads
(`ThreadsStand`): what is replaced has failed and is replaced once, the unique index of the table; hence a line of
heirs is one, and of its members only the last can be alive (`OneHeirLives`). Reports in flight (`NoticesStand`): the
row lock of `ReportNodeLoss` keeps two observers from the same node, and until one of them commits its threads are
alive on that node, so that nobody else fails them. Numbers (`NumbersStand`): the sequence numbers of all reports
and notices differ, which needs that a report draws as many as it has threads.
*The gate* (`GateStands`): while a query runs and has found every service serving, they have been out for no longer
than the query runs; what a reader keeps was so at most a query's time before. Hence `GateFailsClosed` for any times,
number of readers and behaviour of the publishers. *Reports of readiness* (`BeatInv`): a report is no older than the
intervals of its failed successors and the time since the last attempt began, so three failures are borne if four
intervals and the time of one attempt fit into the age that counts (`BeatConstants`; the code's defaults of 10, 5 and 45 seconds,
`heartbeat.go:111`, just meet it), and the pruning of old rows, which waits longer, cannot drop it.
*Budgets and the ledger* (`MeteringInv`, with and without crashes): a tree may be overrun by the calls on their way and
no more (`CallsStand`): with `p` the most that ever were on their way and `n` those now, it is at least the floor less
`p - n` times the most a call uses, because a call is let in only while its tree is above it. The books balance although the sum is a
recursive function, because the proof never unfolds it: whatever satisfies its equation is what the trees have lost
(`SumsStand`), and one step lengthens the outbox by one row and the sum by one call (`SummedIs`). Nothing vanishes:
what a batch has sent, and what is marked as published, is with the broker, in the ledger or given up (`DrawnStand`),
which is why marking may follow sending and not the other way round; rows are written for charged calls, one each
(`MessagesStand`), and a message that is delivered again finds its row.

*Only model-checked.* Liveness is out of the prover's reach: `EveryCallReturns`, `NoTurnForEver`,
`WaitingWorkIsPlaced`, `EverythingEnds`. Three properties of the run `services` have no theorem. `FlowsHold` speaks
also of `CronCursors`, `CronCalendar` and `FlowGraph`, whose definitions search calendars and graphs: what they
compute for every input is an induction over data, which the provers cannot do. `DocumentsHold` and `WorkIsKept`
join services of session logs, jobs, mailboxes and migration, none of which has an inductive invariant
written down yet; they are checked on small instances only.

## Where code and comments disagree

Four runs expect a violation:

1. **Two scopes of lease do not exclude each other** (`sched_twoleases`;
   `scheduler/internal/store/store.go:400-406`). A placement under the global lease and one under a
   cluster's lock different rows and both take the last slot. The same new task can even be placed twice
   as its first attempt, by an upsert that meets a row it did not see.
2. **Two holders of a document lose acknowledged edits** (`docs_twoholders`;
   `collaborator/internal/store/store.go:346`). After an ownership move the old holder's snapshot replaces
   the new holder's, whose edits were trimmed from the log.
3. **An edit and two replicas fire an occurrence twice** (`cron_replicas`;
   `flows/internal/store/schedule.go:150`). A replica that listed the automations before an edit sets up a
   cursor with the earlier instant at which its cycle began, over one that has moved on or was deleted since.
   `schedule.go:16` says that firing is exactly once and needs no claim.
4. **A restart releases drafts** (`skills_released`; `governance/internal/store/store.go:254`). The
   schema's upgrade publishes the current version of every skill never published, at every start.

Found while modelling, without a run (the number of runs is kept small). Where a module states the broken
promise as a definition, it is named; the definition can be put into a `.cfg` to see the trace.

*Session control*
- An attempt whose grant crosses its time-out is answered a plain error, not busy, and leaves no audit row
  (`queue.go:258`, `control.go:265`). The wait in `BusyError` is computed from the clock reading of the
  arrival (`queue.go:271`) and is always zero.
- `Release` is keyed by the caller's correlation id (`queue.go:292`): with a repeated id an evicted holder
  releases its successor's turn. The comment at line 176 assumes distinct ids; so do the runs.
- A refusal of a session that has no row is answered `registered = true` (`control.go:345`). No command
  leads to `awaiting-approval`. A request repeated by its client is a new request.
- Audit ids are drawn before the commit, so the cursor of `Timeline` (`store.go:536`) can pass an id that
  becomes visible later; the notices of node losses have the same cursor (`NodeLoss!NoNoticeIsSkipped`).

*Scheduler*
- A drain round places a task cancelled after it was listed (`main.go:382`,
  `Scheduler!DrainPlacesWaiting`), and may start with a nil lease (`main.go:201`).
- A drain round reads the first 32 waiting tasks by deadline, priority and age (`main.go:345`, `store.go:891`), orders
  only those fairly (`planner.go:192`: "to prevent a hot tenant queue from starving other queues") and leaves those
  that no node may run where they are ("Other employees/Agents can still have eligible idle devices", `main.go:376`). As
  many of them at the head keep everything behind them from ever being read, beside a free slot:
  `Scheduler!NobodyStarves` fails in the instance of `Scheduler_live.cfg` with `Deadline <- RunnableLast`.
- A cancel that read a task without an active attempt marks the attempt placed since `CANCELLING` without a
  call to its node (`server.go:445`).
- `Reconcile` takes a migrated `PENDING` task back, revives an ended attempt that was queued again, and
  writes the ledger's entry unconditionally (`store.go:1227`, `Migration!EndedAttemptsStayEnded`). After a
  migration the row's cluster is empty and it cannot be migrated again; a repeated request overwrites the
  clusters to avoid. Dead-lettering leaves unclaimed dispatches that may be claimed later.
- The orderly stop gives back the global lease only; a cluster's runs out by itself.

*Node loss*
- A thread created on a node already reported, before the next reading, keeps the reporter's mark; a report
  under way when the node returns fails threads created since.

*Governance*
- A child counted as accepted may be `DONE` without having been accepted (`store.go:2345`,
  `Delegation!DoneChildrenWereAccepted`). Only one level of children is looked at.
- A cancel never reaches a device task that runs; a pending stop that expired is never swept, and its unique
  index blocks another. A run whose command was interrupted is handed over again only while `session_ref`
  is empty, which the first hand-over sets (`devices.go:606`, `DeviceTasks!ReopenedIsHandedOver`). A run of
  a later attempt is never handed to a device. A connection lost between acceptance and result leaves a run
  `RUNNING`. Results of devices do not end the scheduler's row.
- A status set by `updateDelegationStatus` and then a retry leave two active runs; `mirrorExecutionState`
  applies the answer for one run to the latest.
- `task_collaboration.go:20-72` and `ListDelegationTasks` (`store.go:1944`) read a column
  `parent_task_id` that no schema creates.
- `RotateDeviceCertificate` leaves the node eligible without a connection.
- Two enrolments of a second factor race; a passkey's counter is reset by an observed 0; a password changed
  against one verified before an administrator's reset overwrites the reset (`auth.go:707`); parallel logins
  can pass the lock before their failures are recorded; the first user's department is inserted unchecked
  (`EnsureBootstrapAuthUser`).
- Conflicts of skill versions below the highest priority are an error or not depending on the order of rows
  (`ResolveEffectiveSkills`); a revocation can be missed when it moves, or is committed, between two of the
  resolution's statements; `LIKE path||'%'` takes `_` and `%` in ids for wildcards.

*Flows*
- A stale cycle's delete drops a cursor made since, and what falls between its deletion and the next cycle is not
  fired (`DeleteCronCursors`).
- The second statement of `Transition` and `Target` is unguarded: a deprecated flow comes back
  (`FlowLifecycle!DeprecatedIsFinal`). Changes approved write no lineage
  (`FlowLifecycle!VersionsHaveLineage`); the first review has no check of the revision.
- Duplicate edges change the shape of a node's input. The latest missed occurrence is exact up to
  `maxCatchUpSteps`; the package comment promises of `time.Date` what Go does not (`CronCalendar` checks both
  choices).

*Documents, knowledge, session logs, jobs*
- An `Apply` out of order can clear the mark for the next snapshot (`hub.go:238`,
  `Documents!CleanIsSaved`); a document opened with a tail of the log is not marked. A trim that takes effect
  but reports an error loses edits within one instance (`RepliesLost`). Subscriptions are keyed by user.
- A stalled report may fire twice with two replicas (`dispatcher.go:222`). Versions of a source restart
  after its removal, so an editor or a rebuild that read the removed one overwrites the new one; a stale
  redelivery makes a removed source again.
- A backfill that finds the lease taken is left out, and the event behind it may be written alone
  (`SessionLog!LogHasNoGap`); one that meets a fork is given up without fencing. A renewal answered after the
  session's disposal makes the node stop for the next time (`SessionLog!StoppedHasReason`), and may take the
  released lease again. A failed `acquire` rejects the promise chain: later events are skipped until a
  backfill, and the release is skipped (`index.ts:269`).
- A confirmation, and the outcome of a failed attempt, stay in the journal's row while the call is repeated,
  so an attempt lost after them is repeated unasked (`ToolJournal!LostNeedsConsent`).
- A record of a job's beginning that commits late overwrites its end (`JobControl!EndedStays`); of two racing
  first records the loser fails. After a restart of the node rows stay running.
- An update that read the clock in time and commits after the expiry settles a future whose waiter was told
  that it has expired (`pg-mailbox.ts:132`, `Mailbox!ExpiredStays`); the comment at `pg-mailbox.ts:131` says
  that this would be a second execution. A future created between the two statements of a settlement is
  reported as already settled, in state pending (`:140`, `Mailbox!AlreadySettledHasEnded`), and the value is
  lost. A caller whose own patience ends is told `expired`, too.
- An agent takes a step in a session whose abortion the poll has acted upon (`actuation.ts:185`,
  `Actuation!AbortedTakesNoStep`): the step passes, and the cancel was sent; its tools are refused. A session
  that is paused and resumed between two readings of the poll, or while a hook holds the claimed message,
  leaves it in the queue until the next one comes (`Actuation!PutBackIsWoken`). Rounds that overlap may cancel
  twice (`Actuation!CancelledOnce`, with two rounds).

*Connectors, projects, usage*
- An approval is consumed for one version of a manifest and the call executed with another
  (`server.go:315`, `Invocations!ApprovedAsCalled`). The breaker's `finish` is not deferred.
- Owners who leave at the same time orphan the project (`Projects!OwnerRemains`). `Transition` reports
  success for a project that was deleted. A consolidation iterates a map under caps, so two reports may
  differ (`consolidation.go:158` against `:217`).
- Usage seen in a stream is not charged when the client has gone (`gateway.go:159`,
  `Metering!SeenUsageIsCharged`). `Coalescer.Close` leaves held waiters to their own deadlines. One row that
  cannot be sent blocks its publisher's batch.

*Releases and installations*
- Two first changes of a channel at once lose the replaced version (`Rollouts!ReplacedIsCaptured`). A partial
  rollout retargeted before it was complete moves its holdback to the version never completed.
- A start that races an uninstall leaves a process of a removed artifact (`Installs!RunningIsInstalled`). An
  uninstall that races an installation can make the provisioner report what is gone, until its next round. A
  late report of a node may overwrite a newer one.
- A report of readiness that was given up may land after the service's last one and misstate it until the
  next.

## Not modelled

Of the modelled services: HTTP decoding and authentication, the policy's own rules (its answer is any),
metrics, reads (`Timeline`, snapshots), schema set-up (but for the upgrade of skills, which is a step of
`SkillReleases`), records of action releases; of the scheduler catalogue snapshots, saving and recovery of
governed runs and the book-keeping of deliveries; of governance break-glass (its package is not used),
agents' profiles, proficiency and the ranking of candidates; of flows what handlers of nodes do; of the
connector gateway rate limits and the audit writer; of session logs the layers they are archived to and a
session resumed on a node that still drains it; of the registry resolution of dependencies and bundles.

Whole parts that are not modelled, with the reason in `PROJECT.json`: they forward, present or package
(gateways, hosts and proxies of seams, user interfaces, deployment), consist of single atomic statements
(rate limits, storage), or come later (teams, child runs).

## Plan

Written so far: the three core components with their abstract specifications, and a module for each service
whose protocols cross a statement, a process or a failure. Left, in this order:

1. **Proofs.** Of what is left of the run `services`, in the way of `NodeLossStands`: an invariant per service as a part of
   `ServicesInv`. `WorkIsKept` comes first (the lease of the session log is its hardest part), then the journal and the
   session log, which are part of `DocumentsHold` and can be proved as lemmas. `FlowsHold` contains worlds about calendars
   and graphs and stays with TLC. `MC_Services` is at the size where its proofs take about twenty minutes; a further
   service's should get a module of its own.
2. **Models.** Teams; child runs and their callbacks; several sessions and the classifier of the actuation.
