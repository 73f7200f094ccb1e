------------------------------ MODULE Scheduler ------------------------------
(***************************************************************************)
(* The placement core of the scheduler (platform/control-plane/scheduler): *)
(* several instances over one PostgreSQL database.  An instance holds the  *)
(* global leadership lease, or, when it does not, may place the tasks of   *)
(* its own cluster under that cluster's lease.  HTTP calls place, queue,   *)
(* preempt and cancel tasks; each instance's drain loop places what waits; *)
(* nodes take governed runs and report the end of attempts.                *)
(*                                                                         *)
(* A transaction that holds row locks across statements is several steps   *)
(* here: between the fencing check and the commit of PlaceTask the lease   *)
(* row is locked, and from the moment it is read so is the task's row,     *)
(* when there is one.  Locks are read off the workers' program counters.   *)
(***************************************************************************)
EXTENDS Naturals, Sequences, FiniteSets, TLC

CONSTANTS
  Instance,     \* the scheduler processes
  Cluster,      \* the clusters
  ClusterOf,    \* [Instance -> Cluster \cup {NoCluster}]: the -cluster-id flag
  Node,         \* the execution nodes of the directory
  NodeCluster,  \* [Node -> Cluster \cup {NoCluster}]
  Capacity,     \* [Node -> Nat \ {0}]: slots of a node
  Task,         \* the task identities
  Binding,      \* [Task -> Cluster \cup {NoCluster}]: the task's cluster_id
  Priority,     \* [Task -> Nat]
  Deadline,     \* [Task -> Nat]: deadline_ms, 0 for none
  Waiting,      \* the tasks that were queued before these processes started
  Batch,        \* how many waiting tasks a drain round reads (32 in main.go)
  Governed,     \* the tasks that carry a worker_id: one identity per business run
  Cancellable,  \* the tasks a user may ask to cancel
  Finals,       \* the final states that nodes report
  Request,      \* HTTP calls being served at the same time
  MaxCalls,     \* bound: placement and cancel calls in a behaviour
  MaxFaults,    \* bound: leases that expire, processes that stop
  Global, NoCluster, NoInstance, NoNode, NoTask

Active == {"PLACED", "RUNNING", "CANCELLING"}
Terminal == {"COMPLETED", "FAILED", "ABORTED"}
StopKinds == {"CANCEL", "PREEMPT"}
Scope == {Global} \cup Cluster
Worker == Request \cup Instance

ASSUME SchedulerAssumption ==
  /\ ClusterOf \in [Instance -> Cluster \cup {NoCluster}]
  /\ NodeCluster \in [Node -> Cluster \cup {NoCluster}]
  /\ Binding \in [Task -> Cluster \cup {NoCluster}]
  /\ Capacity \in [Node -> Nat \ {0}]
  /\ Priority \in [Task -> Nat] /\ Deadline \in [Task -> Nat]
  /\ Batch \in Nat \ {0}
  /\ Waiting \subseteq Task
  /\ Governed \subseteq Task /\ Cancellable \subseteq Task
  /\ Finals \subseteq Terminal
  /\ Request \cap Instance = {}
  /\ MaxCalls \in Nat /\ MaxFaults \in Nat
  /\ Global \notin Cluster /\ NoCluster \notin Cluster \cup {Global}
  /\ NoInstance \notin Instance /\ NoNode \notin Node /\ NoTask \notin Task

VARIABLES
  lease,    \* the lease tables: [Scope -> [holder, token, live]]
  held,     \* each process's election.State: the token it believes it holds, 0 for none
  row,      \* scheduler_tasks
  ledger,   \* scheduler_task_attempts: [Task -> [attempts -> record]]
  outbox,   \* scheduler_dispatch_outbox: [Task -> Seq([attempt, node])]
  taken,    \* lumo_governed_executions: the attempt a node took, 0 for none
  cmd,      \* scheduler_control_commands: [Task -> [StopKinds -> record]]
  stopped,  \* history: <<task, node>> that a node was told to stop
  job,      \* what each HTTP call and each drain loop is doing
  calls, faults

tables == <<row, ledger, outbox, taken>>
commands == <<cmd, stopped>>
vars == <<lease, held, tables, commands, job, calls, faults>>

NoRow == [state |-> "NONE", attempt |-> 0, node |-> NoNode, token |-> 0]
NoCommand == [attempt |-> 0, node |-> NoNode, status |-> "NONE"]
Idle == [pc |-> "idle", inst |-> NoInstance, task |-> NoTask, scope |-> Global, token |-> 0,
         node |-> NoNode, attempt |-> 0, locked |-> FALSE, kind |-> "CANCEL",
         room |-> [n \in Node |-> 0], todo |-> {}]

\* The token of the leadership, ended since, under which the tasks that wait already were queued.
Former == IF Waiting = {} THEN 0 ELSE 1

Init ==
  /\ lease = [s \in Scope |-> [holder |-> NoInstance, token |-> Former, live |-> FALSE]]
  /\ held = [i \in Instance |-> [s \in Scope |-> 0]]
  /\ row = [t \in Task |-> IF t \in Waiting THEN [NoRow EXCEPT !.state = "PENDING", !.token = Former]
                           ELSE NoRow]
  /\ ledger = [t \in Task |-> <<>>]
  /\ outbox = [t \in Task |-> <<>>]
  /\ taken = [t \in Task |-> 0]
  /\ cmd = [t \in Task |-> [k \in StopKinds |-> NoCommand]]
  /\ stopped = {}
  /\ job = [w \in Worker |-> Idle]
  /\ calls = 0 /\ faults = 0

-----------------------------------------------------------------------------
(* Locks and reads.                                                        *)

\* Mutant: the row is read without FOR UPDATE.
NeverLocked(s) == FALSE

\* The row of the lease is locked from the fencing check to the commit.
LeaseLocked(s) == \E w \in Worker : job[w].pc \in {"inspect", "gate", "write"} /\ job[w].scope = s
TaskLocked(t) == \E w \in Worker : job[w].locked /\ job[w].task = t
Used(n) == Cardinality({t \in Task : row[t].node = n /\ row[t].state \in Active})
\* Mutant: the last slot is never given.
RoomButOne(n) == Used(n) + 1 < Capacity[n]
Room(n) == Used(n) < Capacity[n]
Eligible(t) == {n \in Node : Binding[t] \in {NoCluster, NodeCluster[n]}}
\* Mutant: an ended governed run may start again.
ActiveOnly(t) == row[t].state \in Active

\* An active task, or a governed one that ended, is answered as it stands.
Standing(t) == row[t].state \in Active \/ (t \in Governed /\ row[t].state \in Terminal)
Put(f, k, v) == [x \in DOMAIN f \cup {k} |-> IF x = k THEN v ELSE f[x]]

-----------------------------------------------------------------------------
(* Election.  A renewal keeps the token, a takeover takes the next one.    *)

ScopesOf(i) == {Global} \cup ({ClusterOf[i]} \ {NoCluster})

\* expires_at is compared with the start of the transaction, so a check may pass on a lease that
\* expired while it waited for the lock.  Nothing else happened to the lease then, or the holder
\* or the token would differ: the same behaviour has Expire after the check.
Expire(s) ==
  /\ faults < MaxFaults /\ lease[s].live
  /\ lease' = [lease EXCEPT ![s].live = FALSE]
  /\ faults' = faults + 1
  /\ UNCHANGED <<held, tables, commands, job, calls>>

Obtainable(i, s) == s \in ScopesOf(i) /\ ~LeaseLocked(s) /\ (lease[s].holder = i \/ ~lease[s].live)
Obtained(i, s) ==
  [holder |-> i, token |-> IF lease[s].holder = i THEN lease[s].token ELSE lease[s].token + 1, live |-> TRUE]

Acquire(i, s) ==
  /\ Obtainable(i, s)
  /\ lease' = [lease EXCEPT ![s] = Obtained(i, s)]
  /\ held' = [held EXCEPT ![i][s] = Obtained(i, s).token]
  /\ UNCHANGED <<tables, commands, job, calls, faults>>

\* The answer is lost, or has not arrived yet: the process keeps what it believed.
AcquireUnseen(i, s) ==
  /\ Obtainable(i, s)
  /\ lease' = [lease EXCEPT ![s] = Obtained(i, s)]
  /\ UNCHANGED <<held, tables, commands, job, calls, faults>>

NotAcquired(i, s) ==
  /\ s \in ScopesOf(i) /\ ~LeaseLocked(s)
  /\ lease[s].live /\ lease[s].holder # i
  /\ held' = [held EXCEPT ![i][s] = 0]
  /\ UNCHANGED <<lease, tables, commands, job, calls, faults>>

\* A process dies: its open transactions roll back, its calls are gone.
Gone(i) ==
  /\ held' = [held EXCEPT ![i] = [s \in Scope |-> 0]]
  /\ job' = [w \in Worker |-> IF job[w].inst = i THEN Idle ELSE job[w]]
  /\ UNCHANGED <<tables, commands, calls>>

Crash(i) ==
  /\ faults < MaxFaults
  /\ faults' = faults + 1
  /\ Gone(i)
  /\ UNCHANGED lease

\* The orderly stop gives back the global lease; no line gives back the cluster's.
Shutdown(i) ==
  /\ faults < MaxFaults /\ ~LeaseLocked(Global)
  /\ faults' = faults + 1
  /\ lease' = [lease EXCEPT ![Global].live = @ /\ lease[Global].holder # i]
  /\ Gone(i)

-----------------------------------------------------------------------------
(* POST /v1/placements up to the transaction.                              *)

\* The lease an instance decides under: the global one if it believes it leads, else its
\* cluster's, for the tasks bound to that cluster; none otherwise (the call is refused).
DecidesUnder(i, t) ==
  IF held[i][Global] # 0 THEN {Global}
  ELSE {c \in Cluster : ClusterOf[i] = c /\ Binding[t] = c /\ held[i][c] # 0}

Step(w, j) == job' = [job EXCEPT ![w] = j]

Receive(r, i, t, s) ==
  /\ job[r].pc = "idle" /\ calls < MaxCalls
  /\ ~Standing(t) /\ s \in DecidesUnder(i, t)
  /\ calls' = calls + 1
  /\ Step(r, [Idle EXCEPT !.pc = "plan", !.inst = i, !.task = t, !.scope = s, !.token = held[i][s]])
  /\ UNCHANGED <<lease, held, tables, commands, faults>>

Plan(r) ==
  LET free == {n \in Eligible(job[r].task) : Room(n)} IN
  /\ job[r].pc = "plan"
  /\ \/ \E n \in free : Step(r, [job[r] EXCEPT !.pc = "fence", !.node = n])
     \/ free = {} /\ Step(r, [job[r] EXCEPT !.pc = "queue"])
  /\ UNCHANGED <<lease, held, tables, commands, calls, faults>>

-----------------------------------------------------------------------------
(* PlaceTask: one transaction, its statements in their order.              *)

\* Mutants: that some lease is live is enough; every job is checked against the global lease.
HoldsWhileLive(j) == lease[j.scope].live
HoldsGlobally(j) == lease[Global].live /\ lease[Global].holder = j.inst /\ lease[Global].token = j.token

\* checkFencing: the lease the job was decided under, by its scope.
Holds(j) ==
  /\ lease[j.scope].live
  /\ lease[j.scope].holder = j.inst /\ lease[j.scope].token = j.token

\* Mutant: a round gives a slot back where it should count one as used.
LeftGivingBack(w, placed) ==
  IF w \in Request \/ job[w].todo = {} THEN Idle
  ELSE [job[w] EXCEPT !.pc = "round", !.task = NoTask, !.node = NoNode, !.attempt = 0, !.locked = FALSE,
                      !.room = IF placed THEN [@ EXCEPT ![job[w].node] = @ - 1] ELSE @]

\* A call ends with the transaction.  A drain round goes on with the tasks it has left,
\* and counts a slot of the node as used when PlaceTask returned without an error.
Left(w, placed) ==
  LET j == job[w]
      used == IF placed THEN [j.room EXCEPT ![j.node] = @ + 1] ELSE j.room
  IN  IF w \in Request \/ j.todo = {} THEN Idle
      ELSE [j EXCEPT !.pc = "round", !.task = NoTask, !.node = NoNode, !.attempt = 0, !.locked = FALSE,
                     !.room = used]

Fence(w) ==
  /\ job[w].pc = "fence" /\ job[w].token # 0 /\ ~LeaseLocked(job[w].scope)
  /\ Step(w, IF Holds(job[w]) THEN [job[w] EXCEPT !.pc = "inspect"] ELSE Left(w, FALSE))
  /\ UNCHANGED <<lease, held, tables, commands, calls, faults>>

\* A drain round that was handed a nil lease dereferences it: the process dies.
Panic(i) ==
  /\ job[i].pc = "fence" /\ job[i].token = 0
  /\ Gone(i)
  /\ UNCHANGED <<lease, faults>>

\* SELECT ... FOR UPDATE locks the task's row, if there is one.
Inspect(w) ==
  LET t == job[w].task IN
  /\ job[w].pc = "inspect" /\ ~TaskLocked(t)
  /\ Step(w, IF Standing(t) THEN Left(w, TRUE)
             ELSE [job[w] EXCEPT !.pc = "gate", !.attempt = row[t].attempt + 1, !.locked = row[t].state # "NONE"])
  /\ UNCHANGED <<lease, held, tables, commands, calls, faults>>

Gate(w) ==
  /\ job[w].pc = "gate"
  /\ Step(w, IF Room(job[w].node) THEN [job[w] EXCEPT !.pc = "write"]
             ELSE IF w \in Request
             THEN [job[w] EXCEPT !.pc = "queue", !.node = NoNode, !.attempt = 0, !.locked = FALSE]
             ELSE Left(w, FALSE))
  /\ UNCHANGED <<lease, held, tables, commands, calls, faults>>

\* The upserts and the dispatch, then the commit.  An insert that meets a row takes it over.
Write(w) ==
  LET j == job[w]  t == job[w].task
      placed == [state |-> "PLACED", node |-> j.node, token |-> j.token] IN
  /\ j.pc = "write" /\ (j.locked \/ ~TaskLocked(t))
  /\ row' = [row EXCEPT ![t] = [state |-> "PLACED", attempt |-> j.attempt, node |-> j.node, token |-> j.token]]
  /\ ledger' = [ledger EXCEPT ![t] = Put(@, j.attempt, placed)]
  /\ outbox' = [outbox EXCEPT ![t] = Append(@, [attempt |-> j.attempt, node |-> j.node])]
  /\ Step(w, Left(w, TRUE))
  /\ UNCHANGED <<lease, held, taken, commands, calls, faults>>

Place(w) == Fence(w) \/ Inspect(w) \/ Gate(w) \/ Write(w)

-----------------------------------------------------------------------------
(* QueueTask, one transaction, and the preemption its call may try next.   *)

Queued(t, token) ==
  CASE row[t].state = "NONE" -> [row[t] EXCEPT !.state = "PENDING", !.token = token]
    [] row[t].state \in Terminal /\ t \notin Governed -> [row[t] EXCEPT !.state = "PENDING", !.node = NoNode]
    [] OTHER -> row[t]

Queue(r) ==
  LET t == job[r].task  queued == Queued(job[r].task, job[r].token) IN
  /\ job[r].pc = "queue" /\ ~LeaseLocked(job[r].scope) /\ ~TaskLocked(t)
  /\ IF Holds(job[r])
     THEN /\ row' = [row EXCEPT ![t] = queued]
          /\ Step(r, IF queued.state = "PENDING" THEN [job[r] EXCEPT !.pc = "victim"] ELSE Idle)
     ELSE Step(r, Idle) /\ UNCHANGED row
  /\ UNCHANGED <<lease, held, ledger, outbox, taken, commands, calls, faults>>

\* Lower-priority tasks on full nodes that could run t, with no stop already in flight.
Victims(t) ==
  {v \in Task :
    /\ row[v].state \in {"PLACED", "RUNNING"} /\ Priority[v] < Priority[t]
    /\ row[v].node \in Eligible(t) /\ ~Room(row[v].node)
    /\ \A k \in StopKinds : cmd[v][k].attempt = row[v].attempt => cmd[v][k].status = "FAILED"}

FindVictim(r) ==
  LET victims == Victims(job[r].task) IN
  /\ job[r].pc = "victim"
  /\ \/ \E v \in victims :
          /\ \A u \in victims : Priority[v] <= Priority[u]
          /\ Step(r, [Idle EXCEPT !.pc = "intent", !.inst = job[r].inst, !.task = v, !.kind = "PREEMPT",
                                  !.node = row[v].node, !.attempt = row[v].attempt])
     \/ victims = {} /\ Step(r, Idle)
  /\ UNCHANGED <<lease, held, tables, commands, calls, faults>>

-----------------------------------------------------------------------------
(* The stop protocol, for a cancel (attempt 0: whichever is current) and   *)
(* for a preemption: intent, call to the node, confirmation.               *)

Cancel(r, i, t) ==
  /\ job[r].pc = "idle" /\ calls < MaxCalls
  /\ t \in Cancellable /\ row[t].state # "NONE"
  /\ calls' = calls + 1
  /\ Step(r, [Idle EXCEPT !.pc = "intent", !.inst = i, !.task = t, !.kind = "CANCEL",
              !.node = IF row[t].state \in {"PLACED", "RUNNING"} THEN row[t].node ELSE NoNode])
  /\ UNCHANGED <<lease, held, tables, commands, faults>>

\* Mutant: a new intent always reopens the command.
CommandReopened(t, k) == [attempt |-> row[t].attempt, node |-> row[t].node, status |-> "REQUESTED"]

\* The command row as the upsert leaves it: an acknowledgement for this attempt is kept.
Command(t, k) ==
  [attempt |-> row[t].attempt, node |-> row[t].node,
   status |-> IF cmd[t][k].status = "ACKNOWLEDGED" /\ cmd[t][k].attempt = row[t].attempt
              THEN "ACKNOWLEDGED" ELSE "REQUESTED"]

RecordIntent(r) ==
  LET j == job[r]  t == job[r].task IN
  /\ j.pc = "intent"
  /\ IF j.kind = "PREEMPT" /\ ~(row[t].state \in {"PLACED", "RUNNING"} /\ row[t].attempt = j.attempt)
     THEN Step(r, Idle) /\ UNCHANGED cmd
     ELSE /\ cmd' = [cmd EXCEPT ![t][j.kind] = Command(t, j.kind)]
          /\ Step(r, [j EXCEPT !.pc = IF j.node = NoNode THEN "confirm" ELSE "stop"])
  /\ UNCHANGED <<lease, held, tables, stopped, calls, faults>>

\* The node is told the task, not the attempt, and agrees.
StopAcked(r) ==
  /\ job[r].pc = "stop"
  /\ stopped' = stopped \cup {<<job[r].task, job[r].node>>}
  /\ Step(r, [job[r] EXCEPT !.pc = "confirm"])
  /\ UNCHANGED <<lease, held, tables, cmd, calls, faults>>

\* The node is not in the directory, is not reached, refuses, or its answer is lost.
StopFailed(r) ==
  LET j == job[r] IN
  /\ j.pc = "stop"
  /\ stopped' \in {stopped, stopped \cup {<<j.task, j.node>>}}
  /\ cmd' = [cmd EXCEPT ![j.task][j.kind].status = IF @ = "ACKNOWLEDGED" THEN @ ELSE "FAILED"]
  /\ Step(r, Idle)
  /\ UNCHANGED <<lease, held, tables, calls, faults>>

\* Mutant: active work is declared aborted at once.
StoppingAtOnce(state) == IF state \in Terminal THEN state ELSE "ABORTED"

\* Waiting work ends at once; active work stays CANCELLING until its node reports.
Stopping(state) ==
  CASE state = "PENDING" -> "ABORTED"
    [] state \in {"PLACED", "RUNNING"} -> "CANCELLING"
    [] OTHER -> state

\* requestStop: rolled back when no command was recorded for the attempt it finds.
Confirm(r) ==
  LET j == job[r]  t == job[r].task  next == Stopping(row[job[r].task].state) IN
  /\ j.pc = "confirm" /\ ~TaskLocked(t)
  /\ IF j.attempt \in {0, row[t].attempt} /\ cmd[t][j.kind].attempt = row[t].attempt
     THEN /\ row' = [row EXCEPT ![t].state = next]
          /\ ledger' = IF next = "CANCELLING" /\ row[t].state # next
                       THEN [ledger EXCEPT ![t][row[t].attempt].state = next] ELSE ledger
          /\ cmd' = [cmd EXCEPT ![t][j.kind].status = "ACKNOWLEDGED"]
     ELSE UNCHANGED <<row, ledger, cmd>>
  /\ Step(r, Idle)
  /\ UNCHANGED <<lease, held, outbox, taken, stopped, calls, faults>>

Stop(r) == RecordIntent(r) \/ StopAcked(r) \/ StopFailed(r) \/ Confirm(r)

-----------------------------------------------------------------------------
(* The drain loop of an instance.  A round reads the first waiting tasks   *)
(* by deadline, priority and age; the order in which it takes those it has *)
(* read (deadlines again, fair queueing) is left open.                     *)

\* Tasks with a deadline come before those without, then priority decides.
Before(t, u) ==
  IF Deadline[t] # Deadline[u]
  THEN Deadline[t] # 0 /\ (Deadline[u] = 0 \/ Deadline[t] < Deadline[u])
  ELSE Priority[t] > Priority[u]

Pending == {t \in Task : row[t].state = "PENDING"}

\* Batch of the waiting tasks, or all there are.
Batches == {batch \in SUBSET Pending :
              Cardinality(batch) = Batch \/ (batch = Pending /\ Cardinality(Pending) < Batch)}

\* Mutant: the query has no ORDER BY.
PendingTasksUnordered == Batches

\* What the query may return: none is left out that comes before one of those read.  created_at, which
\* orders equals, is left open.
PendingTasks == {batch \in Batches : \A t \in Pending \ batch : ~\E u \in batch : Before(t, u)}

DrainTick(i) ==
  /\ job[i].pc = "idle" /\ held[i][Global] # 0
  /\ Step(i, [Idle EXCEPT !.pc = "tick", !.inst = i])
  /\ UNCHANGED <<lease, held, tables, commands, calls, faults>>

\* The leadership is read again for the round, and may be gone by now.
DrainList(i) ==
  /\ job[i].pc = "tick"
  /\ \E batch \in PendingTasks :
       Step(i, IF batch = {} THEN Idle
               ELSE [job[i] EXCEPT !.pc = "round", !.token = held[i][Global], !.todo = batch,
                                   !.room = [n \in Node |-> Used(n)]])
  /\ UNCHANGED <<lease, held, tables, commands, calls, faults>>

DrainPick(i, t) ==
  LET free == {n \in Eligible(t) : job[i].room[n] < Capacity[n]}
      rest == [job[i] EXCEPT !.todo = @ \ {t}] IN
  /\ job[i].pc = "round" /\ t \in job[i].todo
  /\ \/ \E n \in free : Step(i, [rest EXCEPT !.pc = "fence", !.task = t, !.node = n])
     \/ free = {} /\ Step(i, IF rest.todo = {} THEN Idle ELSE rest)
  /\ UNCHANGED <<lease, held, tables, commands, calls, faults>>

Drain(i) == DrainTick(i) \/ DrainList(i) \/ Panic(i) \/ \E t \in Task : DrainPick(i, t)

-----------------------------------------------------------------------------
(* The nodes.                                                              *)

\* Mutant: the report ends the task and leaves its attempt open in the ledger.
ReportTaskOnly(t, a, final) ==
  /\ t \notin Governed
  /\ a = 0 \/ \E k \in DOMAIN outbox[t] : outbox[t][k].attempt = a
  /\ ~TaskLocked(t) /\ row[t].state \in Active
  /\ a \in {0, row[t].attempt}
  /\ row' = [row EXCEPT ![t].state = final]
  /\ UNCHANGED <<lease, held, ledger, outbox, taken, commands, job, calls, faults>>

\* POST /v1/tasks/{id}/result: the node of an attempt reports its end (0: whichever attempt is
\* current).  The report of an attempt that is no longer the current one changes nothing.
Report(t, a, final) ==
  /\ t \notin Governed
  /\ a = 0 \/ \E k \in DOMAIN outbox[t] : outbox[t][k].attempt = a
  /\ ~TaskLocked(t) /\ row[t].state \in Active
  /\ a \in {0, row[t].attempt}
  /\ row' = [row EXCEPT ![t].state = final]
  /\ ledger' = [ledger EXCEPT ![t][row[t].attempt].state = final]
  /\ UNCHANGED <<lease, held, outbox, taken, commands, job, calls, faults>>

StopAsked(t) == \E k \in StopKinds : cmd[t][k].attempt = row[t].attempt /\ cmd[t][k].node = row[t].node

\* The runtime of the node admits a governed run it was sent, once per run.
Take(t) ==
  LET state == IF row[t].state = "CANCELLING" \/ StopAsked(t) THEN "CANCELLING" ELSE "RUNNING" IN
  /\ t \in Governed /\ taken[t] = 0
  /\ ~TaskLocked(t) /\ row[t].state \in {"PLACED", "CANCELLING"}
  /\ \E k \in DOMAIN outbox[t] : outbox[t][k] = [attempt |-> row[t].attempt, node |-> row[t].node]
  /\ taken' = [taken EXCEPT ![t] = row[t].attempt]
  /\ row' = [row EXCEPT ![t].state = state]
  /\ ledger' = [ledger EXCEPT ![t][row[t].attempt].state = state]
  /\ UNCHANGED <<lease, held, outbox, commands, job, calls, faults>>

\* It settles the attempt it took, once governance has its result.
Settle(t, final) ==
  /\ taken[t] # 0 /\ taken[t] = row[t].attempt
  /\ ~TaskLocked(t) /\ row[t].state \in {"RUNNING", "CANCELLING"}
  /\ row' = [row EXCEPT ![t].state = final]
  /\ ledger' = [ledger EXCEPT ![t][taken[t]].state = final]
  /\ UNCHANGED <<lease, held, outbox, taken, commands, job, calls, faults>>

NodeStep(t) ==
  \/ Take(t)
  \/ \E final \in Finals : Settle(t, final) \/ \E a \in 0 .. Len(outbox[t]) : Report(t, a, final)

-----------------------------------------------------------------------------
Elect(i, s) == Acquire(i, s) \/ AcquireUnseen(i, s) \/ NotAcquired(i, s)

Call(r) ==
  \/ \E i \in Instance, t \in Task : Cancel(r, i, t) \/ \E s \in Scope : Receive(r, i, t, s)
  \/ Plan(r) \/ Queue(r) \/ FindVictim(r) \/ Stop(r)

Next ==
  \/ \E s \in Scope : Expire(s) \/ \E i \in Instance : Elect(i, s)
  \/ \E i \in Instance : Drain(i) \/ Crash(i) \/ Shutdown(i)
  \/ \E r \in Request : Call(r)
  \/ \E w \in Worker : Place(w)
  \/ \E t \in Task : NodeStep(t)

Spec == Init /\ [][Next]_vars

\* Processes and PostgreSQL keep working: tickers fire, a started transaction, call or round goes on,
\* an election attempt whose answer arrives is not put off for ever.
Fairness ==
  /\ \A i \in Instance : WF_vars(Drain(i) \/ Place(i))
  /\ \A i \in Instance : \A s \in ScopesOf(i) : WF_vars(Acquire(i, s) \/ NotAcquired(i, s))
  /\ \A r \in Request : WF_vars(Plan(r) \/ Queue(r) \/ FindVictim(r) \/ Stop(r) \/ Place(r))

FairSpec == Spec /\ Fairness

-----------------------------------------------------------------------------
(* Properties.                                                             *)

States == {"NONE", "PENDING"} \cup Active \cup Terminal
Entry == [state : States, node : Node, token : Nat]
Job == [pc : {"idle", "plan", "fence", "inspect", "gate", "write", "queue", "victim", "intent", "stop",
              "confirm", "tick", "round"},
        inst : Instance \cup {NoInstance}, task : Task \cup {NoTask}, scope : Scope, token : Nat,
        node : Node \cup {NoNode}, attempt : Nat, locked : BOOLEAN, kind : StopKinds,
        room : [Node -> Nat], todo : SUBSET Task]

\* Every table and every process variable has its type (the DDL of store.go, election.State).
TypeOK ==
  /\ lease \in [Scope -> [holder : Instance \cup {NoInstance}, token : Nat, live : BOOLEAN]]
  /\ held \in [Instance -> [Scope -> Nat]]
  /\ row \in [Task -> [state : States, attempt : Nat, node : Node \cup {NoNode}, token : Nat]]
  /\ \A t \in Task : \A a \in DOMAIN ledger[t] : a \in Nat /\ ledger[t][a] \in Entry
  /\ outbox \in [Task -> Seq([attempt : Nat, node : Node])]
  /\ taken \in [Task -> Nat]
  /\ cmd \in [Task -> [StopKinds -> [attempt : Nat, node : Node \cup {NoNode},
                                     status : {"NONE", "REQUESTED", "ACKNOWLEDGED", "FAILED"}]]]
  /\ stopped \subseteq Task \X Node
  /\ job \in [Worker -> Job]
  /\ calls \in 0 .. MaxCalls /\ faults \in 0 .. MaxFaults

\* A node never carries more active attempts than it has slots: the slot gate of PlaceTask counts
\* and writes in two statements, which the lease lock must keep together (comment of checkFencing).
NoOvercommit == \A n \in Node : Used(n) <= Capacity[n]

\* Fencing: at the commit of a placement the lease it was decided under still has this holder and
\* this token, whatever expired, was taken over or restarted since the decision (checkFencing).
Placing(w, t) == job[w].task = t /\ job[w].pc = "write" /\ job'[w].pc # "write" /\ row'[t].state = "PLACED"
PlacedUnderCurrentLease ==
  [][\A t \in Task : Len(outbox'[t]) # Len(outbox[t]) =>
        \E w \in Worker : /\ Placing(w, t)
                          /\ lease[job[w].scope].holder = job[w].inst
                          /\ lease[job[w].scope].token = row'[t].token]_vars

\* Attempts carry the tokens of the leaderships in their order: what a deposed leader decided
\* never lands after a decision of its successor (Release's comment, invariant 3).
TokensFollowAttempts ==
  \A t \in Task : \A a, b \in DOMAIN ledger[t] : a < b => ledger[t][a].token <= ledger[t][b].token

\* The ledger of attempts agrees with the task row on the active attempt, and every earlier
\* attempt of the task has ended there ("a retry can allocate a new attempt only after both
\* records have reached this terminal state", CompleteTaskAttempt).
LedgerFollows ==
  \A t \in Task :
    /\ row[t].state \in Active =>
         ledger[t][row[t].attempt] = [state |-> row[t].state, node |-> row[t].node, token |-> row[t].token]
    /\ \A a \in DOMAIN ledger[t] : a < row[t].attempt \/ row[t].state \notin Active => ledger[t][a].state \in Terminal

\* A task is CANCELLING only on record: a stop command of that very attempt was confirmed, or,
\* for a governed run, was at least on file when its runtime took it (requestStop, take).
CancellingOnRecord ==
  \A t \in Task : row[t].state = "CANCELLING" =>
    \E k \in StopKinds : /\ cmd[t][k].attempt = row[t].attempt
                         /\ cmd[t][k].status = "ACKNOWLEDGED" \/ (t \in Governed /\ taken[t] = row[t].attempt)

\* A stop on record is not lost to a later one: once a command for the active attempt was
\* acknowledged, nothing makes it look undelivered again (recordStopIntent, markStopDeliveryFailed).
AcknowledgedStays ==
  [][\A t \in Task, k \in StopKinds :
       cmd[t][k].status = "ACKNOWLEDGED" /\ row'[t].attempt = cmd[t][k].attempt
         => cmd'[t][k].status = "ACKNOWLEDGED"]_vars

\* The abstract promise, with the outbox as what was handed to nodes.
Phase(state) ==
  CASE state = "NONE" -> "none"
    [] state = "PENDING" -> "waiting"
    [] state \in Active -> "active"
    [] OTHER -> "ended"
Phases == [t \in Task |-> Phase(row[t].state)]
Attempts == [t \in Task |-> row[t].attempt]
Sent == [t \in Task |-> [k \in DOMAIN outbox[t] |-> outbox[t][k].attempt]]
SingleFlight == INSTANCE SingleFlight WITH phase <- Phases, attempt <- Attempts, sent <- Sent

\* Under one leadership lease the scheduler keeps it: whatever instances, expired leases, stale
\* rounds, replayed calls and crashes do, an attempt is opened once and dispatched once.
SingleFlightSpec == SingleFlight!Spec

\* A waiting task that fewer than Batch others may come before is not left waiting for ever while a node
\* that may run it keeps a slot free: not by lost answers of elections, expired leases, crashes or stale
\* rounds, and not by waiting tasks behind it that no node may run.
AmongFirst(t) == t \in Pending /\ Cardinality({u \in Pending \ {t} : ~Before(t, u)}) < Batch
WaitingWorkIsPlaced ==
  \A t \in Task : \A n \in Eligible(t) : []<>~(AmongFirst(t) /\ Used(n) < Capacity[n])

-----------------------------------------------------------------------------
(* Claims of comments and documents that the code does not keep.           *)

\* "The leader's drain loop places PENDING tasks" (comment in main.go): a task that a drain round
\* places was waiting until then.
DrainPlacesWaiting ==
  [][\A i \in Instance, t \in Task : Placing(i, t) => row[t].state = "PENDING"]_vars

\* "... to prevent a hot tenant queue from starving other queues" (OrderPending): whatever waits before
\* it, a waiting task finds its free slot.  A round reads Batch tasks and only then orders them fairly,
\* and skips those that no node may run, so as many of them keep everything behind them from being read.
NobodyStarves ==
  \A t \in Task : \A n \in Eligible(t) : []<>~(t \in Pending /\ Used(n) < Capacity[n])

-----------------------------------------------------------------------------
(* Small instances: which processes belong to which cluster, where tasks   *)
(* may run, how many slots there are.                                      *)

\* One pool: no process has a cluster identity, no task is bound to a cluster.
Unclustered == [i \in Instance |-> NoCluster]
AnyNode == [n \in Node |-> NoCluster]
Unbound == [t \in Task |-> NoCluster]

\* One cluster: every process, node and task belongs to it.
Home == CHOOSE c \in Cluster : TRUE
OneCluster(set) == [x \in set |-> Home]
AllInstances == OneCluster(Instance)
AllNodes == OneCluster(Node)
AllTasks == OneCluster(Task)

\* Two clusters, the second without nodes, and one task for it.
Elsewhere == CHOOSE t \in Task : TRUE
OneElsewhere == [t \in Task |-> IF t = Elsewhere THEN CHOOSE c \in Cluster : c # Home ELSE Home]

OneSlot == [n \in Node |-> 1]
EqualPriority == [t \in Task |-> 0]
NoDeadline == [t \in Task |-> 0]
\* The task that no node may run waits behind the others; it waits before them.
RunnableFirst ==
  LET due == CHOOSE t \in Task \ {Elsewhere} : TRUE
  IN  [t \in Task |-> CASE t = Elsewhere -> 0 [] t = due -> 1 [] OTHER -> 2]
RunnableLast == [t \in Task |-> IF t = Elsewhere THEN 1 ELSE 0]
\* One task may preempt the others.
OneUrgent == LET urgent == CHOOSE t \in Task : TRUE IN [t \in Task |-> IF t = urgent THEN 1 ELSE 0]

\* Processes are alike, and so are calls.
Alike == Permutations(Instance) \cup Permutations(Request)
=============================================================================
