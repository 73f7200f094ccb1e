---------------------------- MODULE Scheduler_proofs ---------------------------
(***************************************************************************)
(* Proofs about Scheduler, for any instances, clusters, nodes, tasks,      *)
(* calls and faults.  What needs a single leadership lease says so.        *)
(***************************************************************************)
EXTENDS Scheduler, FiniteSetTheorems, SequenceTheorems, TLAPS

\* No instance decides under a cluster's lease: it has no cluster, or no task
\* is bound to its cluster.
OneLease == \A i \in Instance, t \in Task : Binding[t] = ClusterOf[i] => Binding[t] = NoCluster

-----------------------------------------------------------------------------
(* What holds under any leases *)

\* The attempts of a task are a table by number.
LedgerIsATable == ledger \in [Task -> UNION {[D -> Entry] : D \in SUBSET Nat}]

\* The tasks that take a slot of n: finitely many, for any set of tasks.
Carried(n) == {t \in Task : row[t].node = n /\ row[t].state \in Active}
CarriedIsFinite == \A n \in Node : IsFiniteSet(Carried(n))

\* The work of a worker has what its place in the code needs.
Busy == {"plan", "fence", "inspect", "gate", "write", "queue", "victim", "intent", "stop", "confirm"}
Shaped(j) ==
  /\ j.pc \in Busy => j.task \in Task
  /\ j.pc \in {"fence", "inspect", "gate", "write", "stop"} => j.node \in Node
  /\ j.locked => j.pc \in {"gate", "write"}
JobsAreShaped == \A w \in Worker : Shaped(job[w])

\* A worker between the fencing check and the commit holds the lease's row.
Inside(j) == j.pc \in {"inspect", "gate", "write"}
InsideIsFenced ==
  \A w \in Worker : Inside(job[w]) => /\ lease[job[w].scope].holder = job[w].inst
                                      /\ lease[job[w].scope].token = job[w].token
InsideIsAlone ==
  \A w, v \in Worker : Inside(job[w]) /\ Inside(job[v]) /\ job[w].scope = job[v].scope => w = v

IInv == TypeOK /\ LedgerIsATable /\ CarriedIsFinite /\ JobsAreShaped /\ InsideIsFenced /\ InsideIsAlone

-----------------------------------------------------------------------------
(* What holds under one lease *)

UnderGlobal == \A w \in Worker : job[w].scope = Global

\* What PlaceTask read of the task's row is still there when it writes.
Current(j) ==
  /\ ~Standing(j.task)
  /\ j.attempt = row[j.task].attempt + 1
  /\ j.locked <=> row[j.task].state # "NONE"
ReadsAreCurrent == \A w \in Worker : job[w].pc \in {"gate", "write"} => Current(job[w])

\* A slot of the node is left once the gate was passed.
RoomIsKept == \A w \in Worker : job[w].pc = "write" => Room(job[w].node)

\* The ledger holds every attempt from the first to the task's last.
LedgerIsWhole ==
  \A t \in Task : /\ DOMAIN ledger[t] = 1..row[t].attempt
                  /\ row[t].state \in Active => row[t].attempt # 0

\* No token in the ledger is newer than the lease.
TokensAreIssued == \A t \in Task : \A a \in DOMAIN ledger[t] : ledger[t][a].token <= lease[Global].token

JobsOne == UnderGlobal /\ ReadsAreCurrent /\ RoomIsKept
TablesOne == NoOvercommit /\ LedgerIsWhole /\ LedgerFollows /\ TokensAreIssued /\ TokensFollowAttempts
OneInv == JobsOne /\ TablesOne

-----------------------------------------------------------------------------
(* Workers *)

LEMMA IdleType == Idle \in Job /\ Shaped(Idle) /\ ~Inside(Idle) /\ Idle.scope = Global /\ ~Idle.locked
BY SchedulerAssumption DEF Idle, Job, Shaped, Inside, Busy, Scope, StopKinds

\* The job of a worker, and what it has by its place.
LEMMA JobType ==
  ASSUME IInv, NEW w \in Worker
  PROVE  /\ job[w] \in Job /\ Shaped(job[w])
         /\ job[w].inst \in Instance \cup {NoInstance} /\ job[w].task \in Task \cup {NoTask}
         /\ job[w].scope \in Scope /\ job[w].token \in Nat /\ job[w].node \in Node \cup {NoNode}
         /\ job[w].attempt \in Nat /\ job[w].locked \in BOOLEAN /\ job[w].kind \in StopKinds
         /\ job[w].room \in [Node -> Nat] /\ job[w].todo \subseteq Task
         /\ job[w].pc \in Busy => job[w].task \in Task
         /\ job[w].pc \in {"fence", "inspect", "gate", "write", "stop"} => job[w].node \in Node
         /\ job[w].locked => job[w].pc \in {"gate", "write"}
<1>1. job[w] \in Job /\ Shaped(job[w])
  BY DEF IInv, TypeOK, JobsAreShaped
<1>. QED BY <1>1 DEF Job, Shaped

\* What is left of a worker's job after its transaction.
LEMMA LeftType ==
  ASSUME IInv, NEW w \in Worker, job[w].pc \in {"fence", "inspect", "gate", "write"}, NEW placed \in BOOLEAN
  PROVE  /\ Left(w, placed) \in Job /\ Shaped(Left(w, placed)) /\ ~Inside(Left(w, placed))
         /\ Left(w, placed).scope \in {Global, job[w].scope}
         /\ Left(w, placed).pc \in {"idle", "round"}
<1>1. CASE w \in Request \/ job[w].todo = {}
  BY <1>1, IdleType DEF Left, Idle
<1>2. CASE ~(w \in Request \/ job[w].todo = {})
  <2>1. /\ job[w] \in Job /\ job[w].node \in Node /\ job[w].room \in [Node -> Nat]
    BY JobType
  <2>. DEFINE used == IF placed THEN [job[w].room EXCEPT ![job[w].node] = @ + 1] ELSE job[w].room
             left == [job[w] EXCEPT !.pc = "round", !.task = NoTask, !.node = NoNode, !.attempt = 0,
                                    !.locked = FALSE, !.room = used]
  <2>2. used \in [Node -> Nat]
    BY <2>1
  <2>3. Left(w, placed) = left
    BY <1>2 DEF Left
  <2>. HIDE DEF used
  <2>4. left \in Job /\ left.pc = "round" /\ left.scope = job[w].scope /\ ~left.locked
    BY <2>1, <2>2 DEF Job
  <2>. QED BY <2>3, <2>4 DEF Shaped, Inside, Busy
<1>. QED BY <1>1, <1>2

\* One worker goes on, and passes the fencing check only with the lease it holds.
Fenced(w, j) ==
  Inside(j) => \/ /\ Inside(job[w]) /\ j.scope = job[w].scope
                  /\ j.inst = job[w].inst /\ j.token = job[w].token
               \/ Holds(j) /\ ~LeaseLocked(j.scope)

JobsHold == JobsAreShaped /\ InsideIsFenced /\ InsideIsAlone

LEMMA StepMoves ==
  ASSUME IInv, NEW w \in Worker, NEW j \in Job, Shaped(j), Fenced(w, j), Step(w, j), lease' = lease
  PROVE  job' \in [Worker -> Job] /\ JobsHold'
<1>1. job \in [Worker -> Job] /\ job' = [job EXCEPT ![w] = j]
  BY DEF IInv, TypeOK, Step
<1>2. job'[w] = j /\ \A v \in Worker : v # w => job'[v] = job[v]
  BY <1>1
<1>3. JobsAreShaped'
  BY <1>2 DEF IInv, JobsAreShaped, Shaped
<1>4. InsideIsFenced'
  BY <1>2 DEF IInv, InsideIsFenced, Fenced, Inside, Holds
<1>5. InsideIsAlone'
  BY <1>2 DEF IInv, InsideIsAlone, Fenced, Inside, LeaseLocked
<1>. QED BY <1>1, <1>3, <1>4, <1>5 DEF JobsHold

\* The workers of an instance fall idle; no lease changes hands.
LEMMA GoneMoves ==
  ASSUME IInv, NEW i \in Instance, Gone(i),
         \A s \in Scope : lease'[s].holder = lease[s].holder /\ lease'[s].token = lease[s].token
  PROVE  job' \in [Worker -> Job] /\ JobsHold' /\ held' \in [Instance -> [Scope -> Nat]]
<1>1. job \in [Worker -> Job] /\ job' = [w \in Worker |-> IF job[w].inst = i THEN Idle ELSE job[w]]
  BY DEF IInv, TypeOK, Gone
<1>2. \A w \in Worker : job'[w] = job[w] \/ (job'[w] = Idle /\ ~Inside(job'[w]) /\ Shaped(job'[w]))
  BY <1>1, IdleType
<1>3. job' \in [Worker -> Job]
  BY <1>1, IdleType
<1>4. JobsAreShaped'
  BY <1>2 DEF IInv, JobsAreShaped, Shaped
<1>5. InsideIsFenced'
  <2>1. \A w \in Worker : job[w].scope \in Scope
    BY JobType
  <2>. QED BY <1>2, <2>1 DEF IInv, InsideIsFenced, Inside
<1>6. InsideIsAlone'
  BY <1>2 DEF IInv, InsideIsAlone, Inside
<1>7. held' \in [Instance -> [Scope -> Nat]]
  BY DEF IInv, TypeOK, Gone
<1>. QED BY <1>3, <1>4, <1>5, <1>6, <1>7 DEF JobsHold

\* No worker moves, and no lease changes hands where one is inside.
LEMMA LeaseMoves ==
  ASSUME IInv, job' = job,
         \A s \in Scope : LeaseLocked(s) => lease'[s].holder = lease[s].holder /\ lease'[s].token = lease[s].token
  PROVE  job' \in [Worker -> Job] /\ JobsHold'
<1>1. \A w \in Worker : job[w].scope \in Scope /\ (Inside(job[w]) => LeaseLocked(job[w].scope))
  BY JobType DEF LeaseLocked, Inside
<1>2. JobsAreShaped' /\ InsideIsAlone'
  BY DEF IInv, JobsAreShaped, Shaped, InsideIsAlone, Inside
<1>3. InsideIsFenced'
  BY <1>1 DEF IInv, InsideIsFenced, Inside
<1>. QED BY <1>2, <1>3 DEF JobsHold, IInv, TypeOK

-----------------------------------------------------------------------------
(* The steps, under any leases *)

\* The types of the tables, of the commands and of the counters.
TablesHold ==
  /\ row \in [Task -> [state : States, attempt : Nat, node : Node \cup {NoNode}, token : Nat]]
  /\ LedgerIsATable /\ CarriedIsFinite
  /\ outbox \in [Task -> Seq([attempt : Nat, node : Node])]
  /\ taken \in [Task -> Nat]
CommandsHold ==
  /\ cmd \in [Task -> [StopKinds -> [attempt : Nat, node : Node \cup {NoNode},
                                     status : {"NONE", "REQUESTED", "ACKNOWLEDGED", "FAILED"}]]]
  /\ stopped \subseteq Task \X Node
CountersHold == calls \in 0 .. MaxCalls /\ faults \in 0 .. MaxFaults

LeasesHold ==
  /\ lease \in [Scope -> [holder : Instance \cup {NoInstance}, token : Nat, live : BOOLEAN]]
  /\ held \in [Instance -> [Scope -> Nat]]

LEMMA LedgerType ==
  ASSUME LedgerIsATable
  PROVE  \A t \in Task : \A a \in DOMAIN ledger[t] : a \in Nat /\ ledger[t][a] \in Entry
<1>. SUFFICES ASSUME NEW t \in Task PROVE \A a \in DOMAIN ledger[t] : a \in Nat /\ ledger[t][a] \in Entry
  OBVIOUS
<1>1. PICK D \in SUBSET Nat : ledger[t] \in [D -> Entry]
  BY DEF LedgerIsATable
<1>. QED BY <1>1

\* The invariant by its parts, before and after a step.
LEMMA Parts ==
  ASSUME LeasesHold, TablesHold, CommandsHold, CountersHold, job \in [Worker -> Job], JobsHold
  PROVE  IInv
BY LedgerType DEF IInv, TypeOK, LeasesHold, TablesHold, CommandsHold, CountersHold, JobsHold

LEMMA PartsOf ==
  ASSUME IInv
  PROVE  LeasesHold /\ TablesHold /\ CommandsHold /\ CountersHold /\ job \in [Worker -> Job] /\ JobsHold
BY DEF IInv, TypeOK, LeasesHold, TablesHold, CommandsHold, CountersHold, JobsHold

LEMMA PartsAfter ==
  ASSUME (LeasesHold /\ TablesHold /\ CommandsHold /\ CountersHold /\ JobsHold)', job' \in [Worker -> Job]
  PROVE  IInv'
<1>1. \A t \in Task : \A a \in DOMAIN ledger'[t] : a \in Nat /\ ledger'[t][a] \in Entry
  <2>. SUFFICES ASSUME NEW t \in Task
                PROVE  \A a \in DOMAIN ledger'[t] : a \in Nat /\ ledger'[t][a] \in Entry
    OBVIOUS
  <2>1. PICK D \in SUBSET Nat : ledger'[t] \in [D -> Entry]
    BY DEF TablesHold, LedgerIsATable
  <2>. QED BY <2>1
<1>. QED BY <1>1 DEF IInv, TypeOK, LeasesHold, TablesHold, CommandsHold, CountersHold, JobsHold

\* A step of one worker that touches neither leases nor counters.
LEMMA WorkerKeeps ==
  ASSUME IInv, NEW w \in Worker, NEW j \in Job, Shaped(j), Fenced(w, j), Step(w, j),
         UNCHANGED <<lease, held>>, TablesHold', CommandsHold', CountersHold'
  PROVE  IInv'
<1>1. LeasesHold'
  BY PartsOf DEF LeasesHold
<1>. QED BY <1>1, StepMoves, PartsAfter

\* The tables and the commands, left alone.
LEMMA Untouched ==
  /\ IInv /\ UNCHANGED tables => TablesHold'
  /\ IInv /\ UNCHANGED commands => CommandsHold'
  /\ IInv /\ UNCHANGED <<calls, faults>> => CountersHold'
BY PartsOf DEF TablesHold, CommandsHold, CountersHold, tables, commands, LedgerIsATable, CarriedIsFinite, Carried

\* A step that writes one row adds at most that task to those a node carries.
LEMMA OneRowMoves ==
  ASSUME TablesHold, NEW t, \A u \in Task \ {t} : row'[u] = row[u]
  PROVE  CarriedIsFinite'
<1>. SUFFICES ASSUME NEW n \in Node PROVE IsFiniteSet(Carried(n)')
  BY DEF CarriedIsFinite
<1>1. IsFiniteSet(Carried(n) \cup {t})
  BY FS_AddElement DEF TablesHold, CarriedIsFinite
<1>2. Carried(n)' \subseteq Carried(n) \cup {t}
  BY DEF Carried
<1>. QED BY <1>1, <1>2, FS_Subset

\* A task begins unknown, or waiting for its first attempt.
LEMMA FirstRows ==
  ASSUME Init, NEW t \in Task
  PROVE  /\ row[t] \in [state : States, attempt : Nat, node : Node \cup {NoNode}, token : Nat]
         /\ row[t].state \in {"NONE", "PENDING"} /\ row[t].attempt = 0 /\ row[t].node = NoNode
<1>1. CASE t \in Waiting
  <2>1. row[t] = [state |-> "PENDING", attempt |-> 0, node |-> NoNode, token |-> Former]
    BY <1>1 DEF Init, NoRow
  <2>. QED BY <2>1 DEF Former, States
<1>2. CASE t \notin Waiting
  <2>1. row[t] = [state |-> "NONE", attempt |-> 0, node |-> NoNode, token |-> 0]
    BY <1>2 DEF Init, NoRow
  <2>. QED BY <2>1 DEF States
<1>. QED BY <1>1, <1>2

LEMMA InitIInv == Init => IInv
<1>. SUFFICES ASSUME Init PROVE IInv
  OBVIOUS
<1>1. TablesHold
  <2>1. row \in [Task -> [state : States, attempt : Nat, node : Node \cup {NoNode}, token : Nat]]
    BY FirstRows DEF Init
  <2>2. <<>> \in UNION {[D -> Entry] : D \in SUBSET Nat}
    <3>1. <<>> \in [{} -> Entry]
      OBVIOUS
    <3>. QED BY <3>1
  <2>3. <<>> \in Seq([attempt : Nat, node : Node])
    OBVIOUS
  <2>4. CarriedIsFinite
    <3>1. \A n \in Node : Carried(n) = {}
      BY FirstRows DEF Carried, Active
    <3>. QED BY <3>1, FS_EmptySet DEF CarriedIsFinite
  <2>. QED BY <2>1, <2>2, <2>3, <2>4 DEF Init, TablesHold, LedgerIsATable
<1>2. CommandsHold
  BY DEF Init, CommandsHold, NoCommand
<1>3. CountersHold
  BY SchedulerAssumption DEF Init, CountersHold
<1>4. \A w \in Worker : job[w] = Idle
  BY DEF Init
<1>5. job \in [Worker -> Job] /\ JobsHold
  BY <1>4, IdleType DEF Init, JobsHold, JobsAreShaped, InsideIsFenced, InsideIsAlone
<1>6. LeasesHold
  BY DEF Init, LeasesHold, Former
<1>. QED BY <1>1, <1>2, <1>3, <1>5, <1>6, Parts

\* An election leaves the leases and the believed tokens in their types.
LEMMA ObtainedType ==
  ASSUME IInv, NEW i \in Instance, NEW s \in Scope
  PROVE  Obtained(i, s) \in [holder : Instance \cup {NoInstance}, token : Nat, live : BOOLEAN]
BY DEF IInv, TypeOK, Obtained

LEMMA ElectKeeps ==
  ASSUME IInv, NEW i \in Instance, NEW s \in Scope, Elect(i, s)
  PROVE  IInv'
<1>1. UNCHANGED <<tables, commands, calls, faults>> /\ job' = job
  BY DEF Elect, Acquire, AcquireUnseen, NotAcquired
<1>2. \/ ~LeaseLocked(s) /\ lease' = [lease EXCEPT ![s] = Obtained(i, s)]
      \/ lease' = lease
  BY DEF Elect, Acquire, AcquireUnseen, NotAcquired, Obtainable
<1>3. lease \in [Scope -> [holder : Instance \cup {NoInstance}, token : Nat, live : BOOLEAN]]
  BY DEF IInv, TypeOK
<1>4. /\ lease' \in [Scope -> [holder : Instance \cup {NoInstance}, token : Nat, live : BOOLEAN]]
      /\ \A x \in Scope : LeaseLocked(x) => lease'[x] = lease[x]
  BY <1>2, <1>3, ObtainedType
<1>5. job' \in [Worker -> Job] /\ JobsHold'
  BY <1>1, <1>4, LeaseMoves
<1>6. held' \in [Instance -> [Scope -> Nat]]
  <2>1. held \in [Instance -> [Scope -> Nat]] /\ Obtained(i, s).token \in Nat
    BY ObtainedType DEF IInv, TypeOK
  <2>2. \/ held' = [held EXCEPT ![i][s] = Obtained(i, s).token]
        \/ held' = [held EXCEPT ![i][s] = 0]
        \/ held' = held
    BY DEF Elect, Acquire, AcquireUnseen, NotAcquired
  <2>. QED BY <2>1, <2>2
<1>7. LeasesHold'
  BY <1>4, <1>6 DEF LeasesHold
<1>. QED BY <1>1, <1>5, <1>7, PartsAfter, Untouched

LEMMA ExpireKeeps == ASSUME IInv, NEW s \in Scope, Expire(s) PROVE IInv'
<1>1. /\ UNCHANGED <<tables, commands, calls>> /\ job' = job /\ held' = held
      /\ faults' = faults + 1 /\ faults < MaxFaults
      /\ lease' = [lease EXCEPT ![s].live = FALSE]
  BY DEF Expire
<1>2. LeasesHold
  BY PartsOf
<1>3. /\ LeasesHold'
      /\ \A x \in Scope : lease'[x].holder = lease[x].holder /\ lease'[x].token = lease[x].token
  BY <1>1, <1>2 DEF LeasesHold
<1>4. CountersHold'
  BY <1>1, PartsOf, SchedulerAssumption DEF CountersHold
<1>5. job' \in [Worker -> Job] /\ JobsHold'
  BY <1>1, <1>3, LeaseMoves
<1>. QED BY <1>1, <1>3, <1>4, <1>5, PartsAfter, Untouched

LEMMA DieKeeps == ASSUME IInv, NEW i \in Instance, Crash(i) \/ Shutdown(i) \/ Panic(i) PROVE IInv'
<1>1. Gone(i) /\ UNCHANGED <<tables, commands, calls>>
  BY DEF Crash, Shutdown, Panic, Gone
<1>2. CountersHold'
  <2>1. faults' = faults \/ (faults' = faults + 1 /\ faults < MaxFaults)
    BY DEF Crash, Shutdown, Panic
  <2>. QED BY <1>1, <2>1, PartsOf, SchedulerAssumption DEF CountersHold
<1>3. /\ lease' \in [Scope -> [holder : Instance \cup {NoInstance}, token : Nat, live : BOOLEAN]]
      /\ \A x \in Scope : lease'[x].holder = lease[x].holder /\ lease'[x].token = lease[x].token
  <2>1. lease \in [Scope -> [holder : Instance \cup {NoInstance}, token : Nat, live : BOOLEAN]]
    BY PartsOf DEF LeasesHold
  <2>2. CASE lease' = lease
    BY <2>1, <2>2
  <2>3. CASE lease' = [lease EXCEPT ![Global].live = @ /\ lease[Global].holder # i]
    <3>1. PICK live \in BOOLEAN : lease' = [lease EXCEPT ![Global].live = live]
      <4>1. (lease[Global].live /\ lease[Global].holder # i) \in BOOLEAN
        OBVIOUS
      <4>. QED BY <2>3, <4>1
    <3>. QED BY <2>1, <3>1
  <2>. QED BY <2>2, <2>3 DEF Crash, Shutdown, Panic
<1>4. job' \in [Worker -> Job] /\ JobsHold' /\ held' \in [Instance -> [Scope -> Nat]]
  BY <1>1, <1>3, GoneMoves
<1>5. LeasesHold'
  BY <1>3, <1>4 DEF LeasesHold
<1>. QED BY <1>1, <1>2, <1>4, <1>5, PartsAfter, Untouched

\* A step that only moves a worker on.
LEMMA OnlyWorkerKeeps ==
  ASSUME IInv, NEW w \in Worker, NEW j \in Job, Shaped(j), Fenced(w, j), Step(w, j),
         UNCHANGED <<lease, held, tables, commands, faults>>, calls' \in {calls, calls + 1},
         calls' # calls => calls < MaxCalls
  PROVE  IInv'
<1>1. CountersHold'
  BY PartsOf, SchedulerAssumption DEF CountersHold
<1>. QED BY <1>1, Untouched, WorkerKeeps

LEMMA ReceiveKeeps ==
  ASSUME IInv, NEW r \in Request, NEW i \in Instance, NEW t \in Task, NEW s \in Scope, Receive(r, i, t, s)
  PROVE  IInv'
<1>. DEFINE j == [Idle EXCEPT !.pc = "plan", !.inst = i, !.task = t, !.scope = s, !.token = held[i][s]]
<1>0. held[i][s] \in Nat
  BY PartsOf DEF LeasesHold
<1>1. j \in Job /\ j.pc = "plan" /\ j.task = t /\ ~j.locked
  BY <1>0, IdleType DEF Job, Idle
<1>2. /\ Step(r, j) /\ UNCHANGED <<lease, held, tables, commands, faults>>
      /\ calls' = calls + 1 /\ calls < MaxCalls
  BY DEF Receive
<1>. HIDE DEF j
<1>3. Shaped(j) /\ Fenced(r, j)
  BY <1>1 DEF Shaped, Fenced, Inside, Busy
<1>. QED BY <1>1, <1>2, <1>3, OnlyWorkerKeeps DEF Worker

LEMMA CancelKeeps ==
  ASSUME IInv, NEW r \in Request, NEW i \in Instance, NEW t \in Task, Cancel(r, i, t)
  PROVE  IInv'
<1>. DEFINE n == IF row[t].state \in {"PLACED", "RUNNING"} THEN row[t].node ELSE NoNode
            j == [Idle EXCEPT !.pc = "intent", !.inst = i, !.task = t, !.kind = "CANCEL", !.node = n]
<1>1. n \in Node \cup {NoNode}
  BY PartsOf DEF TablesHold
<1>2. /\ Step(r, j) /\ UNCHANGED <<lease, held, tables, commands, faults>>
      /\ calls' = calls + 1 /\ calls < MaxCalls
  BY DEF Cancel
<1>. HIDE DEF n
<1>3. j \in Job /\ j.pc = "intent" /\ j.task = t /\ ~j.locked
  BY <1>1, IdleType DEF Job, Idle, StopKinds
<1>. HIDE DEF j
<1>4. Shaped(j) /\ Fenced(r, j)
  BY <1>3 DEF Shaped, Fenced, Inside, Busy
<1>. QED BY <1>2, <1>3, <1>4, OnlyWorkerKeeps DEF Worker

LEMMA PlanKeeps == ASSUME IInv, NEW r \in Request, Plan(r) PROVE IInv'
<1>1. /\ job[r].pc = "plan" /\ UNCHANGED <<lease, held, tables, commands, calls, faults>>
      /\ \/ \E n \in Node : Step(r, [job[r] EXCEPT !.pc = "fence", !.node = n])
         \/ Step(r, [job[r] EXCEPT !.pc = "queue"])
  BY DEF Plan, Eligible
<1>2. r \in Worker /\ job[r] \in Job /\ job[r].task \in Task /\ ~job[r].locked
  BY <1>1, JobType DEF Worker, Busy
<1>3. ASSUME NEW n \in Node, Step(r, [job[r] EXCEPT !.pc = "fence", !.node = n]) PROVE IInv'
  <2>. DEFINE j == [job[r] EXCEPT !.pc = "fence", !.node = n]
  <2>1. j \in Job /\ Shaped(j) /\ Fenced(r, j)
    BY <1>2 DEF Job, Shaped, Fenced, Inside, Busy
  <2>. HIDE DEF j
  <2>. QED BY <1>1, <1>2, <1>3, <2>1, OnlyWorkerKeeps DEF j
<1>4. CASE Step(r, [job[r] EXCEPT !.pc = "queue"])
  <2>. DEFINE j == [job[r] EXCEPT !.pc = "queue"]
  <2>1. j \in Job /\ Shaped(j) /\ Fenced(r, j)
    BY <1>2 DEF Job, Shaped, Fenced, Inside, Busy
  <2>. QED BY <1>1, <1>2, <1>4, <2>1, OnlyWorkerKeeps
<1>. QED BY <1>1, <1>3, <1>4

LEMMA FenceKeeps == ASSUME IInv, NEW w \in Worker, Fence(w) PROVE IInv'
<1>1. /\ job[w].pc = "fence" /\ ~LeaseLocked(job[w].scope)
      /\ UNCHANGED <<lease, held, tables, commands, calls, faults>>
      /\ Step(w, IF Holds(job[w]) THEN [job[w] EXCEPT !.pc = "inspect"] ELSE Left(w, FALSE))
  BY DEF Fence
<1>2. job[w] \in Job /\ job[w].task \in Task /\ job[w].node \in Node /\ ~job[w].locked
  BY <1>1, JobType DEF Busy
<1>3. CASE Holds(job[w])
  <2>. DEFINE j == [job[w] EXCEPT !.pc = "inspect"]
  <2>1. j \in Job /\ Shaped(j)
    BY <1>2 DEF Job, Shaped, Busy
  <2>2. Fenced(w, j)
    BY <1>1, <1>2, <1>3 DEF Job, Fenced, Holds
  <2>3. Step(w, j)
    BY <1>1, <1>3
  <2>. QED BY <1>1, <2>1, <2>2, <2>3, OnlyWorkerKeeps
<1>4. CASE ~Holds(job[w])
  <2>1. Left(w, FALSE) \in Job /\ Shaped(Left(w, FALSE)) /\ ~Inside(Left(w, FALSE))
    BY <1>1, LeftType
  <2>. QED BY <1>1, <1>4, <2>1, OnlyWorkerKeeps DEF Fenced
<1>. QED BY <1>3, <1>4

LEMMA InspectKeeps == ASSUME IInv, NEW w \in Worker, Inspect(w) PROVE IInv'
<1>. DEFINE t == job[w].task
            locked == row[t].state # "NONE"
            next == row[t].attempt + 1
            j == [job[w] EXCEPT !.pc = "gate", !.attempt = next, !.locked = locked]
<1>1. /\ job[w].pc = "inspect" /\ UNCHANGED <<lease, held, tables, commands, calls, faults>>
      /\ Step(w, IF Standing(t) THEN Left(w, TRUE) ELSE j)
  BY DEF Inspect
<1>2. job[w] \in Job /\ t \in Task /\ job[w].node \in Node
  BY <1>1, JobType DEF Busy
<1>3. next \in Nat
  BY <1>2, PartsOf DEF TablesHold
<1>4. CASE Standing(t)
  <2>1. Left(w, TRUE) \in Job /\ Shaped(Left(w, TRUE)) /\ ~Inside(Left(w, TRUE))
    BY <1>1, LeftType
  <2>. QED BY <1>1, <1>4, <2>1, OnlyWorkerKeeps DEF Fenced
<1>5. CASE ~Standing(t)
  <2>0. locked \in BOOLEAN
    OBVIOUS
  <2>3. Step(w, j)
    BY <1>1, <1>5
  <2>. HIDE DEF locked, next
  <2>4. j \in Job
    BY <1>2, <1>3, <2>0 DEF Job
  <2>1. j \in Job /\ Shaped(j)
    BY <1>2, <2>4 DEF Job, Shaped, Busy
  <2>2. Fenced(w, j)
    BY <1>1, <1>2 DEF Job, Fenced, Inside
  <2>. HIDE DEF j
  <2>. QED BY <1>1, <2>1, <2>2, <2>3, OnlyWorkerKeeps
<1>. QED BY <1>4, <1>5

LEMMA GateKeeps == ASSUME IInv, NEW w \in Worker, Gate(w) PROVE IInv'
<1>1. /\ job[w].pc = "gate" /\ UNCHANGED <<lease, held, tables, commands, calls, faults>>
      /\ \/ Step(w, [job[w] EXCEPT !.pc = "write"])
         \/ Step(w, [job[w] EXCEPT !.pc = "queue", !.node = NoNode, !.attempt = 0, !.locked = FALSE])
         \/ Step(w, Left(w, FALSE))
  BY DEF Gate
<1>2. job[w] \in Job /\ job[w].task \in Task /\ job[w].node \in Node
  BY <1>1, JobType DEF Busy
<1>3. CASE Step(w, [job[w] EXCEPT !.pc = "write"])
  <2>. DEFINE j == [job[w] EXCEPT !.pc = "write"]
  <2>1. j \in Job /\ Shaped(j) /\ Fenced(w, j)
    BY <1>1, <1>2 DEF Job, Shaped, Fenced, Inside, Busy
  <2>. QED BY <1>1, <1>3, <2>1, OnlyWorkerKeeps
<1>4. CASE Step(w, [job[w] EXCEPT !.pc = "queue", !.node = NoNode, !.attempt = 0, !.locked = FALSE])
  <2>. DEFINE j == [job[w] EXCEPT !.pc = "queue", !.node = NoNode, !.attempt = 0, !.locked = FALSE]
  <2>1. j \in Job /\ Shaped(j) /\ Fenced(w, j)
    BY <1>2 DEF Job, Shaped, Fenced, Inside, Busy
  <2>. QED BY <1>1, <1>4, <2>1, OnlyWorkerKeeps
<1>5. CASE Step(w, Left(w, FALSE))
  <2>1. Left(w, FALSE) \in Job /\ Shaped(Left(w, FALSE)) /\ ~Inside(Left(w, FALSE))
    BY <1>1, LeftType
  <2>. QED BY <1>1, <1>5, <2>1, OnlyWorkerKeeps DEF Fenced
<1>. QED BY <1>1, <1>3, <1>4, <1>5

\* One more attempt is a larger table.
LEMMA PutType ==
  ASSUME NEW f \in UNION {[D -> Entry] : D \in SUBSET Nat}, NEW a \in Nat, NEW e \in Entry
  PROVE  Put(f, a, e) \in UNION {[D -> Entry] : D \in SUBSET Nat}
<1>1. PICK D \in SUBSET Nat : f \in [D -> Entry]
  OBVIOUS
<1>2. Put(f, a, e) \in [D \cup {a} -> Entry]
  BY <1>1 DEF Put
<1>. QED BY <1>2

LEMMA EntryType ==
  ASSUME NEW f \in UNION {[D -> Entry] : D \in SUBSET Nat}, NEW a, NEW state \in States
  PROVE  [f EXCEPT ![a].state = state] \in UNION {[D -> Entry] : D \in SUBSET Nat}
<1>1. PICK D \in SUBSET Nat : f \in [D -> Entry]
  OBVIOUS
<1>2. CASE a \in D
  <2>1. [f[a] EXCEPT !.state = state] \in Entry
    BY <1>1, <1>2 DEF Entry
  <2>2. [f EXCEPT ![a] = [f[a] EXCEPT !.state = state]] \in [D -> Entry]
    BY <1>1, <2>1
  <2>3. [f EXCEPT ![a].state = state] = [f EXCEPT ![a] = [f[a] EXCEPT !.state = state]]
    BY <1>1, <1>2
  <2>. QED BY <2>2, <2>3
<1>3. CASE a \notin D
  <2>1. [f EXCEPT ![a].state = state] = f
    BY <1>1, <1>3
  <2>. QED BY <1>1, <2>1
<1>. QED BY <1>2, <1>3

\* The row and the ledger of a task after its state changed in both.
LEMMA StateType ==
  ASSUME TablesHold, NEW t \in Task, NEW a, NEW state \in States
  PROVE  /\ [row EXCEPT ![t].state = state] \in
              [Task -> [state : States, attempt : Nat, node : Node \cup {NoNode}, token : Nat]]
         /\ [ledger EXCEPT ![t][a].state = state] \in [Task -> UNION {[D -> Entry] : D \in SUBSET Nat}]
<1>1. [row EXCEPT ![t].state = state] \in
        [Task -> [state : States, attempt : Nat, node : Node \cup {NoNode}, token : Nat]]
  BY DEF TablesHold
<1>2. [ledger[t] EXCEPT ![a].state = state] \in UNION {[D -> Entry] : D \in SUBSET Nat}
  BY EntryType DEF TablesHold, LedgerIsATable
<1>3. [ledger EXCEPT ![t][a].state = state] = [ledger EXCEPT ![t] = [ledger[t] EXCEPT ![a].state = state]]
  OBVIOUS
<1>4. [ledger EXCEPT ![t] = [ledger[t] EXCEPT ![a].state = state]]
        \in [Task -> UNION {[D -> Entry] : D \in SUBSET Nat}]
  BY <1>2 DEF TablesHold, LedgerIsATable
<1>. QED BY <1>1, <1>3, <1>4

LEMMA WriteKeeps == ASSUME IInv, NEW w \in Worker, Write(w) PROVE IInv'
<1>. DEFINE t == job[w].task
            a == job[w].attempt
            placed == [state |-> "PLACED", node |-> job[w].node, token |-> job[w].token]
<1>1. /\ job[w].pc = "write" /\ Step(w, Left(w, TRUE))
      /\ row' = [row EXCEPT ![t] = [state |-> "PLACED", attempt |-> a, node |-> job[w].node, token |-> job[w].token]]
      /\ ledger' = [ledger EXCEPT ![t] = Put(@, a, placed)]
      /\ outbox' = [outbox EXCEPT ![t] = Append(@, [attempt |-> a, node |-> job[w].node])]
      /\ UNCHANGED <<lease, held, taken, commands, calls, faults>>
  BY DEF Write
<1>2. t \in Task /\ job[w].node \in Node /\ a \in Nat /\ job[w].token \in Nat
  BY <1>1, JobType DEF Busy
<1>3. placed \in Entry
  BY <1>2 DEF Entry, States, Active
<1>4. TablesHold'
  <2>1. TablesHold
    BY PartsOf
  <2>2. Put(ledger[t], a, placed) \in UNION {[D -> Entry] : D \in SUBSET Nat}
    BY <1>2, <1>3, <2>1, PutType DEF TablesHold, LedgerIsATable
  <2>3. LedgerIsATable'
    BY <1>1, <1>2, <2>1, <2>2 DEF TablesHold, LedgerIsATable
  <2>4. row' \in [Task -> [state : States, attempt : Nat, node : Node \cup {NoNode}, token : Nat]]
    BY <1>1, <1>2, <2>1 DEF TablesHold, States, Active
  <2>5. outbox' \in [Task -> Seq([attempt : Nat, node : Node])]
    <3>1. [attempt |-> a, node |-> job[w].node] \in [attempt : Nat, node : Node]
      BY <1>2
    <3>2. Append(outbox[t], [attempt |-> a, node |-> job[w].node]) \in Seq([attempt : Nat, node : Node])
      BY <1>2, <2>1, <3>1, AppendProperties DEF TablesHold
    <3>. QED BY <1>1, <1>2, <2>1, <3>2 DEF TablesHold
  <2>6. CarriedIsFinite'
    BY <1>1, <2>1, OneRowMoves DEF TablesHold
  <2>. QED BY <1>1, <2>1, <2>3, <2>4, <2>5, <2>6 DEF TablesHold
<1>5. Left(w, TRUE) \in Job /\ Shaped(Left(w, TRUE)) /\ Fenced(w, Left(w, TRUE))
  BY <1>1, LeftType DEF Fenced
<1>. QED BY <1>1, <1>4, <1>5, Untouched, WorkerKeeps

LEMMA QueueKeeps == ASSUME IInv, NEW r \in Request, Queue(r) PROVE IInv'
<1>. DEFINE t == job[r].task
            queued == Queued(t, job[r].token)
<1>1. /\ job[r].pc = "queue" /\ UNCHANGED <<lease, held, ledger, outbox, taken, commands, calls, faults>>
      /\ row' \in {row, [row EXCEPT ![t] = queued]}
      /\ Step(r, Idle) \/ Step(r, [job[r] EXCEPT !.pc = "victim"])
  BY DEF Queue
<1>2. job[r] \in Job /\ t \in Task /\ job[r].token \in Nat /\ ~job[r].locked /\ r \in Worker
  BY <1>1, JobType DEF Worker, Busy
<1>3. TablesHold'
  <2>1. TablesHold
    BY PartsOf
  <2>2. queued \in [state : States, attempt : Nat, node : Node \cup {NoNode}, token : Nat]
    BY <1>2, <2>1 DEF TablesHold, Queued, States
  <2>. HIDE DEF queued
  <2>3. row' \in [Task -> [state : States, attempt : Nat, node : Node \cup {NoNode}, token : Nat]]
    BY <1>1, <1>2, <2>1, <2>2 DEF TablesHold
  <2>4. CarriedIsFinite'
    BY <1>1, <2>1, OneRowMoves DEF TablesHold
  <2>. QED BY <1>1, <2>1, <2>3, <2>4 DEF TablesHold, LedgerIsATable
<1>4. CASE Step(r, Idle)
  <2>1. Fenced(r, Idle)
    BY IdleType DEF Fenced
  <2>. QED BY <1>1, <1>2, <1>3, <1>4, <2>1, IdleType, Untouched, WorkerKeeps
<1>5. CASE Step(r, [job[r] EXCEPT !.pc = "victim"])
  <2>. DEFINE j == [job[r] EXCEPT !.pc = "victim"]
  <2>1. j \in Job /\ Shaped(j) /\ Fenced(r, j)
    BY <1>2 DEF Job, Shaped, Fenced, Inside, Busy
  <2>. HIDE DEF j
  <2>. QED BY <1>1, <1>2, <1>3, <1>5, <2>1, Untouched, WorkerKeeps DEF j
<1>. QED BY <1>1, <1>4, <1>5

LEMMA FindVictimKeeps == ASSUME IInv, NEW r \in Request, FindVictim(r) PROVE IInv'
<1>1. r \in Worker /\ UNCHANGED <<lease, held, tables, commands, calls, faults>>
  BY DEF FindVictim, Worker
<1>2. ASSUME NEW v \in Victims(job[r].task),
             Step(r, [Idle EXCEPT !.pc = "intent", !.inst = job[r].inst, !.task = v, !.kind = "PREEMPT",
                                  !.node = row[v].node, !.attempt = row[v].attempt])
      PROVE  IInv'
  <2>. DEFINE j == [Idle EXCEPT !.pc = "intent", !.inst = job[r].inst, !.task = v, !.kind = "PREEMPT",
                                !.node = row[v].node, !.attempt = row[v].attempt]
  <2>1. v \in Task /\ row[v].node \in Node \cup {NoNode} /\ row[v].attempt \in Nat
    BY PartsOf DEF Victims, TablesHold
  <2>2. job[r].inst \in Instance \cup {NoInstance}
    BY <1>1, JobType
  <2>3. j \in Job /\ j.pc = "intent" /\ j.task = v /\ ~j.locked
    BY <2>1, <2>2, IdleType DEF Job, Idle, StopKinds
  <2>. HIDE DEF j
  <2>4. Shaped(j) /\ Fenced(r, j)
    BY <2>1, <2>3 DEF Shaped, Fenced, Inside, Busy
  <2>. QED BY <1>1, <1>2, <2>3, <2>4, OnlyWorkerKeeps DEF j
<1>3. CASE Step(r, Idle)
  BY <1>1, <1>3, IdleType, OnlyWorkerKeeps DEF Fenced
<1>. QED BY <1>2, <1>3 DEF FindVictim

\* The three writes of the stop protocol to its command.
CommandRow == [attempt : Nat, node : Node \cup {NoNode},
               status : {"NONE", "REQUESTED", "ACKNOWLEDGED", "FAILED"}]

LEMMA CommandType ==
  ASSUME CommandsHold, TablesHold, NEW t \in Task, NEW k \in StopKinds
  PROVE  /\ Command(t, k) \in CommandRow /\ cmd[t][k] \in CommandRow
         /\ \A x \in CommandRow : cmd' = [cmd EXCEPT ![t][k] = x] => cmd' \in [Task -> [StopKinds -> CommandRow]]
<1>1. cmd \in [Task -> [StopKinds -> CommandRow]] /\ cmd[t][k] \in CommandRow
  BY DEF CommandsHold, CommandRow
<1>2. Command(t, k) \in CommandRow
  <2>1. row[t].attempt \in Nat /\ row[t].node \in Node \cup {NoNode}
    BY DEF TablesHold
  <2>. QED BY <2>1 DEF Command, CommandRow
<1>. HIDE DEF CommandRow
<1>3. ASSUME NEW x \in CommandRow, cmd' = [cmd EXCEPT ![t][k] = x]
      PROVE  cmd' \in [Task -> [StopKinds -> CommandRow]]
  <2>1. [cmd[t] EXCEPT ![k] = x] \in [StopKinds -> CommandRow]
    BY <1>1, <1>3
  <2>. QED BY <1>1, <1>3, <2>1
<1>. QED BY <1>1, <1>2, <1>3

LEMMA RecordIntentKeeps == ASSUME IInv, NEW r \in Request, RecordIntent(r) PROVE IInv'
<1>. DEFINE t == job[r].task
            k == job[r].kind
            pc == IF job[r].node = NoNode THEN "confirm" ELSE "stop"
            j == [job[r] EXCEPT !.pc = pc]
<1>1. /\ job[r].pc = "intent" /\ UNCHANGED <<lease, held, tables, stopped, calls, faults>>
      /\ \/ Step(r, Idle) /\ UNCHANGED cmd
         \/ Step(r, j) /\ cmd' = [cmd EXCEPT ![t][k] = Command(t, k)]
  BY DEF RecordIntent
<1>2. /\ r \in Worker /\ job[r] \in Job /\ t \in Task /\ k \in StopKinds /\ ~job[r].locked
      /\ job[r].node \in Node \cup {NoNode}
  BY <1>1, JobType DEF Worker, Busy
<1>3. CASE Step(r, Idle) /\ UNCHANGED cmd
  <2>1. Fenced(r, Idle) /\ UNCHANGED commands
    BY <1>1, <1>3, IdleType DEF Fenced, commands
  <2>. QED BY <1>1, <1>2, <1>3, <2>1, IdleType, Untouched, WorkerKeeps
<1>4. CASE Step(r, j) /\ cmd' = [cmd EXCEPT ![t][k] = Command(t, k)]
  <2>1. CommandsHold'
    BY <1>1, <1>2, <1>4, PartsOf, CommandType DEF CommandsHold, CommandRow
  <2>2. pc \in {"confirm", "stop"} /\ (pc = "stop" => job[r].node \in Node)
    BY <1>2
  <2>. HIDE DEF pc
  <2>3. j \in Job
    BY <1>2, <2>2 DEF Job
  <2>4. Shaped(j) /\ Fenced(r, j)
    BY <1>2, <2>2 DEF Job, Shaped, Fenced, Inside, Busy
  <2>. HIDE DEF j
  <2>. QED BY <1>1, <1>2, <1>4, <2>1, <2>3, <2>4, Untouched, WorkerKeeps
<1>. QED BY <1>1, <1>3, <1>4

LEMMA StopAckedKeeps == ASSUME IInv, NEW r \in Request, StopAcked(r) PROVE IInv'
<1>. DEFINE j == [job[r] EXCEPT !.pc = "confirm"]
<1>1. /\ job[r].pc = "stop" /\ UNCHANGED <<lease, held, tables, cmd, calls, faults>>
      /\ stopped' = stopped \cup {<<job[r].task, job[r].node>>} /\ Step(r, j)
  BY DEF StopAcked
<1>2. r \in Worker /\ job[r] \in Job /\ job[r].task \in Task /\ job[r].node \in Node /\ ~job[r].locked
  BY <1>1, JobType DEF Worker, Busy
<1>3. CommandsHold'
  BY <1>1, <1>2, PartsOf DEF CommandsHold
<1>4. j \in Job /\ Shaped(j) /\ Fenced(r, j)
  BY <1>2 DEF Job, Shaped, Fenced, Inside, Busy
<1>. HIDE DEF j
<1>. QED BY <1>1, <1>2, <1>3, <1>4, Untouched, WorkerKeeps

LEMMA StopFailedKeeps == ASSUME IInv, NEW r \in Request, StopFailed(r) PROVE IInv'
<1>. DEFINE t == job[r].task
            k == job[r].kind
            status == IF cmd[t][k].status = "ACKNOWLEDGED" THEN "ACKNOWLEDGED" ELSE "FAILED"
<1>1. /\ job[r].pc = "stop" /\ UNCHANGED <<lease, held, tables, calls, faults>> /\ Step(r, Idle)
      /\ stopped' \in {stopped, stopped \cup {<<t, job[r].node>>}}
      /\ cmd' = [cmd EXCEPT ![t][k].status = IF @ = "ACKNOWLEDGED" THEN @ ELSE "FAILED"]
  BY DEF StopFailed
<1>2. r \in Worker /\ t \in Task /\ job[r].node \in Node /\ k \in StopKinds
  BY <1>1, JobType DEF Worker, Busy
<1>3. CommandsHold'
  <2>1. CommandsHold
    BY PartsOf
  <2>2. stopped' \subseteq Task \X Node
    BY <1>1, <1>2, <2>1 DEF CommandsHold
  <2>3. cmd' = [cmd EXCEPT ![t][k] = [cmd[t][k] EXCEPT !.status = status]]
    BY <1>1, <1>2, <2>1 DEF CommandsHold
  <2>4. status \in {"ACKNOWLEDGED", "FAILED"}
    OBVIOUS
  <2>. HIDE DEF status
  <2>5. [cmd[t][k] EXCEPT !.status = status] \in CommandRow
    BY <1>2, <2>1, <2>4 DEF CommandsHold, CommandRow
  <2>. QED BY <1>2, <2>1, <2>2, <2>3, <2>5, PartsOf, CommandType DEF CommandsHold, CommandRow
<1>4. Fenced(r, Idle)
  BY IdleType DEF Fenced
<1>. QED BY <1>1, <1>2, <1>3, <1>4, IdleType, Untouched, WorkerKeeps

LEMMA ConfirmKeeps == ASSUME IInv, NEW r \in Request, Confirm(r) PROVE IInv'
<1>. DEFINE t == job[r].task
            k == job[r].kind
            next == Stopping(row[t].state)
<1>1. /\ job[r].pc = "confirm" /\ UNCHANGED <<lease, held, outbox, taken, stopped, calls, faults>> /\ Step(r, Idle)
      /\ \/ /\ row' = [row EXCEPT ![t].state = next]
            /\ ledger' \in {ledger, [ledger EXCEPT ![t][row[t].attempt].state = next]}
            /\ cmd' = [cmd EXCEPT ![t][k].status = "ACKNOWLEDGED"]
         \/ UNCHANGED <<row, ledger, cmd>>
  BY DEF Confirm
<1>2. r \in Worker /\ t \in Task /\ k \in StopKinds
  BY <1>1, JobType DEF Worker, Busy
<1>3. Fenced(r, Idle)
  BY IdleType DEF Fenced
<1>4. CASE UNCHANGED <<row, ledger, cmd>>
  <2>1. UNCHANGED <<tables, commands>>
    BY <1>1, <1>4 DEF tables, commands
  <2>. QED BY <1>1, <1>2, <1>3, <2>1, IdleType, Untouched, WorkerKeeps
<1>5. CASE /\ row' = [row EXCEPT ![t].state = next]
           /\ ledger' \in {ledger, [ledger EXCEPT ![t][row[t].attempt].state = next]}
           /\ cmd' = [cmd EXCEPT ![t][k].status = "ACKNOWLEDGED"]
  <2>1. TablesHold /\ CommandsHold
    BY PartsOf
  <2>2. next \in States
    BY <1>2, <2>1 DEF TablesHold, Stopping, States, Active, Terminal
  <2>. HIDE DEF next
  <2>6. row' \in [Task -> [state : States, attempt : Nat, node : Node \cup {NoNode}, token : Nat]]
    BY <1>2, <1>5, <2>1, <2>2, StateType
  <2>7. ledger \in [Task -> UNION {[D -> Entry] : D \in SUBSET Nat}]
    BY <2>1 DEF TablesHold, LedgerIsATable
  <2>8. [ledger EXCEPT ![t][row[t].attempt].state = next] \in [Task -> UNION {[D -> Entry] : D \in SUBSET Nat}]
    BY <1>2, <2>1, <2>2, StateType
  <2>3. LedgerIsATable'
    BY <1>5, <2>7, <2>8 DEF LedgerIsATable
  <2>4. CarriedIsFinite'
    BY <1>5, <2>1, OneRowMoves DEF TablesHold
  <2>5. TablesHold'
    BY <1>1, <2>1, <2>3, <2>4, <2>6 DEF TablesHold
  <2>9. CommandsHold'
    <3>1. [cmd[t][k] EXCEPT !.status = "ACKNOWLEDGED"] \in CommandRow
      BY <1>2, <2>1 DEF CommandsHold, CommandRow
    <3>2. cmd' = [cmd EXCEPT ![t][k] = [cmd[t][k] EXCEPT !.status = "ACKNOWLEDGED"]]
      BY <1>2, <1>5, <2>1 DEF CommandsHold
    <3>. QED BY <1>1, <1>2, <2>1, <3>1, <3>2, CommandType DEF CommandsHold, CommandRow
  <2>. QED BY <1>1, <1>2, <1>3, <2>5, <2>9, IdleType, Untouched, WorkerKeeps
<1>. QED BY <1>1, <1>4, <1>5

\* The slots in use are counted.
LEMMA UsedType == ASSUME TablesHold, NEW n \in Node PROVE Used(n) = Cardinality(Carried(n)) /\ Used(n) \in Nat
<1>1. IsFiniteSet(Carried(n)) /\ Used(n) = Cardinality(Carried(n))
  BY DEF TablesHold, CarriedIsFinite, Carried, Used
<1>. QED BY <1>1, FS_CardinalityType

\* What a round lists are tasks, whichever of the waiting ones the query returns.
LEMMA ListedAreTasks ==
  ASSUME NEW i \in Instance, DrainList(i)
  PROVE  \E batch \in SUBSET Task :
           \/ Step(i, Idle)
           \/ Step(i, [job[i] EXCEPT !.pc = "round", !.token = held[i][Global], !.todo = batch,
                                     !.room = [n \in Node |-> Used(n)]])
<1>1. PICK batch \in PendingTasks :
        Step(i, IF batch = {} THEN Idle
                ELSE [job[i] EXCEPT !.pc = "round", !.token = held[i][Global], !.todo = batch,
                                    !.room = [n \in Node |-> Used(n)]])
  BY DEF DrainList
<1>2. batch \in SUBSET Task
  BY <1>1 DEF PendingTasks, Batches, Pending
<1>3. CASE batch = {}
  BY <1>1, <1>2, <1>3
<1>4. CASE batch # {}
  BY <1>1, <1>2, <1>4
<1>. QED BY <1>3, <1>4

LEMMA DrainKeeps == ASSUME IInv, NEW i \in Instance, Drain(i) PROVE IInv'
<1>1. i \in Worker /\ job[i] \in Job /\ held[i][Global] \in Nat
  BY JobType, PartsOf DEF Worker, LeasesHold, Scope
<1>2. Fenced(i, Idle)
  BY IdleType DEF Fenced
<1>3. CASE DrainTick(i)
  <2>. DEFINE j == [Idle EXCEPT !.pc = "tick", !.inst = i]
  <2>1. j \in Job /\ j.pc = "tick" /\ ~j.locked
    BY IdleType DEF Job, Idle
  <2>2. Step(i, j) /\ UNCHANGED <<lease, held, tables, commands, calls, faults>>
    BY <1>3 DEF DrainTick
  <2>. HIDE DEF j
  <2>3. Shaped(j) /\ Fenced(i, j)
    BY <2>1 DEF Shaped, Fenced, Inside, Busy
  <2>. QED BY <1>1, <2>1, <2>2, <2>3, OnlyWorkerKeeps
<1>4. CASE DrainList(i)
  <2>. DEFINE room == [n \in Node |-> Used(n)]
  <2>0. PICK batch \in SUBSET Task :
          \/ Step(i, Idle)
          \/ Step(i, [job[i] EXCEPT !.pc = "round", !.token = held[i][Global], !.todo = batch, !.room = room])
    BY <1>4, ListedAreTasks
  <2>. DEFINE j == [job[i] EXCEPT !.pc = "round", !.token = held[i][Global], !.todo = batch, !.room = room]
  <2>1. /\ job[i].pc = "tick" /\ UNCHANGED <<lease, held, tables, commands, calls, faults>>
        /\ Step(i, Idle) \/ Step(i, j)
    BY <1>4, <2>0 DEF DrainList
  <2>2. room \in [Node -> Nat] /\ batch \subseteq Task
    BY UsedType, PartsOf
  <2>3. ~job[i].locked
    BY <1>1, <2>1, JobType
  <2>. HIDE DEF room
  <2>4. j \in Job
    BY <1>1, <2>2 DEF Job
  <2>5. Shaped(j) /\ Fenced(i, j)
    BY <1>1, <2>3 DEF Job, Shaped, Fenced, Inside, Busy
  <2>. HIDE DEF j
  <2>. QED BY <1>1, <1>2, <2>1, <2>4, <2>5, IdleType, OnlyWorkerKeeps
<1>5. CASE Panic(i)
  BY <1>5, DieKeeps
<1>6. ASSUME NEW t \in Task, DrainPick(i, t) PROVE IInv'
  <2>. DEFINE todo == job[i].todo \ {t}
              rest == [job[i] EXCEPT !.todo = todo]
  <2>1. /\ job[i].pc = "round" /\ UNCHANGED <<lease, held, tables, commands, calls, faults>>
        /\ \/ \E n \in Node : Step(i, [rest EXCEPT !.pc = "fence", !.task = t, !.node = n])
           \/ Step(i, Idle) \/ Step(i, rest)
    BY <1>6 DEF DrainPick, Eligible
  <2>2. todo \subseteq Task /\ ~job[i].locked
    BY <1>1, <2>1, JobType
  <2>. HIDE DEF todo
  <2>3. rest \in Job /\ rest.pc = "round" /\ ~rest.locked
    BY <1>1, <2>1, <2>2 DEF Job
  <2>. HIDE DEF rest
  <2>4. ASSUME NEW n \in Node, Step(i, [rest EXCEPT !.pc = "fence", !.task = t, !.node = n]) PROVE IInv'
    <3>. DEFINE j == [rest EXCEPT !.pc = "fence", !.task = t, !.node = n]
    <3>1. j \in Job /\ j.pc = "fence" /\ j.task = t /\ j.node = n /\ ~j.locked
      BY <2>3 DEF Job
    <3>. HIDE DEF j
    <3>2. Shaped(j) /\ Fenced(i, j)
      BY <3>1 DEF Shaped, Fenced, Inside, Busy
    <3>. QED BY <1>1, <2>1, <2>4, <3>1, <3>2, OnlyWorkerKeeps DEF j
  <2>5. Shaped(rest) /\ Fenced(i, rest)
    BY <2>3 DEF Shaped, Fenced, Inside, Busy
  <2>. QED BY <1>1, <1>2, <2>1, <2>3, <2>4, <2>5, IdleType, OnlyWorkerKeeps
<1>. QED BY <1>3, <1>4, <1>5, <1>6 DEF Drain

\* A node writes the state of one row, and of one attempt of it.
LEMMA NodeStepMoves ==
  ASSUME IInv, NEW t \in Task, NodeStep(t)
  PROVE  \E state \in States, a \in {row[t].attempt} :
           /\ row' = [row EXCEPT ![t].state = state]
           /\ ledger' = [ledger EXCEPT ![t][a].state = state]
           /\ taken' \in {taken, [taken EXCEPT ![t] = row[t].attempt]}
           /\ UNCHANGED <<lease, held, outbox, commands, job, calls, faults>>
<1>1. "RUNNING" \in States /\ "CANCELLING" \in States /\ Finals \subseteq States
  BY SchedulerAssumption DEF States, Active
<1>2. CASE Take(t)
  <2>1. PICK state \in {"RUNNING", "CANCELLING"} :
           /\ row' = [row EXCEPT ![t].state = state]
           /\ ledger' = [ledger EXCEPT ![t][row[t].attempt].state = state]
           /\ taken' = [taken EXCEPT ![t] = row[t].attempt]
           /\ UNCHANGED <<lease, held, outbox, commands, job, calls, faults>>
    BY <1>2 DEF Take
  <2>. QED BY <1>1, <2>1
<1>3. ASSUME NEW final \in Finals, Settle(t, final) PROVE row' = [row EXCEPT ![t].state = final]
        /\ ledger' = [ledger EXCEPT ![t][row[t].attempt].state = final] /\ taken' = taken
        /\ UNCHANGED <<lease, held, outbox, commands, job, calls, faults>>
  BY <1>3 DEF Settle
<1>4. ASSUME NEW final \in Finals, NEW a \in 0..Len(outbox[t]), Report(t, a, final)
      PROVE  row' = [row EXCEPT ![t].state = final]
        /\ ledger' = [ledger EXCEPT ![t][row[t].attempt].state = final] /\ taken' = taken
        /\ UNCHANGED <<lease, held, outbox, commands, job, calls, faults>>
  BY <1>4 DEF Report
<1>. QED BY <1>1, <1>2, <1>3, <1>4 DEF NodeStep

LEMMA NodeStepKeeps == ASSUME IInv, NEW t \in Task, NodeStep(t) PROVE IInv'
<1>1. PICK state \in States, a \in {row[t].attempt} :
           /\ row' = [row EXCEPT ![t].state = state]
           /\ ledger' = [ledger EXCEPT ![t][a].state = state]
           /\ taken' \in {taken, [taken EXCEPT ![t] = row[t].attempt]}
           /\ UNCHANGED <<lease, held, outbox, commands, job, calls, faults>>
  BY NodeStepMoves
<1>2. TablesHold /\ LeasesHold
  BY PartsOf
<1>3. /\ row' \in [Task -> [state : States, attempt : Nat, node : Node \cup {NoNode}, token : Nat]]
      /\ LedgerIsATable'
  BY <1>1, <1>2, StateType DEF LedgerIsATable
<1>4. taken' \in [Task -> Nat]
  BY <1>1, <1>2 DEF TablesHold
<1>5. CarriedIsFinite'
  BY <1>1, <1>2, OneRowMoves DEF TablesHold
<1>6. TablesHold' /\ LeasesHold'
  BY <1>1, <1>2, <1>3, <1>4, <1>5 DEF TablesHold, LeasesHold
<1>7. job' \in [Worker -> Job] /\ JobsHold'
  BY <1>1, LeaseMoves
<1>. QED BY <1>1, <1>6, <1>7, Untouched, PartsAfter

LEMMA NextIInv == IInv /\ [Next]_vars => IInv'
<1>. SUFFICES ASSUME IInv, [Next]_vars PROVE IInv'
  OBVIOUS
<1>1. CASE UNCHANGED vars
  <2>1. UNCHANGED <<lease, held, tables, commands, calls, faults>> /\ job' = job
    BY <1>1 DEF vars
  <2>2. LeasesHold' /\ job' \in [Worker -> Job] /\ JobsHold'
    BY <2>1, PartsOf, LeaseMoves DEF LeasesHold
  <2>. QED BY <2>1, <2>2, Untouched, PartsAfter
<1>2. ASSUME NEW s \in Scope, Expire(s) \/ \E i \in Instance : Elect(i, s) PROVE IInv'
  BY <1>2, ExpireKeeps, ElectKeeps
<1>3. ASSUME NEW i \in Instance, Drain(i) \/ Crash(i) \/ Shutdown(i) PROVE IInv'
  BY <1>3, DrainKeeps, DieKeeps
<1>4. ASSUME NEW r \in Request, Call(r) PROVE IInv'
  BY <1>4, CancelKeeps, ReceiveKeeps, PlanKeeps, QueueKeeps, FindVictimKeeps,
     RecordIntentKeeps, StopAckedKeeps, StopFailedKeeps, ConfirmKeeps DEF Call, Stop
<1>5. ASSUME NEW w \in Worker, Place(w) PROVE IInv'
  BY <1>5, FenceKeeps, InspectKeeps, GateKeeps, WriteKeeps DEF Place
<1>6. ASSUME NEW t \in Task, NodeStep(t) PROVE IInv'
  BY <1>6, NodeStepKeeps
<1>. QED BY <1>1, <1>2, <1>3, <1>4, <1>5, <1>6 DEF Next

THEOREM Invariance == Spec => []IInv
BY InitIInv, NextIInv, PTL DEF Spec

\* Every table of the scheduler has its type, for any number of instances,
\* tasks, nodes and calls.
THEOREM TypeCorrect == Spec => []TypeOK
<1>1. IInv => TypeOK
  BY DEF IInv
<1>. QED BY <1>1, Invariance, PTL

-----------------------------------------------------------------------------
(* Who writes what *)

\* Dispatches are written by the commit of a placement alone.
LEMMA WhoDispatches ==
  ASSUME [Next]_vars, outbox' # outbox
  PROVE  \E w \in Worker : Write(w)
<1>1. Next
  BY DEF vars, tables
<1>. USE DEF tables, commands
<1>2. ASSUME NEW s \in Scope, Expire(s) \/ \E i \in Instance : Elect(i, s) PROVE FALSE
  BY <1>2 DEF Expire, Elect, Acquire, AcquireUnseen, NotAcquired
<1>3. ASSUME NEW i \in Instance, Drain(i) \/ Crash(i) \/ Shutdown(i) PROVE FALSE
  BY <1>3 DEF Drain, DrainTick, DrainList, DrainPick, Panic, Crash, Shutdown, Gone
<1>4. ASSUME NEW r \in Request, Call(r) PROVE FALSE
  BY <1>4 DEF Call, Cancel, Receive, Plan, Queue, FindVictim, Stop, RecordIntent, StopAcked, StopFailed, Confirm
<1>5. ASSUME NEW w \in Worker, Fence(w) \/ Inspect(w) \/ Gate(w) PROVE FALSE
  BY <1>5 DEF Fence, Inspect, Gate
<1>6. ASSUME NEW t \in Task, NodeStep(t) PROVE FALSE
  BY <1>6 DEF NodeStep, Take, Settle, Report
<1>. QED BY <1>1, <1>2, <1>3, <1>4, <1>5, <1>6 DEF Next, Place

\* Commands are written by the stop protocol alone.
LEMMA WhoCommands ==
  ASSUME [Next]_vars, cmd' # cmd
  PROVE  \E r \in Request : RecordIntent(r) \/ StopFailed(r) \/ Confirm(r)
<1>1. Next
  BY DEF vars, commands
<1>. USE DEF tables, commands
<1>2. ASSUME NEW s \in Scope, Expire(s) \/ \E i \in Instance : Elect(i, s) PROVE FALSE
  BY <1>2 DEF Expire, Elect, Acquire, AcquireUnseen, NotAcquired
<1>3. ASSUME NEW i \in Instance, Drain(i) \/ Crash(i) \/ Shutdown(i) PROVE FALSE
  BY <1>3 DEF Drain, DrainTick, DrainList, DrainPick, Panic, Crash, Shutdown, Gone
<1>4. ASSUME NEW r \in Request, Call(r) PROVE RecordIntent(r) \/ StopFailed(r) \/ Confirm(r)
  BY <1>4 DEF Call, Cancel, Receive, Plan, Queue, FindVictim, Stop, StopAcked
<1>5. ASSUME NEW w \in Worker, Place(w) PROVE FALSE
  BY <1>5 DEF Place, Fence, Inspect, Gate, Write
<1>6. ASSUME NEW t \in Task, NodeStep(t) PROVE FALSE
  BY <1>6 DEF NodeStep, Take, Settle, Report
<1>. QED BY <1>1, <1>2, <1>3, <1>4, <1>5, <1>6 DEF Next

\* Rows are written by the commits of placements and queueings, by the
\* confirmation of a stop and by the nodes.
LEMMA WhoWrites ==
  ASSUME [Next]_vars, <<row, ledger, taken>>' # <<row, ledger, taken>>
  PROVE  \/ \E w \in Worker : Write(w)
         \/ \E r \in Request : Queue(r) \/ Confirm(r)
         \/ \E t \in Task : NodeStep(t)
<1>1. Next
  BY DEF vars, tables
<1>. USE DEF tables, commands
<1>2. ASSUME NEW s \in Scope, Expire(s) \/ \E i \in Instance : Elect(i, s) PROVE FALSE
  BY <1>2 DEF Expire, Elect, Acquire, AcquireUnseen, NotAcquired
<1>3. ASSUME NEW i \in Instance, Drain(i) \/ Crash(i) \/ Shutdown(i) PROVE FALSE
  BY <1>3 DEF Drain, DrainTick, DrainList, DrainPick, Panic, Crash, Shutdown, Gone
<1>4. ASSUME NEW r \in Request, Call(r) PROVE Queue(r) \/ Confirm(r)
  BY <1>4 DEF Call, Cancel, Receive, Plan, FindVictim, Stop, RecordIntent, StopAcked, StopFailed
<1>5. ASSUME NEW w \in Worker, Fence(w) \/ Inspect(w) \/ Gate(w) PROVE FALSE
  BY <1>5 DEF Fence, Inspect, Gate
<1>. QED BY <1>1, <1>2, <1>3, <1>4, <1>5 DEF Next, Place

-----------------------------------------------------------------------------
(* Fencing, and the record of stops *)

LEMMA WriteIsFenced ==
  ASSUME IInv, NEW w \in Worker, Write(w), NEW t \in Task, Len(outbox'[t]) # Len(outbox[t])
  PROVE  /\ Placing(w, t)
         /\ lease[job[w].scope].holder = job[w].inst
         /\ lease[job[w].scope].token = row'[t].token
<1>1. /\ job[w].pc = "write" /\ Step(w, Left(w, TRUE)) /\ job[w].task \in Task
      /\ row' = [row EXCEPT ![job[w].task] = [state |-> "PLACED", attempt |-> job[w].attempt,
                                              node |-> job[w].node, token |-> job[w].token]]
  BY JobType DEF Write, Busy
<1>2. t = job[w].task
  BY <1>1, PartsOf DEF Write, TablesHold
<1>3. row'[t].state = "PLACED" /\ row'[t].token = job[w].token
  BY <1>1, <1>2, PartsOf DEF TablesHold
<1>4. job'[w].pc # "write"
  <2>1. job'[w] = Left(w, TRUE)
    BY <1>1, PartsOf DEF Step
  <2>. QED BY <1>1, <2>1, LeftType
<1>5. lease[job[w].scope].holder = job[w].inst /\ lease[job[w].scope].token = job[w].token
  BY <1>1 DEF IInv, InsideIsFenced, Inside
<1>. QED BY <1>1, <1>2, <1>3, <1>4, <1>5 DEF Placing

\* Fencing (checkFencing): whatever expires, is taken over or restarts between
\* decision and commit, every placement commits under the lease it was decided
\* under, whichever leases the instances use.
THEOREM PlacesUnderCurrentLease == Spec => PlacedUnderCurrentLease
<1>1. ASSUME IInv, [Next]_vars, NEW t \in Task, Len(outbox'[t]) # Len(outbox[t])
      PROVE  \E w \in Worker : /\ Placing(w, t)
                               /\ lease[job[w].scope].holder = job[w].inst
                               /\ lease[job[w].scope].token = row'[t].token
  <2>1. PICK w \in Worker : Write(w)
    BY <1>1, WhoDispatches
  <2>. QED BY <1>1, <2>1, WriteIsFenced
<1>2. IInv /\ [Next]_vars =>
        [\A t \in Task : Len(outbox'[t]) # Len(outbox[t]) =>
            \E w \in Worker : /\ Placing(w, t)
                              /\ lease[job[w].scope].holder = job[w].inst
                              /\ lease[job[w].scope].token = row'[t].token]_vars
  BY <1>1
<1>. QED BY <1>2, Invariance, PTL DEF Spec, PlacedUnderCurrentLease

\* A stop that was acknowledged for the active attempt does not look
\* undelivered again (recordStopIntent, markStopDeliveryFailed).
THEOREM AcknowledgementsStay == Spec => AcknowledgedStays
<1>1. ASSUME IInv, [Next]_vars, NEW t \in Task, NEW k \in StopKinds,
             cmd[t][k].status = "ACKNOWLEDGED", row'[t].attempt = cmd[t][k].attempt
      PROVE  cmd'[t][k].status = "ACKNOWLEDGED"
  <2>1. CASE cmd' = cmd
    BY <1>1, <2>1
  <2>2. CASE cmd' # cmd
    <3>1. PICK r \in Request : RecordIntent(r) \/ StopFailed(r) \/ Confirm(r)
      BY <1>1, <2>2, WhoCommands
    <3>2. cmd \in [Task -> [StopKinds -> CommandRow]]
      BY <1>1, PartsOf DEF CommandsHold, CommandRow
    <3>3. cmd[t][k] \in CommandRow
      BY <3>2
    <3>4. CASE RecordIntent(r)
      <4>1. row' = row /\ cmd' = [cmd EXCEPT ![job[r].task][job[r].kind] = Command(job[r].task, job[r].kind)]
        BY <2>2, <3>4 DEF RecordIntent, tables
      <4>2. CASE t = job[r].task /\ k = job[r].kind
        <5>1. cmd'[t][k] = Command(t, k)
          BY <3>2, <4>1, <4>2
        <5>. QED BY <1>1, <4>1, <5>1 DEF Command
      <4>3. CASE ~(t = job[r].task /\ k = job[r].kind)
        BY <1>1, <3>2, <4>1, <4>3
      <4>. QED BY <4>2, <4>3
    <3>5. CASE StopFailed(r)
      <4>1. cmd' = [cmd EXCEPT ![job[r].task][job[r].kind].status = IF @ = "ACKNOWLEDGED" THEN @ ELSE "FAILED"]
        BY <3>5 DEF StopFailed
      <4>. QED BY <1>1, <3>2, <3>3, <4>1 DEF CommandRow
    <3>6. CASE Confirm(r)
      <4>1. cmd' = [cmd EXCEPT ![job[r].task][job[r].kind].status = "ACKNOWLEDGED"]
        BY <2>2, <3>6 DEF Confirm
      <4>. QED BY <1>1, <3>2, <3>3, <4>1 DEF CommandRow
    <3>. QED BY <3>1, <3>4, <3>5, <3>6
  <2>. QED BY <2>1, <2>2
<1>2. IInv /\ [Next]_vars =>
        [\A t \in Task, k \in StopKinds :
           cmd[t][k].status = "ACKNOWLEDGED" /\ row'[t].attempt = cmd[t][k].attempt
             => cmd'[t][k].status = "ACKNOWLEDGED"]_vars
  BY <1>1
<1>. QED BY <1>2, Invariance, PTL DEF Spec, AcknowledgedStays

\* What the stop record shows of a task.
OnRecord(t) ==
  row[t].state = "CANCELLING" =>
    \E k \in StopKinds : /\ cmd[t][k].attempt = row[t].attempt
                         /\ cmd[t][k].status = "ACKNOWLEDGED" \/ (t \in Governed /\ taken[t] = row[t].attempt)

\* A command keeps showing its stop while its attempt lasts.
LEMMA CommandsStay ==
  ASSUME IInv, [Next]_vars, NEW t \in Task, NEW k \in StopKinds,
         cmd[t][k].attempt = row[t].attempt, row'[t].attempt = row[t].attempt
  PROVE  /\ cmd'[t][k].attempt = row'[t].attempt
         /\ cmd[t][k].status = "ACKNOWLEDGED" => cmd'[t][k].status = "ACKNOWLEDGED"
<1>1. CASE cmd' = cmd
  BY <1>1
<1>2. CASE cmd' # cmd
  <2>1. PICK r \in Request : RecordIntent(r) \/ StopFailed(r) \/ Confirm(r)
    BY <1>2, WhoCommands
  <2>. DEFINE u == job[r].task
              v == job[r].kind
  <2>2. cmd \in [Task -> [StopKinds -> CommandRow]] /\ u \in Task /\ v \in StopKinds
    BY <2>1, PartsOf, JobType DEF CommandsHold, CommandRow, Worker, Busy, RecordIntent, StopFailed, Confirm
  <2>3. cmd[t][k] \in CommandRow
    BY <2>2
  <2>4. CASE RecordIntent(r)
    <3>1. cmd' = [cmd EXCEPT ![u][v] = Command(u, v)]
      BY <1>2, <2>4 DEF RecordIntent
    <3>2. CASE t = u /\ k = v
      <4>1. cmd'[t][k] = Command(t, k)
        BY <2>2, <3>1, <3>2
      <4>. QED BY <4>1 DEF Command
    <3>3. CASE ~(t = u /\ k = v)
      BY <2>2, <3>1, <3>3
    <3>. QED BY <3>2, <3>3
  <2>5. CASE StopFailed(r)
    <3>1. cmd' = [cmd EXCEPT ![u][v].status = IF @ = "ACKNOWLEDGED" THEN @ ELSE "FAILED"]
      BY <2>5 DEF StopFailed
    <3>. QED BY <2>2, <2>3, <3>1 DEF CommandRow
  <2>6. CASE Confirm(r)
    <3>1. cmd' = [cmd EXCEPT ![u][v].status = "ACKNOWLEDGED"]
      BY <1>2, <2>6 DEF Confirm
    <3>. QED BY <2>2, <2>3, <3>1 DEF CommandRow
  <2>. QED BY <2>1, <2>4, <2>5, <2>6
<1>. QED BY <1>1, <1>2

LEMMA RecordKept ==
  ASSUME IInv, [Next]_vars, NEW t \in Task, OnRecord(t)
  PROVE  OnRecord(t)'
<1>. SUFFICES ASSUME row'[t].state = "CANCELLING"
     PROVE  \E k \in StopKinds : /\ cmd'[t][k].attempt = row'[t].attempt
                                 /\ \/ cmd'[t][k].status = "ACKNOWLEDGED"
                                    \/ t \in Governed /\ taken'[t] = row'[t].attempt
  BY DEF OnRecord
<1>1. ASSUME row'[t] = row[t], taken'[t] = taken[t] PROVE OnRecord(t)'
  <2>1. PICK k \in StopKinds : /\ cmd[t][k].attempt = row[t].attempt
                               /\ cmd[t][k].status = "ACKNOWLEDGED" \/ (t \in Governed /\ taken[t] = row[t].attempt)
    BY <1>1 DEF OnRecord
  <2>. QED BY <1>1, <2>1, CommandsStay DEF OnRecord
<1>2. CASE UNCHANGED <<row, ledger, taken>>
  BY <1>1, <1>2 DEF OnRecord
<1>3. ASSUME NEW w \in Worker, Write(w) PROVE OnRecord(t)'
  <2>1. row' = [row EXCEPT ![job[w].task] = [state |-> "PLACED", attempt |-> job[w].attempt,
                                              node |-> job[w].node, token |-> job[w].token]] /\ taken' = taken
    BY <1>3 DEF Write
  <2>2. t # job[w].task
    BY <2>1, PartsOf DEF TablesHold
  <2>. QED BY <1>1, <2>1, <2>2
<1>4. ASSUME NEW r \in Request, Queue(r) PROVE OnRecord(t)'
  <2>1. /\ row' \in {row, [row EXCEPT ![job[r].task] = Queued(job[r].task, job[r].token)]} /\ taken' = taken
    BY <1>4 DEF Queue
  <2>2. row[t] \in [state : States, attempt : Nat, node : Node \cup {NoNode}, token : Nat]
        /\ row \in [Task -> [state : States, attempt : Nat, node : Node \cup {NoNode}, token : Nat]]
    BY PartsOf DEF TablesHold
  <2>3. CASE t = job[r].task /\ row' # row
    <3>1. row'[t] = Queued(t, job[r].token)
      BY <2>1, <2>2, <2>3
    <3>2. row'[t] = row[t]
      BY <2>2, <3>1 DEF Queued
    <3>. QED BY <1>1, <2>1, <3>2
  <2>4. CASE t # job[r].task \/ row' = row
    <3>1. row'[t] = row[t]
      BY <2>1, <2>2, <2>4
    <3>. QED BY <1>1, <2>1, <3>1
  <2>. QED BY <2>3, <2>4
<1>5. ASSUME NEW r \in Request, Confirm(r) PROVE OnRecord(t)'
  <2>. DEFINE u == job[r].task
              k == job[r].kind
  <2>1. u \in Task /\ k \in StopKinds /\ taken' = taken
    BY <1>5, JobType DEF Confirm, Worker, Busy
  <2>2. \/ /\ cmd[u][k].attempt = row[u].attempt
           /\ row' = [row EXCEPT ![u].state = Stopping(row[u].state)]
           /\ cmd' = [cmd EXCEPT ![u][k].status = "ACKNOWLEDGED"]
        \/ row' = row
    BY <1>5 DEF Confirm
  <2>3. CASE t = u /\ row' # row
    <3>1. cmd \in [Task -> [StopKinds -> CommandRow]] /\ cmd[t][k] \in CommandRow
      BY <2>1, PartsOf DEF CommandsHold, CommandRow
    <3>4. cmd' = [cmd EXCEPT ![t][k].status = "ACKNOWLEDGED"] /\ cmd[t][k].attempt = row[t].attempt
      BY <2>2, <2>3
    <3>5. row' = [row EXCEPT ![t].state = Stopping(row[t].state)]
      BY <2>2, <2>3
    <3>. HIDE DEF k
    <3>2. cmd'[t][k].attempt = cmd[t][k].attempt /\ cmd'[t][k].status = "ACKNOWLEDGED"
      BY <2>1, <3>1, <3>4 DEF CommandRow
    <3>3. row'[t].attempt = row[t].attempt
      BY <3>5, PartsOf DEF TablesHold
    <3>. QED BY <2>1, <3>2, <3>3, <3>4 DEF OnRecord
  <2>4. CASE t # u \/ row' = row
    <3>2. row \in [Task -> [state : States, attempt : Nat, node : Node \cup {NoNode}, token : Nat]]
      BY PartsOf DEF TablesHold
    <3>. HIDE DEF u
    <3>1. row'[t] = row[t]
      BY <2>1, <2>2, <2>4, <3>2
    <3>. QED BY <1>1, <2>1, <3>1
  <2>. QED BY <2>3, <2>4
<1>6. ASSUME NEW u \in Task, NodeStep(u) PROVE OnRecord(t)'
  <2>1. PICK state \in States, a \in {row[u].attempt} :
           /\ row' = [row EXCEPT ![u].state = state]
           /\ taken' \in {taken, [taken EXCEPT ![u] = row[u].attempt]}
           /\ UNCHANGED commands
    BY <1>6, NodeStepMoves
  <2>2. CASE t # u
    <3>1. row'[t] = row[t] /\ taken'[t] = taken[t]
      BY <2>1, <2>2, PartsOf DEF TablesHold
    <3>. QED BY <1>1, <3>1
  <2>3. CASE t = u
    <3>1. row'[t].attempt = row[t].attempt /\ cmd' = cmd
      BY <2>1, <2>3, PartsOf DEF TablesHold, commands
    <3>2. CASE Take(t)
      <4>1. t \in Governed /\ taken'[t] = row[t].attempt
        BY <2>3, <3>2, PartsOf DEF Take, TablesHold
      <4>2. \E k \in StopKinds : cmd[t][k].attempt = row[t].attempt
        <5>1. row[t].state = "CANCELLING" \/ StopAsked(t)
          BY <3>2, PartsOf DEF Take, TablesHold
        <5>. QED BY <5>1 DEF OnRecord, StopAsked
      <4>. QED BY <3>1, <4>1, <4>2 DEF OnRecord
    <3>3. CASE ~Take(t)
      <4>1. PICK final \in Finals : row' = [row EXCEPT ![t].state = final]
        BY <1>6, <2>3, <3>3 DEF NodeStep, Settle, Report
      <4>2. row'[t].state = final
        BY <4>1, PartsOf DEF TablesHold
      <4>. QED BY <4>2, SchedulerAssumption DEF Terminal
    <3>. QED BY <3>2, <3>3
  <2>. QED BY <2>2, <2>3
<1>. QED BY <1>2, <1>3, <1>4, <1>5, <1>6, WhoWrites DEF OnRecord

\* A task is CANCELLING only on the record of a stop of that very attempt
\* (requestStop, the runtime's take).
THEOREM CancelsOnRecord == Spec => []CancellingOnRecord
<1>1. Init => CancellingOnRecord
  BY FirstRows DEF CancellingOnRecord
<1>2. IInv /\ CancellingOnRecord /\ [Next]_vars => CancellingOnRecord'
  BY RecordKept DEF CancellingOnRecord, OnRecord
<1>. QED BY <1>1, <1>2, Invariance, PTL DEF Spec

-----------------------------------------------------------------------------
(* The slots, the ledger and the tokens, under one lease *)

Row == [state : States, attempt : Nat, node : Node \cup {NoNode}, token : Nat]

\* What is in the tables.
LEMMA TableTypes ==
  ASSUME IInv
  PROVE  /\ row \in [Task -> Row] /\ lease[Global].token \in Nat /\ Capacity \in [Node -> Nat \ {0}]
         /\ \A t \in Task : \A a \in DOMAIN ledger[t] : a \in Nat /\ ledger[t][a] \in Entry
         /\ \A n \in Node : Used(n) \in Nat
<1>1. row \in [Task -> Row] /\ lease[Global].token \in Nat
  BY PartsOf DEF TablesHold, LeasesHold, Row, Scope
<1>2. \A t \in Task : \A a \in DOMAIN ledger[t] : a \in Nat /\ ledger[t][a] \in Entry
  BY LedgerType DEF IInv
<1>3. \A n \in Node : Used(n) \in Nat
  BY UsedType, PartsOf
<1>. QED BY <1>1, <1>2, <1>3, SchedulerAssumption

LEMMA UsedTypeAfter == ASSUME IInv', NEW n \in Node PROVE Used(n)' \in Nat
<1>1. IsFiniteSet(Carried(n)') /\ Used(n)' = Cardinality(Carried(n)')
  BY DEF IInv, CarriedIsFinite, Used, Carried
<1>. QED BY <1>1, FS_CardinalityType

\* A task that is not active before or after takes no slot: the slots in use
\* do not grow when no task becomes active.
LEMMA UsedShrinks ==
  ASSUME IInv, IInv', NEW n \in Node, Carried(n)' \subseteq Carried(n)
  PROVE  Used(n)' \in Nat /\ Used(n) \in Nat /\ Used(n)' <= Used(n)
<1>1. IsFiniteSet(Carried(n)) /\ Used(n) = Cardinality(Carried(n)) /\ Used(n) \in Nat
  BY UsedType, PartsOf DEF TablesHold, CarriedIsFinite
<1>2. Used(n)' = Cardinality(Carried(n)')
  BY DEF Used, Carried
<1>. QED BY <1>1, <1>2, FS_Subset, FS_CardinalityType

\* Rows and attempts left alone, under a lease whose token does not go back.
LEMMA TablesKept ==
  ASSUME IInv, IInv', TablesOne, row' = row, ledger' = ledger,
         lease'[Global].token >= lease[Global].token
  PROVE  TablesOne' /\ \A n \in Node : Used(n)' <= Used(n)
<1>1. \A n \in Node : Used(n)' <= Used(n)
  <2>. SUFFICES ASSUME NEW n \in Node PROVE Carried(n)' \subseteq Carried(n)
    BY UsedShrinks
  <2>. QED BY DEF Carried
<1>2. NoOvercommit'
  <2>1. \A n \in Node : Used(n)' \in Nat /\ Used(n) \in Nat /\ Capacity[n] \in Nat
    BY TableTypes, UsedShrinks DEF Carried
  <2>. QED BY <1>1, <2>1 DEF TablesOne, NoOvercommit
<1>3. TokensAreIssued'
  <2>. SUFFICES ASSUME NEW t \in Task, NEW a \in DOMAIN ledger[t]
       PROVE  ledger[t][a].token <= lease'[Global].token
    BY DEF TokensAreIssued
  <2>1. ledger[t][a].token \in Nat /\ lease[Global].token \in Nat /\ lease'[Global].token \in Nat
    <3>1. lease'[Global].token \in Nat
      BY DEF IInv, TypeOK, Scope
    <3>. QED BY <3>1, TableTypes DEF Entry
  <2>. QED BY <2>1 DEF TablesOne, TokensAreIssued
<1>. QED BY <1>1, <1>2, <1>3 DEF TablesOne, LedgerIsWhole, LedgerFollows, TokensFollowAttempts

\* A row changes its state within an attempt, and the ledger follows: no slot
\* is taken and no attempt opened.
StateMove(t, new) ==
  /\ row' = [row EXCEPT ![t] = new] /\ lease' = lease /\ new.attempt = row[t].attempt
  /\ new.state \in Active => row[t].state \in Active /\ new.node = row[t].node /\ new.token = row[t].token
  /\ \/ ledger' = ledger /\ (row[t].state \notin Active \/ new = row[t])
     \/ /\ row[t].state \in Active /\ new.state \in Active \cup Terminal
        /\ ledger' = [ledger EXCEPT ![t][row[t].attempt].state = new.state]

\* The attempts of a task after such a step.
LEMMA LedgerMoves ==
  ASSUME IInv, TablesOne, NEW t \in Task, NEW new \in Row, StateMove(t, new), NEW u \in Task
  PROVE  /\ row'[u].attempt = row[u].attempt /\ DOMAIN ledger'[u] = DOMAIN ledger[u]
         /\ \A a \in DOMAIN ledger[u] : /\ ledger'[u][a].token = ledger[u][a].token
                                        /\ ledger'[u][a].node = ledger[u][a].node
                                        /\ ledger'[u][a] # ledger[u][a] =>
                                             /\ u = t /\ row[t].state \in Active /\ a = row[t].attempt
         /\ \/ ledger' = ledger /\ (row[t].state \notin Active \/ new = row[t])
            \/ /\ row[t].state \in Active /\ new.state \in Active \cup Terminal
               /\ ledger'[t][row[t].attempt].state = new.state
<1>. DEFINE a0 == row[t].attempt
<1>1. row \in [Task -> Row] /\ ledger \in [Task -> UNION {[D -> Entry] : D \in SUBSET Nat}]
  BY TableTypes DEF IInv, LedgerIsATable
<1>2. row' = [row EXCEPT ![t] = new] /\ new.attempt = row[t].attempt
  BY DEF StateMove
<1>3. row'[u].attempt = row[u].attempt
  BY <1>1, <1>2
<1>4. CASE ledger' = ledger /\ (row[t].state \notin Active \/ new = row[t])
  BY <1>3, <1>4
<1>5. CASE /\ row[t].state \in Active /\ new.state \in Active \cup Terminal
           /\ ledger' = [ledger EXCEPT ![t][a0].state = new.state]
  <2>1. a0 \in DOMAIN ledger[t]
    <3>1. a0 \in Nat /\ DOMAIN ledger[t] = 1..a0 /\ a0 # 0
      BY <1>1, <1>5 DEF TablesOne, LedgerIsWhole, Row
    <3>. QED BY <3>1
  <2>2. PICK D \in SUBSET Nat : ledger[t] \in [D -> Entry]
    BY <1>1
  <2>. DEFINE e == [ledger[t][a0] EXCEPT !.state = new.state]
              f == [ledger[t] EXCEPT ![a0] = e]
  <2>3. ledger' = [ledger EXCEPT ![t] = f]
    BY <1>5
  <2>4. ledger[t][a0] \in Entry
    BY <2>1, <2>2
  <2>5. e.state = new.state /\ e.token = ledger[t][a0].token /\ e.node = ledger[t][a0].node
    BY <2>4 DEF Entry
  <2>. HIDE DEF e
  <2>6. /\ DOMAIN f = DOMAIN ledger[t] /\ f[a0] = e
        /\ \A a \in DOMAIN ledger[t] : a # a0 => f[a] = ledger[t][a]
    BY <2>1, <2>2
  <2>. HIDE DEF f, a0
  <2>7. ledger'[t] = f /\ (u # t => ledger'[u] = ledger[u])
    BY <1>1, <2>3
  <2>8. ledger'[t][a0].state = new.state
    BY <2>5, <2>6, <2>7
  <2>9. /\ DOMAIN ledger'[u] = DOMAIN ledger[u]
        /\ \A a \in DOMAIN ledger[u] : /\ ledger'[u][a].token = ledger[u][a].token
                                       /\ ledger'[u][a].node = ledger[u][a].node
                                       /\ ledger'[u][a] # ledger[u][a] => u = t /\ a = a0
    BY <2>5, <2>6, <2>7
  <2>. QED BY <1>3, <1>5, <2>8, <2>9 DEF a0
<1>. QED BY <1>4, <1>5 DEF StateMove

LEMMA StateMoves ==
  ASSUME IInv, IInv', TablesOne, NEW t \in Task, NEW new \in Row, StateMove(t, new)
  PROVE  TablesOne' /\ \A n \in Node : Used(n)' <= Used(n)
<1>1. row \in [Task -> Row] /\ row' = [row EXCEPT ![t] = new] /\ lease' = lease
  BY TableTypes DEF StateMove
<1>2. \A n \in Node : Used(n)' <= Used(n)
  <2>. SUFFICES ASSUME NEW n \in Node, NEW u \in Carried(n)' PROVE u \in Carried(n)
    BY UsedShrinks
  <2>1. u \in Task /\ row'[u].node = n /\ row'[u].state \in Active
    BY DEF Carried
  <2>2. CASE u = t
    BY <1>1, <2>1, <2>2 DEF StateMove, Carried
  <2>3. CASE u # t
    BY <1>1, <2>1, <2>3 DEF Carried
  <2>. QED BY <2>2, <2>3
<1>3. NoOvercommit'
  <2>. SUFFICES ASSUME NEW n \in Node PROVE Used(n)' <= Capacity[n]
    BY DEF NoOvercommit
  <2>1. Used(n)' \in Nat
    BY UsedTypeAfter
  <2>2. Used(n) \in Nat /\ Capacity[n] \in Nat /\ Used(n) <= Capacity[n]
    BY TableTypes DEF TablesOne, NoOvercommit
  <2>. QED BY <1>2, <2>1, <2>2
<1>4. LedgerIsWhole'
  <2>. SUFFICES ASSUME NEW u \in Task
       PROVE  DOMAIN ledger'[u] = 1..row'[u].attempt /\ (row'[u].state \in Active => row'[u].attempt # 0)
    BY DEF LedgerIsWhole
  <2>1. row'[u].attempt = row[u].attempt /\ DOMAIN ledger'[u] = DOMAIN ledger[u]
    BY LedgerMoves
  <2>2. row'[u].state \in Active => row[u].state \in Active
    BY <1>1 DEF StateMove
  <2>. QED BY <2>1, <2>2 DEF TablesOne, LedgerIsWhole
<1>5. LedgerFollows'
  <2>. SUFFICES ASSUME NEW u \in Task
       PROVE /\ row'[u].state \in Active =>
                ledger'[u][row'[u].attempt] = [state |-> row'[u].state, node |-> row'[u].node, token |-> row'[u].token]
             /\ \A a \in DOMAIN ledger'[u] :
                  a < row'[u].attempt \/ row'[u].state \notin Active => ledger'[u][a].state \in Terminal
    BY DEF LedgerFollows
  <2>. DEFINE a0 == row[u].attempt
  <2>1. /\ row'[u].attempt = a0 /\ DOMAIN ledger'[u] = DOMAIN ledger[u]
        /\ \A a \in DOMAIN ledger[u] : /\ ledger'[u][a].token = ledger[u][a].token
                                       /\ ledger'[u][a].node = ledger[u][a].node
                                       /\ ledger'[u][a] # ledger[u][a] =>
                                             /\ u = t /\ row[t].state \in Active /\ a = row[t].attempt
        /\ \/ ledger' = ledger /\ (row[t].state \notin Active \/ new = row[t])
           \/ /\ row[t].state \in Active /\ new.state \in Active \cup Terminal
              /\ ledger'[t][row[t].attempt].state = new.state
    BY LedgerMoves
  <2>2. /\ row[u].state \in Active =>
             /\ a0 \in DOMAIN ledger[u]
             /\ ledger[u][a0] = [state |-> row[u].state, node |-> row[u].node, token |-> row[u].token]
        /\ \A a \in DOMAIN ledger[u] : a < a0 \/ row[u].state \notin Active => ledger[u][a].state \in Terminal
        /\ a0 \in Nat /\ DOMAIN ledger[u] = 1..a0
    <3>1. a0 \in Nat
      BY <1>1 DEF Row
    <3>2. DOMAIN ledger[u] = 1..a0 /\ (row[u].state \in Active => a0 # 0)
      BY DEF TablesOne, LedgerIsWhole
    <3>. QED BY <3>1, <3>2 DEF TablesOne, LedgerFollows
  <2>3. CASE row'[u] = row[u] /\ ledger'[u] = ledger[u]
    BY <2>2, <2>3
  <2>4. CASE ~(row'[u] = row[u] /\ ledger'[u] = ledger[u])
    <3>1. u = t
      <4>1. ASSUME u # t PROVE FALSE
        <5>1. row'[u] = row[u]
          BY <1>1, <4>1
        <5>2. ledger'[u] = ledger[u]
          BY <4>1, PartsOf DEF StateMove, TablesHold, LedgerIsATable
        <5>. QED BY <2>4, <5>1, <5>2
      <4>. QED BY <4>1
    <3>2. row'[t] = new
      BY <1>1
    <3>3. CASE ledger' = ledger /\ (row[t].state \notin Active \/ new = row[t])
      <4>1. row[t].state \notin Active /\ new.state \notin Active
        BY <2>4, <3>1, <3>2, <3>3 DEF StateMove
      <4>. QED BY <2>1, <2>2, <3>1, <3>2, <3>3, <4>1
    <3>4. CASE /\ row[t].state \in Active /\ new.state \in Active \cup Terminal
               /\ ledger'[t][row[t].attempt].state = new.state
      <4>1. ledger'[t][a0].state = new.state /\ a0 = row[t].attempt /\ a0 \in DOMAIN ledger[t]
        BY <2>2, <3>1, <3>4
      <4>2. new.state \in Active =>
              ledger'[t][a0] = [state |-> new.state, node |-> new.node, token |-> new.token]
        <5>1. ledger'[t][a0] \in Entry
          BY <2>1, <3>1, <4>1 DEF IInv, TypeOK
        <5>2. /\ ledger'[t][a0].node = ledger[t][a0].node /\ ledger'[t][a0].token = ledger[t][a0].token
              /\ ledger[t][a0] = [state |-> row[t].state, node |-> row[t].node, token |-> row[t].token]
          BY <2>1, <2>2, <3>1, <3>4, <4>1
        <5>. QED BY <4>1, <5>1, <5>2 DEF Entry, StateMove
      <4>3. ASSUME NEW a \in DOMAIN ledger[t], a < a0 \/ new.state \notin Active
            PROVE  ledger'[t][a].state \in Terminal
        <5>1. CASE a = a0
          BY <2>2, <3>4, <4>1, <4>3, <5>1
        <5>2. CASE a # a0
          <6>1. ledger'[t][a] = ledger[t][a]
            BY <2>1, <3>1, <4>1, <5>2
          <6>2. a < a0
            BY <2>2, <3>1, <5>2
          <6>. QED BY <2>2, <3>1, <6>1, <6>2
        <5>. QED BY <5>1, <5>2
      <4>. QED BY <2>1, <3>1, <3>2, <4>2, <4>3
    <3>. QED BY <2>1, <3>3, <3>4
  <2>. QED BY <2>3, <2>4
<1>6. TokensAreIssued' /\ TokensFollowAttempts'
  BY <1>1, LedgerMoves DEF TablesOne, TokensAreIssued, TokensFollowAttempts
<1>. QED BY <1>2, <1>3, <1>4, <1>5, <1>6 DEF TablesOne

-----------------------------------------------------------------------------
(* The steps, under one lease *)

\* The row a worker has read stays as it was read: it was read under the lock
\* of the lease and, when there was one, of the row.
ReadsKept(v) == job[v].pc \in {"gate", "write"} => Current(job[v])' /\ (job[v].pc = "write" => Room(job[v].node)')

LEMMA JobsMove ==
  ASSUME JobsOne,
         \A v \in Worker : \/ job'[v] = job[v] /\ ReadsKept(v)
                           \/ job'[v].scope = Global /\ ~(job'[v].pc \in {"gate", "write"})
  PROVE  JobsOne'
<1>1. UnderGlobal'
  BY DEF JobsOne, UnderGlobal
<1>2. ReadsAreCurrent'
  <2>. SUFFICES ASSUME NEW v \in Worker, job'[v].pc \in {"gate", "write"} PROVE Current(job[v])'
    BY DEF ReadsAreCurrent
  <2>. QED BY DEF ReadsKept
<1>3. RoomIsKept'
  <2>. SUFFICES ASSUME NEW v \in Worker, job'[v].pc = "write" PROVE Room(job[v].node)'
    BY DEF RoomIsKept
  <2>. QED BY DEF ReadsKept
<1>. QED BY <1>1, <1>2, <1>3 DEF JobsOne

\* What a worker read still holds when no row changes.
LEMMA ReadsStay ==
  ASSUME OneInv, row' = row, NEW v \in Worker, job'[v] = job[v]
  PROVE  ReadsKept(v)
<1>1. job[v].pc \in {"gate", "write"} => Current(job[v])
  BY DEF OneInv, JobsOne, ReadsAreCurrent
<1>2. job[v].pc = "write" => Room(job[v].node)
  BY DEF OneInv, JobsOne, RoomIsKept
<1>. QED BY <1>1, <1>2 DEF ReadsKept, Current, Standing, Room, Used

\* One worker goes on and no row changes.
LEMMA StepOne ==
  ASSUME IInv, IInv', OneInv, NEW w \in Worker, NEW j \in Job, Step(w, j), UNCHANGED <<row, ledger, lease>>,
         j.scope = Global, j.pc \in {"gate", "write"} => Current(j), j.pc = "write" => Room(j.node)
  PROVE  OneInv'
<1>1. TablesOne'
  BY TablesKept, TableTypes DEF OneInv
<1>2. job'[w] = j /\ \A v \in Worker : v # w => job'[v] = job[v]
  BY PartsOf DEF Step
<1>3. UnderGlobal'
  BY <1>2 DEF OneInv, JobsOne, UnderGlobal
<1>5. ReadsAreCurrent'
  <2>. SUFFICES ASSUME NEW v \in Worker, job'[v].pc \in {"gate", "write"} PROVE Current(job[v])'
    BY DEF ReadsAreCurrent
  <2>1. CASE v = w
    BY <1>2, <2>1 DEF Current, Standing
  <2>2. CASE v # w
    BY <1>2, <2>2 DEF OneInv, JobsOne, ReadsAreCurrent, Current, Standing
  <2>. QED BY <2>1, <2>2
<1>6. RoomIsKept'
  <2>. SUFFICES ASSUME NEW v \in Worker, job'[v].pc = "write" PROVE Room(job[v].node)'
    BY DEF RoomIsKept
  <2>1. CASE v = w
    BY <1>2, <2>1 DEF Room, Used
  <2>2. CASE v # w
    BY <1>2, <2>2 DEF OneInv, JobsOne, RoomIsKept, Room, Used
  <2>. QED BY <2>1, <2>2
<1>. QED BY <1>1, <1>3, <1>5, <1>6 DEF OneInv, JobsOne

\* Leases move on, workers stay where they are or fall idle.
LEMMA LeaseOne ==
  ASSUME IInv, IInv', OneInv, UNCHANGED <<row, ledger>>, lease'[Global].token >= lease[Global].token,
         \A v \in Worker : job'[v] = job[v] \/ job'[v] = Idle
  PROVE  OneInv'
<1>1. TablesOne'
  BY TablesKept DEF OneInv
<1>2. Idle.scope = Global /\ Idle.pc = "idle"
  BY DEF Idle
<1>3. UnderGlobal'
  BY <1>2 DEF OneInv, JobsOne, UnderGlobal
<1>4. ReadsAreCurrent'
  <2>. SUFFICES ASSUME NEW v \in Worker, job'[v].pc \in {"gate", "write"} PROVE Current(job[v])'
    BY DEF ReadsAreCurrent
  <2>1. job'[v] = job[v]
    BY <1>2
  <2>. QED BY <2>1, ReadsStay DEF ReadsKept
<1>5. RoomIsKept'
  <2>. SUFFICES ASSUME NEW v \in Worker, job'[v].pc = "write" PROVE Room(job[v].node)'
    BY DEF RoomIsKept
  <2>1. job'[v] = job[v]
    BY <1>2
  <2>. QED BY <2>1, ReadsStay DEF ReadsKept
<1>. QED BY <1>1, <1>3, <1>4, <1>5 DEF OneInv, JobsOne

LEMMA InitOneInv == Init => OneInv
<1>. SUFFICES ASSUME Init PROVE OneInv
  OBVIOUS
<1>1. Idle.scope = Global /\ Idle.pc = "idle" /\ \A w \in Worker : job[w] = Idle
  BY DEF Init, Idle
<1>2. JobsOne
  BY <1>1 DEF JobsOne, UnderGlobal, ReadsAreCurrent, RoomIsKept
<1>3. \A t \in Task : /\ row[t].state \in {"NONE", "PENDING"} /\ row[t].attempt = 0
                      /\ DOMAIN ledger[t] = {}
  BY FirstRows DEF Init
<1>4. NoOvercommit
  <2>. SUFFICES ASSUME NEW n \in Node PROVE Used(n) <= Capacity[n]
    BY DEF NoOvercommit
  <2>1. Used(n) = Cardinality({})
    <3>1. {t \in Task : row[t].node = n /\ row[t].state \in Active} = {}
      BY <1>3 DEF Active
    <3>. QED BY <3>1 DEF Used
  <2>. QED BY <2>1, FS_EmptySet, SchedulerAssumption
<1>5. LedgerIsWhole
  <2>1. 1..0 = {}
    OBVIOUS
  <2>. QED BY <1>3, <2>1 DEF LedgerIsWhole, Active
<1>6. LedgerFollows /\ TokensAreIssued /\ TokensFollowAttempts
  BY <1>3 DEF LedgerFollows, TokensAreIssued, TokensFollowAttempts, Active
<1>. QED BY <1>2, <1>4, <1>5, <1>6 DEF OneInv, TablesOne

LEMMA ElectOne ==
  ASSUME IInv, IInv', OneInv, NEW s \in Scope, Expire(s) \/ \E i \in Instance : Elect(i, s)
  PROVE  OneInv'
<1>1. UNCHANGED <<row, ledger>> /\ job' = job
  BY DEF Expire, Elect, Acquire, AcquireUnseen, NotAcquired, tables
<1>2. lease'[Global].token >= lease[Global].token
  <2>1. lease \in [Scope -> [holder : Instance \cup {NoInstance}, token : Nat, live : BOOLEAN]] /\ Global \in Scope
    BY PartsOf DEF LeasesHold, Scope
  <2>2. lease[Global].token \in Nat
    BY <2>1
  <2>3. CASE Expire(s)
    BY <2>1, <2>2, <2>3 DEF Expire
  <2>4. ASSUME NEW i \in Instance, lease' = [lease EXCEPT ![s] = Obtained(i, s)]
        PROVE  lease'[Global].token >= lease[Global].token
    BY <2>1, <2>2, <2>4 DEF Obtained
  <2>5. CASE lease' = lease
    BY <2>2, <2>5
  <2>. QED BY <2>3, <2>4, <2>5 DEF Elect, Acquire, AcquireUnseen, NotAcquired
<1>. QED BY <1>1, <1>2, LeaseOne

LEMMA DieOne ==
  ASSUME IInv, IInv', OneInv, NEW i \in Instance, Crash(i) \/ Shutdown(i) \/ Panic(i)
  PROVE  OneInv'
<1>1. UNCHANGED <<row, ledger>> /\ \A v \in Worker : job'[v] = job[v] \/ job'[v] = Idle
  BY DEF Crash, Shutdown, Panic, Gone, tables
<1>2. lease'[Global].token >= lease[Global].token
  <2>1. lease \in [Scope -> [holder : Instance \cup {NoInstance}, token : Nat, live : BOOLEAN]] /\ Global \in Scope
    BY PartsOf DEF LeasesHold, Scope
  <2>2. lease[Global].token \in Nat
    BY <2>1
  <2>3. lease'[Global].token = lease[Global].token
    BY <2>1 DEF Crash, Shutdown, Panic
  <2>. QED BY <2>2, <2>3
<1>. QED BY <1>1, <1>2, LeaseOne

\* Steps of calls and rounds that write no row and pass no check.
LEMMA PlainOne ==
  ASSUME IInv, IInv', OneInv, NEW w \in Worker, NEW j \in Job, Step(w, j), UNCHANGED <<row, ledger, lease>>,
         j.scope \in {Global, job[w].scope}, ~(j.pc \in {"gate", "write"})
  PROVE  OneInv'
<1>1. j.scope = Global /\ ~(j.pc = "write")
  BY DEF OneInv, JobsOne, UnderGlobal
<1>. QED BY <1>1, StepOne

LEMMA CallOne ==
  ASSUME OneLease, IInv, IInv', OneInv, NEW r \in Request,
         \/ \E i \in Instance, t \in Task : Cancel(r, i, t) \/ \E s \in Scope : Receive(r, i, t, s)
         \/ Plan(r) \/ FindVictim(r) \/ RecordIntent(r) \/ StopAcked(r) \/ StopFailed(r)
  PROVE  OneInv'
<1>1. r \in Worker /\ UNCHANGED <<row, ledger, lease>> /\ job[r] \in Job /\ Idle \in Job /\ Idle.scope = Global
  BY JobType, IdleType DEF Worker, Cancel, Receive, Plan, FindVictim, RecordIntent, StopAcked, StopFailed, tables
<1>2. job'[r] \in Job /\ Step(r, job'[r])
  <2>1. \E j : Step(r, j)
    BY <1>1 DEF Cancel, Receive, Plan, FindVictim, RecordIntent, StopAcked, StopFailed
  <2>2. job \in [Worker -> Job] /\ job' \in [Worker -> Job]
    BY DEF IInv, TypeOK
  <2>. QED BY <1>1, <2>1, <2>2 DEF Step
<1>. DEFINE j == job'[r]
<1>3. /\ j.scope \in {Global, job[r].scope}
      /\ ~(j.pc \in {"gate", "write"})
  <2>1. ASSUME NEW i \in Instance, NEW t \in Task, Cancel(r, i, t) PROVE j.scope = Global /\ j.pc = "intent"
    <3>1. PICK n : Step(r, [Idle EXCEPT !.pc = "intent", !.inst = i, !.task = t, !.kind = "CANCEL", !.node = n])
      BY <2>1 DEF Cancel
    <3>. QED BY <1>1, <3>1, PartsOf DEF Step, Idle
  <2>2. ASSUME NEW i \in Instance, NEW t \in Task, NEW s \in Scope, Receive(r, i, t, s)
        PROVE j.scope = Global /\ j.pc = "plan"
    <3>1. s = Global
      BY <2>2, SchedulerAssumption DEF Receive, DecidesUnder, OneLease
    <3>2. Step(r, [Idle EXCEPT !.pc = "plan", !.inst = i, !.task = t, !.scope = s, !.token = held[i][s]])
      BY <2>2 DEF Receive
    <3>. QED BY <1>1, <3>1, <3>2, PartsOf DEF Step, Idle
  <2>3. CASE Plan(r)
    <3>1. \/ \E n \in Node : Step(r, [job[r] EXCEPT !.pc = "fence", !.node = n])
          \/ Step(r, [job[r] EXCEPT !.pc = "queue"])
      BY <2>3 DEF Plan, Eligible
    <3>2. ASSUME NEW n \in Node, Step(r, [job[r] EXCEPT !.pc = "fence", !.node = n])
          PROVE  j.scope = job[r].scope /\ j.pc = "fence"
      BY <1>1, <3>2, PartsOf DEF Step, Job
    <3>3. Step(r, [job[r] EXCEPT !.pc = "queue"]) => j.scope = job[r].scope /\ j.pc = "queue"
      BY <1>1, PartsOf DEF Step, Job
    <3>. HIDE DEF j
    <3>. QED BY <3>1, <3>2, <3>3
  <2>4. CASE FindVictim(r)
    <3>1. CASE Step(r, Idle)
      BY <1>1, <3>1, PartsOf DEF Step, Idle
    <3>2. CASE ~Step(r, Idle)
      <4>1. PICK v \in Victims(job[r].task) :
               Step(r, [Idle EXCEPT !.pc = "intent", !.inst = job[r].inst, !.task = v, !.kind = "PREEMPT",
                                    !.node = row[v].node, !.attempt = row[v].attempt])
        BY <2>4, <3>2 DEF FindVictim
      <4>2. j.scope = Global /\ j.pc = "intent"
        BY <1>1, <4>1, PartsOf DEF Step, Idle
      <4>. QED BY <4>2
    <3>. QED BY <3>1, <3>2
  <2>5. CASE RecordIntent(r)
    <3>1. \/ \E pc \in {"confirm", "stop"} : Step(r, [job[r] EXCEPT !.pc = pc])
          \/ Step(r, Idle)
      BY <2>5 DEF RecordIntent
    <3>2. ASSUME NEW pc \in {"confirm", "stop"}, Step(r, [job[r] EXCEPT !.pc = pc])
          PROVE  j.scope = job[r].scope /\ j.pc = pc
      BY <1>1, <3>2, PartsOf DEF Step, Job
    <3>3. Step(r, Idle) => j.scope = Global /\ j.pc = "idle"
      BY <1>1, PartsOf DEF Step, Idle
    <3>. HIDE DEF j
    <3>. QED BY <3>1, <3>2, <3>3
  <2>6. CASE StopAcked(r)
    BY <1>1, <2>6, PartsOf DEF StopAcked, Step, Job
  <2>7. CASE StopFailed(r)
    BY <1>1, <2>7, PartsOf DEF StopFailed, Step, Idle
  <2>. QED BY <2>1, <2>2, <2>3, <2>4, <2>5, <2>6, <2>7
<1>. HIDE DEF j
<1>. QED BY <1>1, <1>2, <1>3, PlainOne DEF j

LEMMA DrainOne ==
  ASSUME IInv, IInv', OneInv, NEW i \in Instance, Drain(i)
  PROVE  OneInv'
<1>1. /\ i \in Worker /\ job[i] \in Job /\ Idle \in Job /\ Idle.scope = Global /\ Idle.pc = "idle"
      /\ job \in [Worker -> Job] /\ job' \in [Worker -> Job]
  BY JobType, IdleType DEF Worker, IInv, TypeOK, Idle
<1>2. CASE Panic(i)
  BY <1>2, DieOne
<1>3. ASSUME NEW j, Step(i, j), j.scope \in {Global, job[i].scope}, j.pc \in {"idle", "tick", "round", "fence"},
             UNCHANGED <<row, ledger, lease>>
      PROVE  OneInv'
  <2>1. j \in Job
    BY <1>1, <1>3 DEF Step
  <2>. QED BY <1>1, <1>3, <2>1, PlainOne
<1>4. CASE DrainTick(i)
  <2>. DEFINE j == [Idle EXCEPT !.pc = "tick", !.inst = i]
  <2>1. Step(i, j) /\ UNCHANGED <<row, ledger, lease>>
    BY <1>4 DEF DrainTick, tables
  <2>2. j.scope = Global /\ j.pc = "tick"
    BY DEF Idle
  <2>. HIDE DEF j
  <2>. QED BY <1>3, <2>1, <2>2
<1>5. CASE DrainList(i)
  <2>. DEFINE room == [n \in Node |-> Used(n)]
  <2>0. PICK batch \in SUBSET Task :
          \/ Step(i, Idle)
          \/ Step(i, [job[i] EXCEPT !.pc = "round", !.token = held[i][Global], !.todo = batch, !.room = room])
    BY <1>5, ListedAreTasks
  <2>. DEFINE j == [job[i] EXCEPT !.pc = "round", !.token = held[i][Global], !.todo = batch, !.room = room]
  <2>1. (Step(i, Idle) \/ Step(i, j)) /\ UNCHANGED <<row, ledger, lease>>
    BY <1>5, <2>0 DEF DrainList, tables
  <2>. HIDE DEF room
  <2>2. j.scope = job[i].scope /\ j.pc = "round"
    BY <1>1 DEF Job
  <2>. HIDE DEF j
  <2>. QED BY <1>1, <1>3, <2>1, <2>2
<1>6. ASSUME NEW t \in Task, DrainPick(i, t) PROVE OneInv'
  <2>. DEFINE todo == job[i].todo \ {t}
              rest == [job[i] EXCEPT !.todo = todo]
  <2>1. /\ job[i].pc = "round" /\ UNCHANGED <<row, ledger, lease>>
        /\ \/ \E n \in Node : Step(i, [rest EXCEPT !.pc = "fence", !.task = t, !.node = n])
           \/ Step(i, Idle) \/ Step(i, rest)
    BY <1>6 DEF DrainPick, Eligible, tables
  <2>. HIDE DEF todo
  <2>2. rest.scope = job[i].scope /\ rest.pc = "round"
    BY <1>1, <2>1 DEF Job
  <2>3. ASSUME NEW n \in Node, Step(i, [rest EXCEPT !.pc = "fence", !.task = t, !.node = n]) PROVE OneInv'
    <3>. DEFINE j == [rest EXCEPT !.pc = "fence", !.task = t, !.node = n]
    <3>1. j.scope = job[i].scope /\ j.pc = "fence"
      BY <1>1 DEF Job
    <3>2. Step(i, j)
      BY <2>3
    <3>. HIDE DEF j, rest
    <3>. QED BY <1>3, <2>1, <3>1, <3>2
  <2>. HIDE DEF rest
  <2>. QED BY <1>1, <1>3, <2>1, <2>2, <2>3
<1>. QED BY <1>2, <1>4, <1>5, <1>6 DEF Drain

LEMMA FenceOne ==
  ASSUME IInv, IInv', OneInv, NEW w \in Worker, Fence(w)
  PROVE  OneInv'
<1>. DEFINE j == [job[w] EXCEPT !.pc = "inspect"]
<1>1. /\ job[w].pc = "fence" /\ UNCHANGED <<row, ledger, lease>>
      /\ Step(w, j) \/ Step(w, Left(w, FALSE))
  BY DEF Fence, tables
<1>2. j \in Job /\ j.scope = job[w].scope /\ j.pc = "inspect"
  BY JobType DEF Job
<1>3. /\ Left(w, FALSE) \in Job /\ Left(w, FALSE).scope \in {Global, job[w].scope}
      /\ Left(w, FALSE).pc \in {"idle", "round"}
  BY <1>1, LeftType
<1>. HIDE DEF j
<1>. QED BY <1>1, <1>2, <1>3, PlainOne

LEMMA InspectOne ==
  ASSUME IInv, IInv', OneInv, NEW w \in Worker, Inspect(w)
  PROVE  OneInv'
<1>. DEFINE t == job[w].task
            locked == row[t].state # "NONE"
            next == row[t].attempt + 1
            j == [job[w] EXCEPT !.pc = "gate", !.attempt = next, !.locked = locked]
<1>1. /\ job[w].pc = "inspect" /\ UNCHANGED <<row, ledger, lease>>
      /\ Step(w, IF Standing(t) THEN Left(w, TRUE) ELSE j)
  BY DEF Inspect, tables
<1>2. CASE Standing(t)
  <2>1. /\ Left(w, TRUE) \in Job /\ Left(w, TRUE).scope \in {Global, job[w].scope}
        /\ Left(w, TRUE).pc \in {"idle", "round"}
    BY <1>1, LeftType
  <2>. QED BY <1>1, <1>2, <2>1, PlainOne
<1>3. CASE ~Standing(t)
  <2>1. Step(w, j) /\ next \in Nat /\ locked \in BOOLEAN
    <3>1. row[t].attempt \in Nat
      BY <1>1, JobType, TableTypes DEF Row, Busy
    <3>. QED BY <1>1, <1>3, <3>1
  <2>. HIDE DEF locked, next
  <2>2. /\ j \in Job /\ j.task = t /\ j.attempt = next /\ j.locked = locked
        /\ j.scope = job[w].scope /\ j.pc = "gate"
    BY <2>1, JobType DEF Job
  <2>. HIDE DEF j
  <2>3. Current(j)
    BY <1>3, <2>2 DEF Current, locked, next
  <2>4. j.scope = Global
    BY <2>2 DEF OneInv, JobsOne, UnderGlobal
  <2>. QED BY <1>1, <2>1, <2>2, <2>3, <2>4, StepOne
<1>. QED BY <1>2, <1>3

LEMMA GateOne ==
  ASSUME IInv, IInv', OneInv, NEW w \in Worker, Gate(w)
  PROVE  OneInv'
<1>. DEFINE j == [job[w] EXCEPT !.pc = "write"]
            k == [job[w] EXCEPT !.pc = "queue", !.node = NoNode, !.attempt = 0, !.locked = FALSE]
<1>1. /\ job[w].pc = "gate" /\ UNCHANGED <<row, ledger, lease>>
      /\ (Room(job[w].node) /\ Step(w, j)) \/ Step(w, k) \/ Step(w, Left(w, FALSE))
  BY DEF Gate, tables
<1>2. CASE Room(job[w].node) /\ Step(w, j)
  <2>1. /\ j \in Job /\ j.task = job[w].task /\ j.attempt = job[w].attempt /\ j.locked = job[w].locked
        /\ j.scope = job[w].scope /\ j.pc = "write" /\ j.node = job[w].node
    BY JobType DEF Job
  <2>. HIDE DEF j
  <2>2. Current(job[w]) /\ j.scope = Global
    BY <1>1, <2>1 DEF OneInv, JobsOne, ReadsAreCurrent, UnderGlobal
  <2>3. Current(j)
    BY <2>1, <2>2 DEF Current
  <2>. QED BY <1>1, <1>2, <2>1, <2>2, <2>3, StepOne
<1>3. CASE Step(w, k)
  <2>1. k \in Job /\ k.scope = job[w].scope /\ k.pc = "queue"
    BY JobType DEF Job
  <2>. HIDE DEF k
  <2>. QED BY <1>1, <1>3, <2>1, PlainOne
<1>4. CASE Step(w, Left(w, FALSE))
  <2>1. /\ Left(w, FALSE) \in Job /\ Left(w, FALSE).scope \in {Global, job[w].scope}
        /\ Left(w, FALSE).pc \in {"idle", "round"}
    BY <1>1, LeftType
  <2>. QED BY <1>1, <1>4, <2>1, PlainOne
<1>. QED BY <1>1, <1>2, <1>3, <1>4

LEMMA NextNumber ==
  ASSUME NEW a \in Nat, NEW b, b = a + 1
  PROVE  (1..a) \cup {b} = 1..b /\ b \notin 1..a
OBVIOUS

\* The commit of a placement: the one worker inside the lock opens the next
\* attempt of a task that has none running, on a node with a slot left.
LEMMA WriteTables ==
  ASSUME IInv, IInv', OneInv, NEW w \in Worker, Write(w)
  PROVE  TablesOne'
<1>. DEFINE t == job[w].task
            n == job[w].node
            a0 == row[t].attempt
            a1 == job[w].attempt
            token == job[w].token
            placed == [state |-> "PLACED", node |-> n, token |-> token]
<1>1. /\ job[w].pc = "write" /\ lease' = lease
      /\ row' = [row EXCEPT ![t] = [state |-> "PLACED", attempt |-> a1, node |-> n, token |-> token]]
      /\ ledger' = [ledger EXCEPT ![t] = Put(@, a1, placed)]
  BY DEF Write
<1>2. /\ t \in Task /\ n \in Node /\ a0 \in Nat /\ token \in Nat /\ row \in [Task -> Row]
      /\ ledger \in [Task -> UNION {[D -> Entry] : D \in SUBSET Nat}] /\ Capacity[n] \in Nat
  BY <1>1, JobType, TableTypes DEF Row, Busy, IInv, LedgerIsATable
<1>3. ~Standing(t) /\ a1 = a0 + 1 /\ Room(n)
  BY <1>1 DEF OneInv, JobsOne, ReadsAreCurrent, RoomIsKept, Current
<1>4. token = lease[Global].token
  BY <1>1 DEF IInv, InsideIsFenced, Inside, OneInv, JobsOne, UnderGlobal
<1>5. row[t].state \notin Active /\ DOMAIN ledger[t] = 1..a0
  BY <1>2, <1>3 DEF Standing, OneInv, TablesOne, LedgerIsWhole
\* The task's row and attempts after the commit, and the others'.
<1>6. /\ row'[t] = [state |-> "PLACED", attempt |-> a1, node |-> n, token |-> token]
      /\ ledger'[t] = Put(ledger[t], a1, placed)
      /\ \A u \in Task : u # t => row'[u] = row[u] /\ ledger'[u] = ledger[u]
  BY <1>1, <1>2
<1>7. /\ DOMAIN ledger'[t] = 1..a1 /\ ledger'[t][a1] = placed
      /\ \A a \in 1..a0 : ledger'[t][a] = ledger[t][a]
  <2>1. DOMAIN ledger'[t] = (1..a0) \cup {a1}
    BY <1>5, <1>6 DEF Put
  <2>2. (1..a0) \cup {a1} = 1..a1 /\ a1 \notin 1..a0
    <3>1. a0 \in Nat /\ a1 = a0 + 1
      BY <1>2, <1>3
    <3>. HIDE DEF a0, a1
    <3>. QED BY <3>1, NextNumber
  <2>. HIDE DEF a0, a1, placed
  <2>. QED BY <1>5, <1>6, <2>1, <2>2 DEF Put
<1>8. NoOvercommit'
  <2>. SUFFICES ASSUME NEW m \in Node PROVE Used(m)' <= Capacity[m]
    BY DEF NoOvercommit
  <2>1. IsFiniteSet(Carried(m)) /\ Used(m) = Cardinality(Carried(m)) /\ Used(m) \in Nat /\ Capacity[m] \in Nat
    BY UsedType, PartsOf, TableTypes DEF TablesHold, CarriedIsFinite
  <2>2. Used(m)' = Cardinality(Carried(m)')
    BY DEF Used, Carried
  <2>3. CASE m # n
    <3>1. Carried(m)' \subseteq Carried(m)
      BY <1>6, <2>3 DEF Carried
    <3>2. Used(m)' \in Nat /\ Used(m)' <= Used(m)
      BY <3>1, UsedShrinks
    <3>. QED BY <2>1, <3>2 DEF OneInv, TablesOne, NoOvercommit
  <2>4. CASE m = n
    <3>1. Carried(m)' \subseteq Carried(m) \cup {t}
      BY <1>6 DEF Carried
    <3>2. t \notin Carried(m)
      BY <1>5 DEF Carried
    <3>3. IsFiniteSet(Carried(m) \cup {t}) /\ Cardinality(Carried(m) \cup {t}) = Used(m) + 1
      BY <2>1, <3>2, FS_AddElement
    <3>4. Cardinality(Carried(m)') <= Used(m) + 1 /\ Cardinality(Carried(m)') \in Nat
      BY <3>1, <3>3, FS_Subset, FS_CardinalityType
    <3>5. Used(m) < Capacity[m]
      BY <1>3, <2>4 DEF Room
    <3>. QED BY <2>1, <2>2, <3>4, <3>5
  <2>. QED BY <2>3, <2>4
<1>9. LedgerIsWhole'
  <2>. SUFFICES ASSUME NEW u \in Task
       PROVE  DOMAIN ledger'[u] = 1..row'[u].attempt /\ (row'[u].state \in Active => row'[u].attempt # 0)
    BY DEF LedgerIsWhole
  <2>1. CASE u = t
    <3>1. row'[t].attempt = a1 /\ a1 # 0
      BY <1>2, <1>3, <1>6
    <3>. QED BY <1>7, <2>1, <3>1
  <2>2. CASE u # t
    BY <1>6, <2>2 DEF OneInv, TablesOne, LedgerIsWhole
  <2>. QED BY <2>1, <2>2
<1>10. LedgerFollows'
  <2>. SUFFICES ASSUME NEW u \in Task
       PROVE /\ row'[u].state \in Active =>
                ledger'[u][row'[u].attempt] = [state |-> row'[u].state, node |-> row'[u].node, token |-> row'[u].token]
             /\ \A a \in DOMAIN ledger'[u] :
                  a < row'[u].attempt \/ row'[u].state \notin Active => ledger'[u][a].state \in Terminal
    BY DEF LedgerFollows
  <2>1. CASE u = t
    <3>1. /\ row'[t].attempt = a1 /\ row'[t].state = "PLACED" /\ row'[t].node = n /\ row'[t].token = token
          /\ "PLACED" \in Active
      BY <1>6 DEF Active
    <3>2. ASSUME NEW a \in DOMAIN ledger'[t], a < a1 PROVE ledger'[t][a].state \in Terminal
      <4>1. a \in 1..a0
        BY <1>2, <1>3, <1>7, <3>2
      <4>2. ledger'[t][a] = ledger[t][a] /\ a \in DOMAIN ledger[t]
        BY <1>5, <1>7, <4>1
      <4>3. ledger[t][a].state \in Terminal
        BY <1>2, <1>5, <4>2 DEF OneInv, TablesOne, LedgerFollows
      <4>. QED BY <4>2, <4>3
    <3>. HIDE DEF a1, n, token
    <3>. QED BY <1>7, <2>1, <3>1, <3>2
  <2>2. CASE u # t
    BY <1>6, <2>2 DEF OneInv, TablesOne, LedgerFollows
  <2>. QED BY <2>1, <2>2
<1>11. TokensAreIssued'
  <2>. SUFFICES ASSUME NEW u \in Task, NEW a \in DOMAIN ledger'[u]
       PROVE  ledger'[u][a].token <= lease[Global].token
    BY <1>1 DEF TokensAreIssued
  <2>1. CASE u = t /\ a = a1
    BY <1>2, <1>4, <1>7, <2>1
  <2>2. CASE u = t /\ a # a1
    <3>1. a \in 1..a0
      BY <1>2, <1>3, <1>7, <2>2
    <3>. QED BY <1>5, <1>7, <2>2, <3>1 DEF OneInv, TablesOne, TokensAreIssued
  <2>3. CASE u # t
    BY <1>6, <2>3 DEF OneInv, TablesOne, TokensAreIssued
  <2>. QED BY <2>1, <2>2, <2>3
<1>12. TokensFollowAttempts'
  <2>. SUFFICES ASSUME NEW u \in Task, NEW a \in DOMAIN ledger'[u], NEW b \in DOMAIN ledger'[u], a < b
       PROVE  ledger'[u][a].token <= ledger'[u][b].token
    BY DEF TokensFollowAttempts
  <2>1. CASE u = t
    <3>1. a \in 1..a0 /\ ledger'[t][a] = ledger[t][a] /\ a \in DOMAIN ledger[t]
      BY <1>2, <1>3, <1>5, <1>7, <2>1
    <3>2. CASE b = a1
      <4>1. ledger[t][a].token <= lease[Global].token
        BY <1>2, <3>1 DEF OneInv, TablesOne, TokensAreIssued
      <4>. QED BY <1>4, <1>7, <2>1, <3>1, <3>2, <4>1
    <3>3. CASE b # a1
      <4>1. b \in 1..a0 /\ ledger'[t][b] = ledger[t][b] /\ b \in DOMAIN ledger[t]
        BY <1>2, <1>3, <1>5, <1>7, <2>1, <3>3
      <4>. QED BY <1>2, <2>1, <3>1, <4>1 DEF OneInv, TablesOne, TokensFollowAttempts
    <3>. QED BY <3>2, <3>3
  <2>2. CASE u # t
    BY <1>6, <2>2 DEF OneInv, TablesOne, TokensFollowAttempts
  <2>. QED BY <2>1, <2>2
<1>. QED BY <1>8, <1>9, <1>10, <1>11, <1>12 DEF TablesOne

LEMMA WriteOne ==
  ASSUME IInv, IInv', OneInv, NEW w \in Worker, Write(w)
  PROVE  OneInv'
<1>1. job[w].pc = "write" /\ Step(w, Left(w, TRUE))
  BY DEF Write
<1>2. job'[w] = Left(w, TRUE) /\ \A v \in Worker : v # w => job'[v] = job[v]
  BY <1>1, PartsOf DEF Step
<1>3. Left(w, TRUE).pc \in {"idle", "round"} /\ Left(w, TRUE).scope = Global
  BY <1>1, LeftType DEF OneInv, JobsOne, UnderGlobal
<1>4. \A v \in Worker : v # w => ~(job[v].pc \in {"gate", "write"}) /\ job[v].scope = Global
  BY <1>1 DEF IInv, InsideIsAlone, Inside, OneInv, JobsOne, UnderGlobal
<1>5. JobsOne'
  BY <1>2, <1>3, <1>4, JobsMove DEF OneInv
<1>. QED BY <1>5, WriteTables DEF OneInv

\* Nobody is past the fencing check while a call queues its task.
LEMMA QueueOne ==
  ASSUME IInv, IInv', OneInv, NEW r \in Request, Queue(r)
  PROVE  OneInv'
<1>. DEFINE t == job[r].task
            queued == Queued(t, job[r].token)
<1>1. /\ job[r].pc = "queue" /\ ~LeaseLocked(job[r].scope) /\ UNCHANGED <<lease, ledger>>
      /\ row' \in {row, [row EXCEPT ![t] = queued]}
      /\ Step(r, Idle) \/ Step(r, [job[r] EXCEPT !.pc = "victim"])
  BY DEF Queue
<1>2. job[r] \in Job /\ t \in Task /\ job[r].token \in Nat /\ r \in Worker /\ row \in [Task -> Row]
  BY <1>1, JobType, TableTypes DEF Worker, Busy
<1>3. \A v \in Worker : job[v].scope = Global /\ ~(job[v].pc \in {"gate", "write"})
  BY <1>1, <1>2 DEF LeaseLocked, OneInv, JobsOne, UnderGlobal
<1>4. \A v \in Worker : job'[v].scope = Global /\ ~(job'[v].pc \in {"gate", "write"})
  <2>1. \A v \in Worker : v # r => job'[v] = job[v]
    BY <1>1, PartsOf DEF Step
  <2>2. job'[r] \in {Idle, [job[r] EXCEPT !.pc = "victim"]}
    BY <1>1, <1>2, PartsOf DEF Step
  <2>3. Idle.scope = Global /\ Idle.pc = "idle"
    BY DEF Idle
  <2>4. job'[r].scope = Global /\ ~(job'[r].pc \in {"gate", "write"})
    BY <1>2, <1>3, <2>2, <2>3 DEF Job
  <2>. QED BY <1>3, <2>1, <2>4
<1>5. JobsOne'
  BY <1>4, JobsMove DEF OneInv
<1>6. queued \in Row /\ queued.attempt = row[t].attempt
      /\ (queued = row[t] \/ (row[t].state \notin Active /\ queued.state \notin Active))
  <2>1. row[t] \in Row
    BY <1>2
  <2>. HIDE DEF t
  <2>. QED BY <1>2, <2>1 DEF Queued, Row, Active, Terminal, States
<1>7. CASE row' = row
  BY <1>1, <1>5, <1>7, TablesKept, TableTypes DEF OneInv
<1>8. CASE row' = [row EXCEPT ![t] = queued]
  <2>1. StateMove(t, queued)
    BY <1>1, <1>6, <1>8 DEF StateMove
  <2>. HIDE DEF t, queued
  <2>. QED BY <1>2, <1>5, <1>6, <2>1, StateMoves DEF OneInv, t
<1>. QED BY <1>1, <1>7, <1>8

\* A worker that has read the row of t, which is not locked, read that there
\* was none; one that has read an active row will not place its task.
LEMMA ReadsSurvive ==
  ASSUME IInv, IInv', OneInv, NEW t \in Task, NEW new \in Row, StateMove(t, new), ~TaskLocked(t),
         row[t].state = "NONE" => new = row[t],
         NEW v \in Worker, job'[v] = job[v]
  PROVE  ReadsKept(v)
<1>. SUFFICES ASSUME job[v].pc \in {"gate", "write"}
              PROVE  Current(job[v])' /\ (job[v].pc = "write" => Room(job[v].node)')
  BY DEF ReadsKept
<1>1. job[v].task \in Task /\ job[v].node \in Node /\ row \in [Task -> Row] /\ job[v].locked \in BOOLEAN
  BY JobType, TableTypes DEF Busy
<1>2. Current(job[v]) /\ (job[v].pc = "write" => Room(job[v].node))
  BY DEF OneInv, JobsOne, ReadsAreCurrent, RoomIsKept
<1>3. row'[job[v].task] = row[job[v].task]
  <2>1. CASE job[v].task # t
    BY <1>1, <2>1 DEF StateMove
  <2>2. CASE job[v].task = t
    <3>1. row[t].state = "NONE"
      BY <1>1, <1>2, <2>2 DEF TaskLocked, Current
    <3>. QED BY <1>1, <2>2, <3>1 DEF StateMove
  <2>. QED BY <2>1, <2>2
<1>4. job[v].pc = "write" => Room(job[v].node)'
  <2>1. PICK n \in Node : job[v].node = n /\ job'[v].node = n
    BY <1>1
  <2>2. Used(n)' <= Used(n)
    BY <2>1, StateMoves DEF OneInv
  <2>3. Used(n)' \in Nat /\ Used(n) \in Nat /\ Capacity[n] \in Nat
    BY <2>1, UsedTypeAfter, TableTypes
  <2>4. job[v].pc = "write" => Used(n) < Capacity[n]
    BY <1>2, <2>1 DEF Room
  <2>5. job[v].pc = "write" => Room(n)'
    BY <2>2, <2>3, <2>4 DEF Room
  <2>. QED BY <2>1, <2>5
<1>. QED BY <1>2, <1>3, <1>4 DEF Current, Standing

LEMMA ConfirmOne ==
  ASSUME IInv, IInv', OneInv, NEW r \in Request, Confirm(r)
  PROVE  OneInv'
<1>. DEFINE t == job[r].task
            state == Stopping(row[t].state)
            new == [row[t] EXCEPT !.state = state]
<1>1. /\ job[r].pc = "confirm" /\ Step(r, Idle) /\ lease' = lease
      /\ r \in Worker /\ t \in Task /\ row \in [Task -> Row]
  BY JobType, TableTypes DEF Confirm, Worker, Busy
<1>2. CASE row' = row /\ ledger' = ledger
  <2>1. Idle.scope = Global /\ Idle.pc = "idle" /\ Idle \in Job
    BY IdleType DEF Idle
  <2>. QED BY <1>1, <1>2, <2>1, PlainOne
<1>3. CASE /\ ~TaskLocked(t) /\ row' = [row EXCEPT ![t].state = state]
           /\ ledger' = IF state = "CANCELLING" /\ row[t].state # state
                        THEN [ledger EXCEPT ![t][row[t].attempt].state = state] ELSE ledger
  <2>1. row[t] \in Row /\ row[t].state \in States
    BY <1>1 DEF Row
  <2>2. /\ state \in States /\ (row[t].state = "NONE" => state = "NONE")
        /\ \/ state = row[t].state
           \/ row[t].state \notin Active /\ state \notin Active
           \/ row[t].state \in Active /\ state = "CANCELLING"
    BY <2>1 DEF Stopping, States, Active, Terminal
  <2>3. row' = [row EXCEPT ![t] = new]
    BY <1>3
  <2>. HIDE DEF state
  <2>4. /\ new \in Row /\ new.attempt = row[t].attempt /\ new.state = state
        /\ new.node = row[t].node /\ new.token = row[t].token
        /\ (state = row[t].state => new = row[t])
    BY <2>1, <2>2 DEF Row
  <2>. HIDE DEF new, t
  <2>5. StateMove(t, new)
    <3>1. CASE state = row[t].state
      BY <1>1, <1>3, <2>3, <2>4, <3>1 DEF StateMove
    <3>2. CASE row[t].state \notin Active /\ state \notin Active
      <4>1. state # "CANCELLING"
        BY <3>2 DEF Active
      <4>. QED BY <1>1, <1>3, <2>3, <2>4, <3>2, <4>1 DEF StateMove
    <3>3. CASE row[t].state \in Active /\ state = "CANCELLING" /\ state # row[t].state
      <4>1. state \in Active
        BY <3>3 DEF Active
      <4>. QED BY <1>1, <1>3, <2>3, <2>4, <3>3, <4>1 DEF StateMove
    <3>. QED BY <2>2, <3>1, <3>2, <3>3
  <2>6. TablesOne'
    BY <1>1, <2>4, <2>5, StateMoves DEF OneInv
  <2>7. row[t].state = "NONE" => new = row[t]
    BY <2>2, <2>4
  <2>8. \A v \in Worker : v # r => job'[v] = job[v] /\ ReadsKept(v)
    <3>1. \A v \in Worker : v # r => job'[v] = job[v]
      BY <1>1, PartsOf DEF Step
    <3>. QED BY <1>1, <1>3, <2>4, <2>5, <2>7, <3>1, ReadsSurvive
  <2>9. job'[r].scope = Global /\ ~(job'[r].pc \in {"gate", "write"})
    BY <1>1, PartsOf DEF Step, Idle
  <2>. QED BY <2>6, <2>8, <2>9, JobsMove DEF OneInv
<1>. QED BY <1>1, <1>2, <1>3 DEF Confirm

LEMMA NodeStepOne ==
  ASSUME IInv, IInv', OneInv, NEW t \in Task, NodeStep(t)
  PROVE  OneInv'
<1>1. PICK state \in Active \cup Terminal :
        /\ row' = [row EXCEPT ![t].state = state] /\ row[t].state \in Active
        /\ ledger' = [ledger EXCEPT ![t][row[t].attempt].state = state]
        /\ ~TaskLocked(t) /\ lease' = lease /\ job' = job
  <2>1. CASE Take(t)
    BY <2>1 DEF Take, Active
  <2>2. ASSUME NEW final \in Finals, Settle(t, final)
        PROVE /\ row' = [row EXCEPT ![t].state = final] /\ row[t].state \in Active
              /\ ledger' = [ledger EXCEPT ![t][row[t].attempt].state = final]
              /\ ~TaskLocked(t) /\ lease' = lease /\ job' = job
    BY <2>2 DEF Settle, Active
  <2>3. ASSUME NEW final \in Finals, NEW a \in 0..Len(outbox[t]), Report(t, a, final)
        PROVE /\ row' = [row EXCEPT ![t].state = final] /\ row[t].state \in Active
              /\ ledger' = [ledger EXCEPT ![t][row[t].attempt].state = final]
              /\ ~TaskLocked(t) /\ lease' = lease /\ job' = job
    BY <2>3 DEF Report
  <2>4. Finals \subseteq Active \cup Terminal
    BY SchedulerAssumption
  <2>. QED BY <2>1, <2>2, <2>3, <2>4 DEF NodeStep
<1>. DEFINE new == [row[t] EXCEPT !.state = state]
<1>2. row \in [Task -> Row] /\ row[t] \in Row
  BY TableTypes
<1>3. new \in Row /\ new.attempt = row[t].attempt /\ new.state = state /\ new.node = row[t].node
      /\ new.token = row[t].token
  BY <1>2 DEF Row, States
<1>4. row' = [row EXCEPT ![t] = new]
  BY <1>1
<1>. HIDE DEF new
<1>5. StateMove(t, new)
  BY <1>1, <1>3, <1>4 DEF StateMove
<1>6. TablesOne'
  BY <1>3, <1>5, StateMoves DEF OneInv
<1>7. row[t].state # "NONE"
  BY <1>1 DEF Active
<1>8. \A v \in Worker : job'[v] = job[v] /\ ReadsKept(v)
  BY <1>1, <1>3, <1>5, <1>7, ReadsSurvive
<1>. QED BY <1>6, <1>8, JobsMove DEF OneInv

LEMMA NextOneInv ==
  ASSUME OneLease
  PROVE  IInv /\ OneInv /\ [Next]_vars => OneInv'
<1>. SUFFICES ASSUME IInv, OneInv, [Next]_vars PROVE OneInv'
  OBVIOUS
<1>0. IInv'
  BY NextIInv
<1>1. CASE UNCHANGED vars
  BY <1>0, <1>1, LeaseOne, TableTypes DEF vars, tables
<1>2. ASSUME NEW s \in Scope, Expire(s) \/ \E i \in Instance : Elect(i, s) PROVE OneInv'
  BY <1>0, <1>2, ElectOne
<1>3. ASSUME NEW i \in Instance, Drain(i) \/ Crash(i) \/ Shutdown(i) PROVE OneInv'
  BY <1>0, <1>3, DrainOne, DieOne
<1>4. ASSUME NEW r \in Request, Call(r) PROVE OneInv'
  BY <1>0, <1>4, CallOne, QueueOne, ConfirmOne DEF Call, Stop
<1>5. ASSUME NEW w \in Worker, Place(w) PROVE OneInv'
  BY <1>0, <1>5, FenceOne, InspectOne, GateOne, WriteOne DEF Place
<1>6. ASSUME NEW t \in Task, NodeStep(t) PROVE OneInv'
  BY <1>0, <1>6, NodeStepOne
<1>. QED BY <1>1, <1>2, <1>3, <1>4, <1>5, <1>6 DEF Next

LEMMA OneInvariance ==
  ASSUME OneLease
  PROVE  Spec => [](IInv /\ OneInv)
<1>1. Init => IInv /\ OneInv
  BY InitIInv, InitOneInv
<1>2. IInv /\ OneInv /\ [Next]_vars => (IInv /\ OneInv)'
  BY NextIInv, NextOneInv
<1>. QED BY <1>1, <1>2, PTL DEF Spec

\* The slot gate of PlaceTask holds: under one leadership lease no node ever
\* carries more active attempts than it has slots.
THEOREM NeverOvercommits ==
  ASSUME OneLease
  PROVE  Spec => []NoOvercommit
<1>1. OneInv => NoOvercommit
  BY DEF OneInv, TablesOne
<1>. QED BY <1>1, OneInvariance, PTL

\* Under one lease the ledger of attempts agrees with the task row, and
\* earlier attempts have ended (CompleteTaskAttempt).
THEOREM LedgerAgrees ==
  ASSUME OneLease
  PROVE  Spec => []LedgerFollows
<1>1. OneInv => LedgerFollows
  BY DEF OneInv, TablesOne
<1>. QED BY <1>1, OneInvariance, PTL

\* Under one lease the attempts of a task carry the tokens of the leaderships
\* in their order (Release).
THEOREM TokensInOrder ==
  ASSUME OneLease
  PROVE  Spec => []TokensFollowAttempts
<1>1. OneInv => TokensFollowAttempts
  BY DEF OneInv, TablesOne
<1>. QED BY <1>1, OneInvariance, PTL

-----------------------------------------------------------------------------
(* The scheduler implements SingleFlight, under one lease *)

\* The attempts handed out, when one more is dispatched.
LEMMA SentGrows ==
  ASSUME NEW s \in Seq([attempt : Nat, node : Node]), NEW x \in [attempt : Nat, node : Node]
  PROVE  [k \in DOMAIN Append(s, x) |-> Append(s, x)[k].attempt]
           = Append([k \in DOMAIN s |-> s[k].attempt], x.attempt)
<1>. DEFINE m == [k \in DOMAIN s |-> s[k].attempt]
            l == [k \in DOMAIN Append(s, x) |-> Append(s, x)[k].attempt]
<1>1. /\ Len(s) \in Nat /\ DOMAIN s = 1..Len(s) /\ \A k \in DOMAIN s : s[k] \in [attempt : Nat, node : Node]
      /\ Len(Append(s, x)) = Len(s) + 1 /\ DOMAIN Append(s, x) = 1..Len(s) + 1
      /\ \A k \in 1..Len(s) : Append(s, x)[k] = s[k]
      /\ Append(s, x)[Len(s) + 1] = x
  <2>1. Len(s) \in Nat /\ DOMAIN s = 1..Len(s) /\ s \in [1..Len(s) -> [attempt : Nat, node : Node]]
    BY LenProperties
  <2>2. /\ Append(s, x) \in Seq([attempt : Nat, node : Node]) /\ Len(Append(s, x)) = Len(s) + 1
        /\ \A k \in 1..Len(s) : Append(s, x)[k] = s[k]
        /\ Append(s, x)[Len(s) + 1] = x
    BY AppendProperties
  <2>3. DOMAIN Append(s, x) = 1..Len(s) + 1
    BY <2>2, LenProperties
  <2>. QED BY <2>1, <2>2, <2>3
<1>2. m \in Seq(Nat) /\ Len(m) = Len(s)
  <2>1. m \in [1..Len(s) -> Nat]
    BY <1>1
  <2>2. m \in Seq(Nat)
    BY <1>1, <2>1
  <2>. QED BY <1>1, <2>1, <2>2, LenProperties
<1>3. /\ Append(m, x.attempt) \in Seq(Nat) /\ Len(Append(m, x.attempt)) = Len(s) + 1
      /\ \A k \in 1..Len(s) : Append(m, x.attempt)[k] = m[k]
      /\ Append(m, x.attempt)[Len(s) + 1] = x.attempt
  <2>1. x.attempt \in Nat
    OBVIOUS
  <2>. HIDE DEF m
  <2>. QED BY <1>2, <2>1, AppendProperties
<1>4. l \in [1..Len(s) + 1 -> Nat]
  <2>1. \A k \in 1..Len(s) + 1 : k \in 1..Len(s) \/ k = Len(s) + 1
    BY <1>1
  <2>. QED BY <1>1, <2>1
<1>5. l \in Seq(Nat) /\ Len(l) = Len(s) + 1
  <2>. HIDE DEF l
  <2>1. l \in Seq(Nat)
    BY <1>1, <1>4
  <2>. QED BY <1>1, <1>4, <2>1, LenProperties
<1>6. \A k \in 1..Len(s) + 1 : l[k] = Append(m, x.attempt)[k]
  <2>. SUFFICES ASSUME NEW k \in 1..Len(s) + 1 PROVE l[k] = Append(m, x.attempt)[k]
    OBVIOUS
  <2>1. CASE k \in 1..Len(s)
    BY <1>1, <1>3, <2>1
  <2>2. CASE k = Len(s) + 1
    <3>1. l[k] = x.attempt
      BY <1>1, <2>2
    <3>. HIDE DEF l, m
    <3>. QED BY <1>3, <2>2, <3>1
  <2>. QED BY <1>1, <2>1, <2>2
<1>. HIDE DEF l, m
<1>7. l = Append(m, x.attempt)
  BY <1>3, <1>5, <1>6, SeqEqual
<1>. QED BY <1>7 DEF l, m

LEMMA FlightInit == Init => SingleFlight!Init
<1>. SUFFICES ASSUME Init PROVE SingleFlight!Init
  OBVIOUS
<1>1. \A t \in Task : row[t].state \in {"NONE", "PENDING"} /\ row[t].attempt = 0 /\ outbox[t] = <<>>
  BY FirstRows DEF Init
<1>2. Phases \in [Task -> {"none", "waiting"}] /\ Attempts = [t \in Task |-> 0]
  <2>1. ASSUME NEW t \in Task PROVE Phase(row[t].state) \in {"none", "waiting"}
    <3>1. CASE row[t].state = "NONE"
      BY <3>1 DEF Phase, Active
    <3>2. CASE row[t].state = "PENDING"
      BY <3>2 DEF Phase, Active
    <3>. QED BY <1>1, <3>1, <3>2
  <2>. QED BY <1>1, <2>1 DEF Phases, Attempts
<1>3. Sent = [t \in Task |-> <<>>]
  <2>1. \A t \in Task : [k \in DOMAIN outbox[t] |-> outbox[t][k].attempt] = <<>>
    BY <1>1
  <2>. QED BY <2>1 DEF Sent
<1>. QED BY <1>2, <1>3 DEF SingleFlight!Init

\* One task's state changes within its attempt.
LEMMA FlightState ==
  ASSUME IInv, NEW t \in Task, NEW new \in Row, row' = [row EXCEPT ![t] = new], outbox' = outbox,
         new.attempt = row[t].attempt,
         \/ Phase(new.state) = Phase(row[t].state)
         \/ Phase(new.state) = "waiting" /\ ~Standing(t) /\ row[t].state \in States
         \/ Phase(new.state) = "ended" /\ Phase(row[t].state) \in {"waiting", "active"}
  PROVE  [SingleFlight!Next]_(SingleFlight!vars)
<1>1. row \in [Task -> Row]
  BY TableTypes
<1>2. Attempts' = Attempts /\ Sent' = Sent
  BY <1>1 DEF Attempts, Sent
<1>3. Phases' = [Phases EXCEPT ![t] = Phase(new.state)] /\ Phases[t] = Phase(row[t].state)
  BY <1>1 DEF Phases
<1>4. CASE Phase(new.state) = Phase(row[t].state)
  <2>1. Phases' = Phases
    BY <1>3, <1>4 DEF Phases
  <2>. QED BY <1>2, <2>1 DEF SingleFlight!vars
<1>5. CASE Phase(new.state) = "waiting" /\ ~Standing(t) /\ row[t].state \in States
  <2>1. Phases[t] \in {"none", "waiting"} \/ (Phases[t] = "ended" /\ t \notin Governed)
    BY <1>3, <1>5 DEF Phase, Standing, States, Active, Terminal
  <2>2. SingleFlight!MayStart(t)
    BY <2>1 DEF SingleFlight!MayStart
  <2>3. SingleFlight!Wait(t)
    BY <1>2, <1>3, <1>5, <2>2 DEF SingleFlight!Wait
  <2>. QED BY <2>3 DEF SingleFlight!Next
<1>6. CASE Phase(new.state) = "ended" /\ Phase(row[t].state) \in {"waiting", "active"}
  <2>1. SingleFlight!End(t)
    BY <1>2, <1>3, <1>6 DEF SingleFlight!End
  <2>. QED BY <2>1 DEF SingleFlight!Next
<1>. QED BY <1>4, <1>5, <1>6

LEMMA FlightWrite ==
  ASSUME IInv, OneInv, NEW w \in Worker, Write(w)
  PROVE  SingleFlight!Next
<1>. DEFINE t == job[w].task
            n == job[w].node
            a1 == job[w].attempt
            token == job[w].token
            sent == [attempt |-> a1, node |-> n]
<1>1. /\ job[w].pc = "write"
      /\ row' = [row EXCEPT ![t] = [state |-> "PLACED", attempt |-> a1, node |-> n, token |-> token]]
      /\ outbox' = [outbox EXCEPT ![t] = Append(@, sent)]
  BY DEF Write
<1>2. /\ t \in Task /\ n \in Node /\ a1 \in Nat /\ row \in [Task -> Row] /\ row[t].state \in States
      /\ outbox \in [Task -> Seq([attempt : Nat, node : Node])]
  BY <1>1, JobType, TableTypes DEF Row, Busy, IInv, TypeOK
<1>3. ~Standing(t) /\ a1 = row[t].attempt + 1
  BY <1>1 DEF OneInv, JobsOne, ReadsAreCurrent, Current
<1>4. Phases' = [Phases EXCEPT ![t] = "active"] /\ Phases[t] = Phase(row[t].state)
  BY <1>1, <1>2 DEF Phases, Phase, Active
<1>5. Attempts' = [Attempts EXCEPT ![t] = @ + 1] /\ Attempts[t] = row[t].attempt
  BY <1>1, <1>2, <1>3 DEF Attempts
<1>6. Sent' = [Sent EXCEPT ![t] = Append(@, Attempts[t] + 1)]
  <2>1. sent \in [attempt : Nat, node : Node] /\ sent.attempt = a1 /\ a1 = Attempts[t] + 1
    BY <1>2, <1>3, <1>5
  <2>. HIDE DEF sent, a1, t
  <2>2. [k \in DOMAIN Append(outbox[t], sent) |-> Append(outbox[t], sent)[k].attempt]
          = Append([k \in DOMAIN outbox[t] |-> outbox[t][k].attempt], Attempts[t] + 1)
    BY <1>2, <2>1, SentGrows
  <2>3. outbox'[t] = Append(outbox[t], sent) /\ \A u \in Task : u # t => outbox'[u] = outbox[u]
    BY <1>1, <1>2
  <2>4. /\ Sent'[t] = Append(Sent[t], Attempts[t] + 1)
        /\ \A u \in Task : u # t => Sent'[u] = Sent[u]
    BY <1>2, <2>2, <2>3 DEF Sent
  <2>5. Sent' = [u \in Task |-> Sent'[u]] /\ Sent = [u \in Task |-> Sent[u]]
    BY DEF Sent
  <2>. HIDE DEF Sent, Attempts
  <2>. QED BY <1>2, <2>4, <2>5
<1>7. SingleFlight!MayStart(t)
  <2>1. Phases[t] \in {"none", "waiting"} \/ (Phases[t] = "ended" /\ t \notin Governed)
    BY <1>2, <1>3, <1>4 DEF Phase, Standing, States, Active, Terminal
  <2>. QED BY <2>1 DEF SingleFlight!MayStart
<1>8. SingleFlight!Start(t)
  BY <1>4, <1>5, <1>6, <1>7 DEF SingleFlight!Start
<1>. QED BY <1>2, <1>8 DEF SingleFlight!Next

LEMMA FlightNext ==
  ASSUME IInv, OneInv, [Next]_vars
  PROVE  [SingleFlight!Next]_(SingleFlight!vars)
<1>1. CASE UNCHANGED <<row, ledger, taken, outbox>>
  BY <1>1 DEF SingleFlight!vars, Phases, Attempts, Sent
<1>2. ASSUME NEW w \in Worker, Write(w) PROVE SingleFlight!Next
  BY <1>2, FlightWrite
<1>3. ASSUME NEW r \in Request, Queue(r) PROVE [SingleFlight!Next]_(SingleFlight!vars)
  <2>. DEFINE t == job[r].task
              queued == Queued(t, job[r].token)
  <2>1. /\ row' \in {row, [row EXCEPT ![t] = queued]} /\ outbox' = outbox
        /\ t \in Task /\ job[r].token \in Nat /\ row[t] \in Row
    BY <1>3, JobType, TableTypes DEF Queue, Worker, Busy
  <2>2. CASE row' = row
    BY <2>1, <2>2 DEF SingleFlight!vars, Phases, Attempts, Sent
  <2>3. CASE row' = [row EXCEPT ![t] = queued]
    <3>1. /\ queued \in Row /\ queued.attempt = row[t].attempt
          /\ queued = row[t] \/ (queued.state = "PENDING" /\ ~Standing(t) /\ row[t].state \in States)
      <4>. HIDE DEF t
      <4>. QED BY <2>1 DEF Queued, Row, Active, Terminal, States, Standing
    <3>2. Phase("PENDING") = "waiting"
      BY DEF Phase, Active
    <3>. HIDE DEF queued, t
    <3>. QED BY <2>1, <2>3, <3>1, <3>2, FlightState
  <2>. QED BY <2>1, <2>2, <2>3
<1>4. ASSUME NEW r \in Request, Confirm(r) PROVE [SingleFlight!Next]_(SingleFlight!vars)
  <2>. DEFINE t == job[r].task
              state == Stopping(row[t].state)
              new == [row[t] EXCEPT !.state = state]
  <2>1. /\ row' \in {row, [row EXCEPT ![t] = new]} /\ outbox' = outbox
        /\ t \in Task /\ row[t] \in Row
    BY <1>4, JobType, TableTypes DEF Confirm, Worker, Busy
  <2>2. CASE row' = row
    BY <2>1, <2>2 DEF SingleFlight!vars, Phases, Attempts, Sent
  <2>3. CASE row' = [row EXCEPT ![t] = new]
    <3>1. row[t].state \in States
      BY <2>1 DEF Row
    <3>2. /\ state \in States
          /\ \/ Phase(state) = Phase(row[t].state)
             \/ Phase(state) = "ended" /\ Phase(row[t].state) = "waiting"
      <4>. HIDE DEF t
      <4>. QED BY <3>1 DEF Stopping, Phase, States, Active, Terminal
    <3>. HIDE DEF state
    <3>3. new \in Row /\ new.attempt = row[t].attempt /\ new.state = state
      BY <2>1, <3>2 DEF Row
    <3>. HIDE DEF new, t
    <3>. QED BY <2>1, <2>3, <3>2, <3>3, FlightState
  <2>. QED BY <2>1, <2>2, <2>3
<1>5. ASSUME NEW t \in Task, NodeStep(t) PROVE [SingleFlight!Next]_(SingleFlight!vars)
  <2>1. PICK state \in Active \cup Terminal :
           row' = [row EXCEPT ![t].state = state] /\ outbox' = outbox /\ row[t].state \in Active
    <3>1. Finals \subseteq Active \cup Terminal
      BY SchedulerAssumption
    <3>. QED BY <1>5, <3>1 DEF NodeStep, Take, Settle, Report, Active
  <2>. DEFINE new == [row[t] EXCEPT !.state = state]
  <2>2. row[t] \in Row
    BY TableTypes
  <2>3. new \in Row /\ new.attempt = row[t].attempt /\ new.state = state
    BY <2>2 DEF Row, States
  <2>4. Phase(row[t].state) = "active" /\ Phase(state) \in {"active", "ended"}
    BY <2>1 DEF Phase, Active, Terminal
  <2>5. row' = [row EXCEPT ![t] = new]
    BY <2>1
  <2>. HIDE DEF new
  <2>. QED BY <2>1, <2>3, <2>4, <2>5, FlightState
<1>. QED BY <1>1, <1>2, <1>3, <1>4, <1>5, WhoWrites, WhoDispatches

\* Under one lease the scheduler implements the abstract promise: a task runs
\* one attempt at a time, attempts are numbered without a gap, each is handed
\* to one node, once, and a governed run that ended is not started again
\* (PlaceTask, CompleteTaskAttempt).
THEOREM ImplementsSingleFlight ==
  ASSUME OneLease
  PROVE  Spec => SingleFlightSpec
<1>1. IInv /\ OneInv /\ [Next]_vars => [SingleFlight!Next]_(SingleFlight!vars)
  BY FlightNext
<1>. QED BY <1>1, FlightInit, OneInvariance, PTL DEF Spec, SingleFlightSpec, SingleFlight!Spec
===============================================================================
