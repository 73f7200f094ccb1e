------------------------------ MODULE Delegation ------------------------------
(***************************************************************************)
(* Delegated tasks and their execution attempts in the governance service  *)
(* (internal/server, internal/store).  A task keeps a projection of its    *)
(* latest run; every retry opens another run, and with a scheduler         *)
(* configured each run is handed to it through an outbox under the run's   *)
(* own id.  Transactions on one task's row are steps.  A handler that      *)
(* reads, asks the scheduler or runs two transactions is several: what it  *)
(* read stays in its call.                                                 *)
(***************************************************************************)
EXTENDS TaskStates, Sequences

CONSTANTS
  Task, None,
  Caller,      \* the handlers at work
  Loop,        \* the delivery loops (one per replica)
  ParentOf,    \* ParentOf[t]: the task t is delegated from, or None
  Legacy,      \* the tasks stored before there were runs and business states
  Scheduled,   \* whether a scheduler is configured
  Reported,    \* bound: the execution states reports name
  Asked,       \* bound: the business events anybody asks for
  MaxAttempt   \* bound: no task gets more runs

VARIABLES
  task,      \* task[t]: the row, or None
  run,       \* run[t]: the states of the runs of t, first attempt first
  result,    \* result[t][n]: the result recorded for a run, or None
  outbox,    \* the runs whose hand-over to the scheduler is pending
  placed,    \* placed[t][n]: the scheduler's state for a run, or None
  call,      \* call[c]: what a handler or the delivery loop holds, or None
  finished,  \* the tasks whose audit trail has a "complete" event
  accepted   \* history: the tasks that have been DONE

vars == <<task, run, result, outbox, placed, call, finished, accepted>>

Attempt == 1..MaxAttempt
Latest(t) == Len(run[t])
Row(state, biz, sched) == [state |-> state, biz |-> biz, sched |-> sched]

\* The rows an upgraded installation starts with.
Old == {Row(state, None, 1) : state \in {"RUNNING", "FAILED"}}

Init ==
  /\ \E old \in [Legacy -> Old] : task = [t \in Task |-> IF t \in Legacy THEN old[t] ELSE None]
  /\ run = [t \in Task |-> <<>>]
  /\ result = [t \in Task |-> [n \in Attempt |-> None]]
  /\ outbox = {}
  /\ placed = [t \in Task |-> [n \in Attempt |->
                               IF t \in Legacy /\ n = 1 THEN task[t].state ELSE None]]
  /\ call = [c \in Caller \cup Loop |-> None]
  /\ finished = {}
  /\ accepted = {}

(***************************************************************************)
(* The parent's row is locked by whoever opens work under it and by        *)
(* whoever closes it.                                                      *)
(***************************************************************************)
\* parentAcceptsWork: nothing is opened under a closed task.
ParentAcceptsWork(t) ==
  LET p == ParentOf[t] IN p # None => task[p] # None /\ task[p].biz \notin Closed

\* prepareTaskIntent: a child is delegated from a task in execution.
ParentDelegates(t) ==
  LET p == ParentOf[t] IN p # None => ParentAcceptsWork(t) /\ task[p].state \in Active

(***************************************************************************)
(* Tasks and runs.                                                         *)
(***************************************************************************)
\* createDelegatedTask: the task and its first run in one transaction.
Insert(t, state, sched) ==
  /\ task[t] = None
  /\ ParentDelegates(t)
  /\ task' = [task EXCEPT ![t] = Row(state, "ASSIGNED", sched)]
  /\ run' = [run EXCEPT ![t] = <<state>>]
  /\ outbox' = IF sched = 1 THEN outbox \cup {<<t, 1>>} ELSE outbox

\* createDelegation: the assignee is chosen, the run waits for the scheduler
\* if there is one.
Create(t) ==
  /\ IF Scheduled THEN Insert(t, "QUEUED", 1) ELSE Insert(t, "ASSIGNED", 0)
  /\ UNCHANGED <<result, placed, call, finished, accepted>>

\* The runs of t, its legacy execution included as attempt 1.
Runs(t) == IF run[t] = <<>> /\ task[t].sched # 0 THEN <<task[t].state>> ELSE run[t]

\* Faulty variant: only a first run is handed over.
AddRunUnsent(t, state, own) ==
  LET n == Len(Runs(t)) + 1 IN
  /\ n \in Attempt
  /\ run' = [run EXCEPT ![t] = Append(Runs(t), state)]
  /\ task' = [task EXCEPT ![t] = Row(state, IF @.biz = None THEN None ELSE "ASSIGNED",
                                     IF own THEN n ELSE 0)]
  /\ UNCHANGED outbox

\* The next run of t, written over the task's projection too.
AddRun(t, state, own) ==
  LET n == Len(Runs(t)) + 1 IN
  /\ n \in Attempt
  /\ run' = [run EXCEPT ![t] = Append(Runs(t), state)]
  /\ task' = [task EXCEPT ![t] = Row(state, IF @.biz = None THEN None ELSE "ASSIGNED",
                                     IF own THEN n ELSE 0)]
  /\ outbox' = IF own THEN outbox \cup {<<t, n>>} ELSE outbox

\* createNextTaskRun.
NextRun(t, state, own) ==
  /\ task[t].state \notin Active
  /\ task[t].biz \notin Closed
  /\ ParentAcceptsWork(t)
  /\ AddRun(t, state, own)

\* retryDelegation, reassignDelegation: the state is checked on a read.
ReadForRetry(c, t) ==
  /\ Scheduled
  /\ call[c] = None
  /\ task[t] # None /\ task[t].state \in {"FAILED", "CANCELLED", "BLOCKED"}
  /\ call' = [call EXCEPT ![c] = [op |-> "retry", t |-> t]]
  /\ UNCHANGED <<task, run, result, outbox, placed, finished, accepted>>

\* ... and the run goes in with the transaction's own checks.
Retry(c) ==
  /\ call[c] # None /\ call[c].op = "retry"
  /\ NextRun(call[c].t, "QUEUED", TRUE)
  /\ call' = [call EXCEPT ![c] = None]
  /\ UNCHANGED <<result, placed, finished, accepted>>

\* createTaskRun: the execution side opens a run of its own; a business event
\* it names follows as a transaction of its own.
ReportNewRun(c, t, state, event) ==
  /\ call[c] = None
  /\ task[t] # None
  /\ NextRun(t, state, FALSE)
  /\ call' = IF event = None THEN call
             ELSE [call EXCEPT ![c] = [op |-> "event", t |-> t, event |-> event]]
  /\ UNCHANGED <<result, placed, finished, accepted>>

\* What UpdateTaskRun makes of a report on the latest run of t: an ended run
\* takes only its own state again.
RunTakes(t, n, state) ==
  /\ n \in 1..Latest(t)
  /\ \/ run[t][n] \in Active /\ n = Latest(t)
     \/ run[t][n] = state /\ state \notin Active

\* UpdateDelegationTask: likewise for the projection.
TaskTakes(t, state) == task[t].state \in Active \/ task[t].state = state

SetTask(t, state) == task' = [task EXCEPT ![t].state = state]
SetRun(t, n, state) == run' = [run EXCEPT ![t] = [@ EXCEPT ![n] = state]]

\* updateTaskRun: the run alone; the task's projection is not touched.
ReportRun(c, t, n, state, event) ==
  /\ call[c] = None
  /\ RunTakes(t, n, state)
  /\ SetRun(t, n, state)
  /\ call' = IF event = None THEN call
             ELSE [call EXCEPT ![c] = [op |-> "event", t |-> t, event |-> event]]
  /\ UNCHANGED <<task, result, outbox, placed, finished, accepted>>

\* updateDelegationStatus: the transition is judged on a read ...
ReadForStatus(c, t) ==
  /\ call[c] = None
  /\ task[t] # None
  /\ call' = [call EXCEPT ![c] = [op |-> "status", t |-> t, from |-> task[t].state]]
  /\ UNCHANGED <<task, run, result, outbox, placed, finished, accepted>>

\* ... and the projection alone is moved.
Status(c, state) ==
  /\ call[c] # None /\ call[c].op = "status"
  /\ ValidDelegationTransition(call[c].from, state)
  /\ TaskTakes(call[c].t, state)
  /\ SetTask(call[c].t, state)
  /\ call' = [call EXCEPT ![c] = None]
  /\ UNCHANGED <<run, result, outbox, placed, finished, accepted>>

(***************************************************************************)
(* Cancelling and reconciling: the scheduler answers for the scheduler id  *)
(* read from the task, the answer goes to the task, then to its newest     *)
(* run.                                                                    *)
(***************************************************************************)
\* cancelScheduledRun: a waiting run is aborted, a placed one told to stop.
StopAnswer(state) ==
  CASE state = "PENDING" -> "ABORTED"
    [] state \in {"PLACED", "RUNNING"} -> "CANCELLING"
    [] OTHER -> state

\* cancelDelegation.
Cancel(c, t) ==
  /\ call[c] = None
  /\ task[t] # None /\ task[t].sched # 0
  /\ LET n == task[t].sched
         answer == StopAnswer(placed[t][n])
     IN /\ placed[t][n] # None
        /\ placed' = [placed EXCEPT ![t][n] = answer]
        /\ call' = [call EXCEPT ![c] = [op |-> "mirror", t |-> t, state |-> FromScheduler[answer]]]
  /\ UNCHANGED <<task, run, result, outbox, finished, accepted>>

\* reconcileCancelling, on a read of a stopping task.
Reconcile(c, t) ==
  /\ call[c] = None
  /\ task[t] # None /\ task[t].sched # 0 /\ task[t].state = "CANCELLING"
  /\ placed[t][task[t].sched] \notin {None, "CANCELLING"}
  /\ call' = [call EXCEPT ![c] = [op |-> "mirror", t |-> t,
                                  state |-> FromScheduler[placed[t][task[t].sched]]]]
  /\ UNCHANGED <<task, run, result, outbox, placed, finished, accepted>>

\* mirrorExecutionState, first half.
MirrorTask(c) ==
  /\ call[c] # None /\ call[c].op = "mirror"
  /\ TaskTakes(call[c].t, call[c].state)
  /\ SetTask(call[c].t, call[c].state)
  /\ call' = [call EXCEPT ![c].op = "mirrorRun"]
  /\ UNCHANGED <<run, result, outbox, placed, finished, accepted>>

\* ... and the run that is newest now.
MirrorRun(c) ==
  /\ call[c] # None /\ call[c].op = "mirrorRun"
  /\ LET t == call[c].t IN
     /\ RunTakes(t, Latest(t), call[c].state)   \* a legacy task may have none
     /\ SetRun(t, Latest(t), call[c].state)
  /\ call' = [call EXCEPT ![c] = None]
  /\ UNCHANGED <<task, result, outbox, placed, finished, accepted>>

\* A handler that is refused, fails or whose process dies does no more.
Abandon(c) ==
  /\ call[c] # None
  /\ call' = [call EXCEPT ![c] = None]
  /\ UNCHANGED <<task, run, result, outbox, placed, finished, accepted>>

(***************************************************************************)
(* Handing a run to the scheduler.                                         *)
(***************************************************************************)
\* placeRun: the scheduler admits a run once, then says what became of it.
Placement(t, n, first) == IF placed[t][n] = None THEN first ELSE placed[t][n]

\* scheduleRun: a run that ended or was replaced is only acknowledged.
Deliver(c, t, n) ==
  /\ call[c] = None
  /\ <<t, n>> \in outbox
  /\ \E first \in {"PENDING", "PLACED"} :
       LET stale == run[t][n] \notin Active \/ task[t].sched # n
           state == IF stale THEN run[t][n] ELSE FromScheduler[Placement(t, n, first)]
       IN /\ placed' = IF stale THEN placed ELSE [placed EXCEPT ![t][n] = Placement(t, n, first)]
          /\ call' = [call EXCEPT ![c] = [op |-> "record", t |-> t, n |-> n, state |-> state]]
  /\ UNCHANGED <<task, run, result, outbox, finished, accepted>>

\* RunScheduling: a delivery that fails, its answer perhaps lost, stays due.
Defer(c) ==
  /\ call[c] # None /\ call[c].op = "record"
  /\ call' = [call EXCEPT ![c] = None]
  /\ UNCHANGED <<task, run, result, outbox, placed, finished, accepted>>

\* RecordRunPlacement: only a current run that waits, and never backwards.
Projects(t, n, state) ==
  /\ n = Latest(t)
  /\ {task[t].state, run[t][n]} \subseteq {"QUEUED", "ASSIGNED"}
  /\ state = "QUEUED" => "ASSIGNED" \notin {task[t].state, run[t][n]}

RecordPlacement(c) ==
  /\ call[c] # None /\ call[c].op = "record"
  /\ LET t == call[c].t
         n == call[c].n IN
     /\ IF Projects(t, n, call[c].state)
        THEN SetTask(t, call[c].state) /\ SetRun(t, n, call[c].state)
        ELSE UNCHANGED <<task, run>>
     /\ outbox' = outbox \ {<<t, n>>}
  /\ call' = [call EXCEPT ![c] = None]
  /\ UNCHANGED <<result, placed, finished, accepted>>

\* The scheduler and its nodes.
Execution(t, n) ==
  /\ \E to \in {"PENDING", "PLACED", "RUNNING", "COMPLETED", "FAILED", "ABORTED"} :
       /\ \/ placed[t][n] = "PENDING" /\ to = "PLACED"
          \/ placed[t][n] = "PLACED" /\ to \in {"RUNNING", "FAILED"}
          \/ placed[t][n] = "RUNNING" /\ to \in {"COMPLETED", "FAILED"}
          \/ placed[t][n] = "CANCELLING" /\ to \in {"COMPLETED", "ABORTED"}
       /\ placed' = [placed EXCEPT ![t][n] = to]
  /\ UNCHANGED <<task, run, result, outbox, call, finished, accepted>>

(***************************************************************************)
(* Results and business events.                                            *)
(***************************************************************************)
\* Faulty variant: a result of any attempt is taken.
TakesResultOfAny(t, n, state) ==
  /\ n \in 1..Latest(t) /\ result[t][n] = None
  /\ task[t].biz \notin Closed

\* recordTaskResultTx: the first result of the current run, which has not
\* ended otherwise, of a task that is open.
TakesResult(t, n, state) ==
  /\ n \in 1..Latest(t) /\ result[t][n] = None
  /\ n = Latest(t)
  /\ run[t][n] \in Active \cup {state}
  /\ task[t].biz \notin Closed

Result(t, n, state) ==
  /\ TakesResult(t, n, state)
  /\ result' = [result EXCEPT ![t][n] = state]
  /\ SetRun(t, n, state)
  /\ task' = [task EXCEPT ![t].state = state,
                          ![t].biz = IF state = "COMPLETED" /\ @ \in {"ASSIGNED", "EXECUTING"}
                                     THEN "VERIFYING" ELSE @]
  /\ UNCHANGED <<outbox, placed, call, finished, accepted>>

Children(t) == {u \in Task : ParentOf[u] = t /\ task[u] # None}

\* collaborationSummary: the children counted as accepted, those in execution.
Accepted(t) == {u \in Children(t) :
  task[u].biz = "DONE" \/ (task[u].biz = "ARCHIVED" /\ u \in finished)}
Executing(t) == {u \in Children(t) : task[u].state \in Active}

\* Faulty variant: a closed task may have children at work.
MayCloseAlone(t, event) == event \in {"reject", "archive"} => task[t].state \notin Active

MayClose(t, event) ==
  event \in {"reject", "archive"} => task[t].state \notin Active /\ Executing(t) = {}

\* Faulty variant: a result of any attempt will do.
MayCompleteOnAnyResult(t, event) ==
  event = "complete" =>
    /\ Children(t) \subseteq Accepted(t)
    /\ \E n \in 1..Latest(t) : result[t][n] = "COMPLETED"

MayComplete(t, event) ==
  event = "complete" =>
    /\ Children(t) \subseteq Accepted(t)
    /\ Latest(t) > 0 /\ run[t][Latest(t)] = "COMPLETED" /\ result[t][Latest(t)] = "COMPLETED"

MayReroute(t, event) ==
  event = "reroute" => task[t].state \notin Active /\ ParentAcceptsWork(t)

\* TransitionBusinessTask: the business state and the audit event, together.
Transition(t, event, gate) ==
  LET next == Gated(event, gate) IN
  /\ task[t] # None /\ task[t].biz # None
  /\ CanTransitionGated(task[t].biz, event, gate)
  /\ \/ next = task[t].biz /\ UNCHANGED <<task, finished, accepted>>
     \/ /\ next # task[t].biz
        /\ MayClose(t, event)
        /\ MayComplete(t, event)
        /\ MayReroute(t, event)
        /\ task' = [task EXCEPT ![t].biz = next]
        /\ finished' = IF event = "complete" THEN finished \cup {t} ELSE finished
        /\ accepted' = IF next = "DONE" THEN accepted \cup {t} ELSE accepted
  /\ UNCHANGED <<run, result, outbox, placed>>

\* transitionTask: the requester's events.
Decide(t, event, gate) == Transition(t, event, gate) /\ UNCHANGED call

\* The business event of an execution report.
ReportEvent(c) ==
  /\ call[c] # None /\ call[c].op = "event"
  /\ Transition(call[c].t, call[c].event, FALSE)
  /\ call' = [call EXCEPT ![c] = None]

Handler(c) ==
  \/ \E t \in Task : \/ ReadForRetry(c, t)
                     \/ ReadForStatus(c, t)
                     \/ Cancel(c, t)
                     \/ Reconcile(c, t)
  \/ \E t \in Task, state \in Reported, event \in (ExecutionEvent \cap Asked) \cup {None} :
       \/ ReportNewRun(c, t, state, event)
       \/ \E n \in Attempt : ReportRun(c, t, n, state, event)
  \/ Retry(c)
  \/ \E state \in Reported : Status(c, state)
  \/ MirrorTask(c)
  \/ MirrorRun(c)
  \/ ReportEvent(c)
  \/ Abandon(c)

Next ==
  \/ \E c \in Caller : Handler(c)
  \/ \E c \in Loop : \/ \E t \in Task, n \in Attempt : Deliver(c, t, n)
                     \/ RecordPlacement(c)
                     \/ Defer(c)
  \/ \E t \in Task :
       \/ Create(t)
       \/ \E event \in Asked, gate \in BOOLEAN : Decide(t, event, gate)
       \/ \E n \in Attempt :
            \/ Execution(t, n)
            \/ \E state \in {"COMPLETED", "FAILED", "CANCELLED"} : Result(t, n, state)

Spec == Init /\ [][Next]_vars

-------------------------------------------------------------------------------
SchedulerState == DOMAIN FromScheduler
TaskRow == [state : DelegationState, biz : {None} \cup BusinessState, sched : {0} \cup Attempt]
Call ==
  [op : {"retry"}, t : Task]
    \cup [op : {"event"}, t : Task, event : ExecutionEvent]
    \cup [op : {"status"}, t : Task, from : DelegationState]
    \cup [op : {"mirror", "mirrorRun"}, t : Task, state : DelegationState]
    \cup [op : {"record"}, t : Task, n : Attempt, state : DelegationState]

\* What an instance must give the constants: None stands for nothing else, the
\* handlers and the delivery loops are different ones, and callers ask only for
\* what the program knows.
DelegationConstants ==
  /\ MaxAttempt \in Nat \ {0}
  /\ None \notin BusinessState \cup DelegationState \cup SchedulerState \cup ExecutionEvent \cup Task
  /\ None \notin Call \cup TaskRow
  /\ ParentOf \in [Task -> Task \cup {None}]
  /\ Legacy \subseteq Task
  /\ Caller \cap Loop = {}
  /\ Reported \subseteq DelegationState
  /\ Asked \subseteq Event

\* The rows, the pending hand-overs and the calls are well formed: a row keeps
\* the scheduler id of one of its runs, and a hand-over belongs to a run.
TypeOK ==
  /\ task \in [Task -> {None} \cup TaskRow]
  /\ run \in [Task -> UNION {[1..n -> DelegationState] : n \in 0..MaxAttempt}]
  /\ result \in [Task -> [Attempt -> {None, "COMPLETED", "FAILED", "CANCELLED"}]]
  /\ placed \in [Task -> [Attempt -> {None} \cup SchedulerState]]
  /\ call \in [Caller \cup Loop -> {None} \cup Call]
  /\ \A p \in outbox : p[1] \in Task /\ p[2] \in 1..Latest(p[1])
  /\ finished \cup accepted \subseteq Task

\* Once a task is closed, neither it nor any task delegated from it is in
\* execution, however closing, delegating, retrying and rerouting interleave.
ClosedTreeIsQuiet ==
  \A t \in Task : task[t] # None /\ task[t].biz \in Closed =>
    task[t].state \notin Active /\ Executing(t) = {}

\* A task stands as DONE only on its newest run, which ended COMPLETED with a
\* recorded result that says the same.
DoneRestsOnAResult ==
  \A t \in Task : task[t] # None /\ task[t].biz = "DONE" =>
    /\ task[t].state = "COMPLETED"
    /\ run[t][Latest(t)] = "COMPLETED" /\ result[t][Latest(t)] = "COMPLETED"

\* Attempts are history: late reports, stale answers and placements that come
\* after the end change no ended run, and no recorded result.
AttemptsKept ==
  \A t \in Task :
    /\ \A n \in 1..Latest(t) : run[t][n] \notin Active => run'[t][n] = run[t][n]
    /\ \A n \in Attempt : result[t][n] # None => result'[t][n] = result[t][n]

\* The same of every behaviour.
AttemptsStandStill == [][AttemptsKept]_vars

\* The run a task waits for is not forgotten: its hand-over is pending or the
\* scheduler has it.
WaitingRunIsCared ==
  \A t \in Task : task[t] # None /\ run[t] # <<>> /\ task[t].sched = Latest(t)
      /\ run[t][Latest(t)] = "QUEUED" =>
    <<t, Latest(t)>> \in outbox \/ placed[t][Latest(t)] # None

\* A task closed as DONE delegated nothing that was not accepted in its turn
\* ("child tasks still require acceptance").
DoneChildrenWereAccepted ==
  \A t \in Task : task[t] # None /\ task[t].biz = "DONE" => Children(t) \subseteq accepted
===============================================================================
