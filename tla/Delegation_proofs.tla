--------------------------- MODULE Delegation_proofs ---------------------------
(***************************************************************************)
(* Proofs about Delegation: the rows and calls are well formed, ended      *)
(* attempts and recorded results stand still, a task is DONE on its newest *)
(* run and result only, nothing is in execution in or directly under a     *)
(* closed task, and a run a task waits for is never forgotten.  The        *)
(* theorems assume DelegationConstants, which the instances that are       *)
(* model-checked satisfy.                                                  *)
(***************************************************************************)
EXTENDS Delegation, TLAPS

-----------------------------------------------------------------------------
(* The inductive invariant *)

\* A task that is not there has no runs, and a run that is not there no result.
RunsAreOfRows ==
  \A t \in Task :
    /\ task[t] = None => run[t] = <<>>
    /\ \A n \in Attempt : n > Latest(t) => result[t][n] = None

\* A call is about a task that is there, a delivery about one of its runs.
CallKnown(c) ==
  call[c] # None =>
    /\ task[call[c].t] # None
    /\ call[c].op = "record" => call[c].n \in 1..Latest(call[c].t)
CallsAreKnown == \A c \in Caller \cup Loop : CallKnown(c)

\* The result of the newest run is what the run and the task say: why the task
\* is COMPLETED when "complete" looks at the run and the result only.
ResultStands(t) ==
  Latest(t) > 0 /\ result[t][Latest(t)] # None =>
    task[t].state = result[t][Latest(t)] /\ run[t][Latest(t)] = result[t][Latest(t)]
ResultsStand == \A t \in Task : ResultStands(t)

\* A run at work that the scheduler is to execute is on its way there or there.
Cared(t) ==
  task[t] # None /\ run[t] # <<>> /\ task[t].sched = Latest(t) /\ run[t][Latest(t)] \in Active =>
    <<t, Latest(t)>> \in outbox \/ placed[t][Latest(t)] # None
ActiveRunIsCared == \A t \in Task : Cared(t)

\* What a delivery is about to acknowledge is with the scheduler, ended, or
\* replaced: why the acknowledgement forgets no run.
AtRest(t, n) ==
  \/ placed[t][n] # None
  \/ run[t][n] \notin Active
  \/ task[t].sched # n
RecordRests(c) == call[c] # None /\ call[c].op = "record" => AtRest(call[c].t, call[c].n)
RecordsRest == \A c \in Caller \cup Loop : RecordRests(c)

\* A task that is DONE has a run.
DoneHasRun == \A t \in Task : task[t] # None /\ task[t].biz = "DONE" => Latest(t) > 0

IInv ==
  /\ TypeOK /\ RunsAreOfRows /\ CallsAreKnown /\ RecordsRest
  /\ ResultsStand /\ ActiveRunIsCared /\ ClosedTreeIsQuiet /\ DoneRestsOnAResult /\ DoneHasRun

-----------------------------------------------------------------------------
(* The tables and the rows *)

LEMMA FromSchedulerType ==
  ASSUME NEW s \in SchedulerState
  PROVE  FromScheduler[s] \in DelegationState
BY DEF SchedulerState, FromScheduler, DelegationState

LEMMA SchedulerStates ==
  SchedulerState = {"PENDING", "PLACED", "RUNNING", "CANCELLING", "COMPLETED", "FAILED", "ABORTED"}
BY DEF SchedulerState, FromScheduler

\* Where a business event may lead.
LEMMA TargetType ==
  ASSUME NEW event \in Event, NEW gate \in BOOLEAN
  PROVE  /\ Gated(event, gate) \in BusinessState
         /\ Gated(event, gate) \in Closed => event \in {"complete", "reject", "archive"}
         /\ Gated(event, gate) = "DONE" => event = "complete"
BY DEF Event, Gated, Target, BusinessState, Closed

LEMMA RunShape ==
  ASSUME MaxAttempt \in Nat, NEW s
  PROVE  s \in UNION {[1..n -> DelegationState] : n \in 0..MaxAttempt} <=>
           s \in Seq(DelegationState) /\ Len(s) \in 0..MaxAttempt
<1>1. ASSUME NEW n \in 0..MaxAttempt, s \in [1..n -> DelegationState]
      PROVE  s \in Seq(DelegationState) /\ Len(s) \in 0..MaxAttempt
  BY <1>1
<1>2. ASSUME s \in Seq(DelegationState), Len(s) \in 0..MaxAttempt
      PROVE  \E n \in 0..MaxAttempt : s \in [1..n -> DelegationState]
  BY <1>2
<1>. QED BY <1>1, <1>2

\* The rows of one task.
LEMMA Shapes ==
  ASSUME DelegationConstants, TypeOK, NEW t \in Task
  PROVE  /\ task[t] # None => /\ task[t] \in TaskRow /\ task[t].state \in DelegationState
                              /\ task[t].biz \in {None} \cup BusinessState /\ task[t].sched \in {0} \cup Attempt
         /\ run[t] \in Seq(DelegationState) /\ Len(run[t]) \in 0..MaxAttempt
         /\ \A n \in 1..Len(run[t]) : run[t][n] \in DelegationState
         /\ \A n \in Attempt : /\ result[t][n] \in {None, "COMPLETED", "FAILED", "CANCELLED"}
                               /\ placed[t][n] \in {None} \cup SchedulerState
<1>1. task[t] \in {None} \cup TaskRow
  BY DEF TypeOK, TaskRow
<1>2. run[t] \in Seq(DelegationState) /\ Len(run[t]) \in 0..MaxAttempt
  BY RunShape DEF TypeOK, DelegationConstants
<1>. QED BY <1>1, <1>2 DEF TypeOK, TaskRow

\* Well formed rows, one by one.
LEMMA TypeByRows ==
  ASSUME DelegationConstants, TypeOK, NEW t \in Task,
         NEW row \in {None} \cup TaskRow, task' = [task EXCEPT ![t] = row]
  PROVE  task' \in [Task -> {None} \cup TaskRow]
BY DEF TypeOK, TaskRow

LEMMA RunsByRows ==
  ASSUME DelegationConstants, TypeOK, NEW t \in Task,
         NEW s \in Seq(DelegationState), Len(s) \in 0..MaxAttempt, run' = [run EXCEPT ![t] = s]
  PROVE  run' \in [Task -> UNION {[1..n -> DelegationState] : n \in 0..MaxAttempt}]
<1>1. s \in UNION {[1..n -> DelegationState] : n \in 0..MaxAttempt}
  BY RunShape DEF DelegationConstants
<1>. QED BY <1>1 DEF TypeOK

-----------------------------------------------------------------------------
(* What a step does to the rows, and what it does to the calls *)

Data == <<task, run, result, outbox, placed>>

Opens(t) ==
  \E state \in DelegationState, sched \in {0, 1} : Insert(t, state, sched) /\ UNCHANGED <<result, placed>>
Adds(t) ==
  \E state \in DelegationState, own \in BOOLEAN :
    task[t] # None /\ NextRun(t, state, own) /\ UNCHANGED <<result, placed>>
Reports(t) ==
  \E n \in Attempt, state \in DelegationState :
    RunTakes(t, n, state) /\ SetRun(t, n, state) /\ UNCHANGED <<task, result, outbox, placed>>
Moves(t) ==
  \E state \in DelegationState :
    task[t] # None /\ TaskTakes(t, state) /\ SetTask(t, state) /\ UNCHANGED <<run, result, outbox, placed>>
Places(t) ==
  \E n \in Attempt, s \in SchedulerState :
    placed' = [placed EXCEPT ![t][n] = s] /\ UNCHANGED <<task, run, result, outbox>>
Acknowledges(t) ==
  \E n \in Attempt, state \in DelegationState :
    /\ n \in 1..Latest(t) /\ task[t] # None /\ AtRest(t, n)
    /\ IF Projects(t, n, state) THEN SetTask(t, state) /\ SetRun(t, n, state) ELSE UNCHANGED <<task, run>>
    /\ outbox' = outbox \ {<<t, n>>}
    /\ UNCHANGED <<result, placed>>
Ends(t) == \E n \in Attempt, state \in {"COMPLETED", "FAILED", "CANCELLED"} : Result(t, n, state)
Decides(t) == \E event \in Event, gate \in BOOLEAN : Transition(t, event, gate)

Touches(t) ==
  \/ Opens(t) \/ Adds(t) \/ Reports(t) \/ Moves(t) \/ Places(t)
  \/ Acknowledges(t) \/ Ends(t) \/ Decides(t)

\* What is in a call.
LEMMA CallShape ==
  ASSUME DelegationConstants, IInv, NEW c \in Caller \cup Loop, call[c] # None
  PROVE  /\ call[c] \in Call /\ call[c].t \in Task /\ task[call[c].t] # None
         /\ call[c].op \in {"mirror", "mirrorRun"} => call[c].state \in DelegationState
         /\ call[c].op = "event" => call[c].event \in ExecutionEvent
         /\ call[c].op = "record" => /\ call[c].n \in Attempt /\ call[c].n \in 1..Latest(call[c].t)
                                     /\ call[c].state \in DelegationState /\ AtRest(call[c].t, call[c].n)
<1>1. call[c] \in Call
  BY DEF IInv, TypeOK
<1>2. CallKnown(c) /\ RecordRests(c)
  BY DEF IInv, CallsAreKnown, RecordsRest
<1>. QED BY <1>1, <1>2 DEF Call, CallKnown, RecordRests

LEMMA DataKinds ==
  ASSUME DelegationConstants, IInv, [Next]_vars
  PROVE  (\E t \in Task : Touches(t)) \/ UNCHANGED Data
<1>1. ASSUME NEW c \in Caller \cup Loop, NEW t \in Task,
             ReadForRetry(c, t) \/ ReadForStatus(c, t) \/ Reconcile(c, t)
      PROVE  UNCHANGED Data
  BY <1>1 DEF ReadForRetry, ReadForStatus, Reconcile, Data
<1>2. ASSUME NEW c \in Caller \cup Loop, Abandon(c) \/ Defer(c) PROVE UNCHANGED Data
  BY <1>2 DEF Abandon, Defer, Data
<1>3. ASSUME NEW t \in Task, Create(t) PROVE Opens(t)
  BY <1>3 DEF Create, Opens, DelegationState
<1>4. ASSUME NEW c \in Caller \cup Loop, Retry(c) PROVE \E t \in Task : Adds(t)
  BY <1>4, CallShape DEF Retry, Adds, DelegationState
<1>5. ASSUME NEW c \in Caller \cup Loop, NEW t \in Task, NEW state \in Reported,
             NEW event \in ExecutionEvent \cup {None}, ReportNewRun(c, t, state, event)
      PROVE  Adds(t)
  BY <1>5 DEF ReportNewRun, Adds, DelegationConstants
<1>6. ASSUME NEW c \in Caller \cup Loop, NEW t \in Task, NEW n \in Attempt, NEW state \in Reported,
             NEW event \in ExecutionEvent \cup {None}, ReportRun(c, t, n, state, event)
      PROVE  Reports(t)
  BY <1>6 DEF ReportRun, Reports, DelegationConstants
<1>7. ASSUME NEW c \in Caller \cup Loop, MirrorRun(c) PROVE \E t \in Task : Reports(t)
  <2>. DEFINE t == call[c].t
  <2>1. t \in Task /\ call[c].state \in DelegationState
    BY <1>7, CallShape DEF MirrorRun
  <2>2. RunTakes(t, Latest(t), call[c].state) /\ SetRun(t, Latest(t), call[c].state)
        /\ UNCHANGED <<task, result, outbox, placed>>
    BY <1>7 DEF MirrorRun
  <2>3. Latest(t) \in Attempt
    BY <2>1, <2>2, Shapes DEF RunTakes, Attempt, Latest, IInv, DelegationConstants
  <2>. QED BY <2>1, <2>2, <2>3 DEF Reports
<1>8. ASSUME NEW c \in Caller \cup Loop, NEW state \in Reported, Status(c, state) PROVE \E t \in Task : Moves(t)
  BY <1>8, CallShape DEF Status, Moves, DelegationConstants
<1>9. ASSUME NEW c \in Caller \cup Loop, MirrorTask(c) PROVE \E t \in Task : Moves(t)
  BY <1>9, CallShape DEF MirrorTask, Moves
<1>10. ASSUME NEW c \in Caller \cup Loop, NEW t \in Task, Cancel(c, t) PROVE Places(t)
  <2>. DEFINE n == task[t].sched
  <2>1. n \in Attempt /\ placed[t][n] \in SchedulerState
    BY <1>10, Shapes DEF Cancel, IInv
  <2>2. StopAnswer(placed[t][n]) \in SchedulerState
    BY <2>1, SchedulerStates DEF StopAnswer
  <2>. QED BY <1>10, <2>1, <2>2 DEF Cancel, Places
<1>11. ASSUME NEW c \in Caller \cup Loop, NEW t \in Task, NEW n \in Attempt, Deliver(c, t, n)
       PROVE  Places(t) \/ UNCHANGED Data
  <2>1. UNCHANGED <<task, run, result, outbox>>
    BY <1>11 DEF Deliver
  <2>2. PICK first \in {"PENDING", "PLACED"} : placed' \in {placed, [placed EXCEPT ![t][n] = Placement(t, n, first)]}
    BY <1>11 DEF Deliver
  <2>3. Placement(t, n, first) \in SchedulerState
    BY Shapes, SchedulerStates DEF Placement, IInv
  <2>. QED BY <2>1, <2>2, <2>3 DEF Places, Data
<1>12. ASSUME NEW c \in Caller \cup Loop, RecordPlacement(c) PROVE \E t \in Task : Acknowledges(t)
  BY <1>12, CallShape DEF RecordPlacement, Acknowledges
<1>13. ASSUME NEW t \in Task, NEW n \in Attempt, Execution(t, n) PROVE Places(t)
  BY <1>13, SchedulerStates DEF Execution, Places
<1>14. ASSUME NEW t \in Task, NEW n \in Attempt, NEW state \in {"COMPLETED", "FAILED", "CANCELLED"}, Result(t, n, state)
       PROVE  Ends(t)
  BY <1>14 DEF Ends
<1>15. ASSUME NEW t \in Task, NEW event \in Asked, NEW gate \in BOOLEAN, Decide(t, event, gate) PROVE Decides(t)
  BY <1>15 DEF Decide, Decides, DelegationConstants
<1>16. ASSUME NEW c \in Caller \cup Loop, ReportEvent(c) PROVE \E t \in Task : Decides(t)
  <2>1. call[c].t \in Task /\ call[c].event \in Event /\ Transition(call[c].t, call[c].event, FALSE)
    BY <1>16, CallShape DEF ReportEvent, ExecutionEvent, Event
  <2>. QED BY <2>1 DEF Decides
<1>17. ASSUME UNCHANGED vars PROVE UNCHANGED Data
  BY <1>17 DEF vars, Data
<1>18. ASSUME NEW c \in Caller, Handler(c) PROVE (\E t \in Task : Touches(t)) \/ UNCHANGED Data
  BY <1>1, <1>2, <1>4, <1>5, <1>6, <1>7, <1>8, <1>9, <1>10, <1>16, <1>18 DEF Handler, Touches
<1>. QED
  BY <1>2, <1>3, <1>11, <1>12, <1>13, <1>14, <1>15, <1>17, <1>18 DEF Next, Touches

\* What becomes of a call d.
Rests(t, n) ==
  /\ <<t, n>> \in outbox
  /\ UNCHANGED <<task, run>>
  /\ placed'[t][n] # None \/ run[t][n] \notin Active \/ task[t].sched # n
Turns(d, new) ==
  \/ new = None
  \/ call[d] # None /\ call[d].op = "mirror" /\ new.t = call[d].t /\ new.op = "mirrorRun"
  \/ new.op # "record" /\ task[new.t] # None
  \/ new.op = "record" /\ Rests(new.t, new.n)

LEMMA CallKinds ==
  ASSUME DelegationConstants, IInv, [Next]_vars
  PROVE  \/ call' = call
         \/ \E d \in Caller \cup Loop, new \in {None} \cup Call : call' = [call EXCEPT ![d] = new] /\ Turns(d, new)
<1>. DEFINE Goal == \/ call' = call
                    \/ \E d \in Caller \cup Loop, new \in {None} \cup Call :
                         call' = [call EXCEPT ![d] = new] /\ Turns(d, new)
<1>1. ASSUME NEW c \in Caller \cup Loop, call' = [call EXCEPT ![c] = None] PROVE Goal
  BY <1>1 DEF Turns
<1>2. ASSUME NEW c \in Caller \cup Loop, NEW new \in Call, call' = [call EXCEPT ![c] = new], Turns(c, new) PROVE Goal
  BY <1>2
<1>3. ASSUME call' = call PROVE Goal
  BY <1>3
<1>. HIDE DEF Goal
<1>4. ASSUME NEW c \in Caller \cup Loop, NEW t \in Task, ReadForRetry(c, t) PROVE Goal
  <2>. DEFINE new == [op |-> "retry", t |-> t]
  <2>1. new \in Call /\ Turns(c, new)
    BY <1>4 DEF Call, ReadForRetry, Turns
  <2>. QED BY <1>2, <1>4, <2>1 DEF ReadForRetry
<1>5. ASSUME NEW c \in Caller \cup Loop, NEW t \in Task, ReadForStatus(c, t) PROVE Goal
  <2>. DEFINE new == [op |-> "status", t |-> t, from |-> task[t].state]
  <2>1. new \in Call /\ Turns(c, new)
    BY <1>5, Shapes DEF Call, ReadForStatus, Turns, IInv
  <2>. QED BY <1>2, <1>5, <2>1 DEF ReadForStatus
<1>6. ASSUME NEW c \in Caller \cup Loop, NEW t \in Task, NEW state \in DelegationState, task[t] # None,
             call' = [call EXCEPT ![c] = [op |-> "mirror", t |-> t, state |-> state]]
      PROVE  Goal
  <2>. DEFINE new == [op |-> "mirror", t |-> t, state |-> state]
  <2>1. new \in Call /\ Turns(c, new)
    BY <1>6 DEF Call, Turns
  <2>. QED BY <1>2, <1>6, <2>1
<1>7. ASSUME NEW c \in Caller \cup Loop, NEW t \in Task, Cancel(c, t) \/ Reconcile(c, t) PROVE Goal
  <2>. DEFINE n == task[t].sched
  <2>1. n \in Attempt /\ placed[t][n] \in SchedulerState /\ task[t] # None
    BY <1>7, Shapes DEF Cancel, Reconcile, IInv
  <2>2. StopAnswer(placed[t][n]) \in SchedulerState
    BY <2>1, SchedulerStates DEF StopAnswer
  <2>3. FromScheduler[placed[t][n]] \in DelegationState /\ FromScheduler[StopAnswer(placed[t][n])] \in DelegationState
    BY <2>1, <2>2, FromSchedulerType
  <2>. QED BY <1>6, <1>7, <2>1, <2>3 DEF Cancel, Reconcile
<1>8. ASSUME NEW c \in Caller \cup Loop, MirrorTask(c) PROVE Goal
  <2>. DEFINE new == [call[c] EXCEPT !.op = "mirrorRun"]
  <2>1. call[c] \in Call /\ call[c] # None /\ call[c].op = "mirror" /\ call' = [call EXCEPT ![c] = new]
    BY <1>8, CallShape DEF MirrorTask, IInv, TypeOK
  <2>2. new \in Call /\ new.t = call[c].t /\ new.op = "mirrorRun"
    BY <2>1 DEF Call
  <2>. HIDE DEF new
  <2>. QED BY <1>2, <2>1, <2>2 DEF Turns
<1>9. ASSUME NEW c \in Caller \cup Loop, NEW t \in Task, NEW event \in ExecutionEvent \cup {None}, task[t] # None,
             call' = IF event = None THEN call ELSE [call EXCEPT ![c] = [op |-> "event", t |-> t, event |-> event]]
      PROVE  Goal
  <2>. DEFINE new == [op |-> "event", t |-> t, event |-> event]
  <2>1. CASE event # None
    <3>1. new \in Call /\ Turns(c, new)
      BY <1>9, <2>1 DEF Call, Turns
    <3>. QED BY <1>2, <1>9, <2>1, <3>1
  <2>. QED BY <1>3, <1>9, <2>1
<1>10. ASSUME NEW c \in Caller \cup Loop, NEW t \in Task, NEW n \in Attempt, NEW state \in Reported,
              NEW event \in ExecutionEvent \cup {None},
              ReportNewRun(c, t, state, event) \/ ReportRun(c, t, n, state, event)
       PROVE  Goal
  <2>1. task[t] # None
    <3>1. CASE ReportNewRun(c, t, state, event)
      BY <3>1 DEF ReportNewRun
    <3>2. CASE ReportRun(c, t, n, state, event)
      BY <3>2 DEF ReportRun, RunTakes, Latest, IInv, RunsAreOfRows
    <3>. QED BY <1>10, <3>1, <3>2
  <2>. QED BY <1>9, <1>10, <2>1 DEF ReportNewRun, ReportRun
<1>11. ASSUME NEW c \in Caller \cup Loop, NEW t \in Task, NEW n \in Attempt, Deliver(c, t, n) PROVE Goal
  <2>1. PICK first \in {"PENDING", "PLACED"} :
          LET stale == run[t][n] \notin Active \/ task[t].sched # n
              state == IF stale THEN run[t][n] ELSE FromScheduler[Placement(t, n, first)]
          IN /\ placed' = IF stale THEN placed ELSE [placed EXCEPT ![t][n] = Placement(t, n, first)]
             /\ call' = [call EXCEPT ![c] = [op |-> "record", t |-> t, n |-> n, state |-> state]]
    BY <1>11 DEF Deliver
  <2>. DEFINE stale == run[t][n] \notin Active \/ task[t].sched # n
              state == IF stale THEN run[t][n] ELSE FromScheduler[Placement(t, n, first)]
              new == [op |-> "record", t |-> t, n |-> n, state |-> state]
  <2>2. Placement(t, n, first) \in SchedulerState
    BY Shapes, SchedulerStates DEF Placement, IInv
  <2>3. n \in 1..Latest(t) /\ <<t, n>> \in outbox /\ UNCHANGED <<task, run>>
    BY <1>11 DEF Deliver, IInv, TypeOK
  <2>4. state \in DelegationState
    BY <2>2, <2>3, FromSchedulerType, Shapes DEF Latest, IInv
  <2>5. placed'[t][n] # None \/ run[t][n] \notin Active \/ task[t].sched # n
    BY <2>1, <2>2 DEF IInv, TypeOK, DelegationConstants
  <2>. HIDE DEF state
  <2>6. new \in Call
    BY <2>4 DEF Call
  <2>7. Turns(c, new)
    BY <2>3, <2>5 DEF Turns, Rests
  <2>. QED BY <1>2, <2>1, <2>6, <2>7 DEF state
<1>12. ASSUME NEW c \in Caller \cup Loop,
              Retry(c) \/ MirrorRun(c) \/ ReportEvent(c) \/ Abandon(c) \/ Defer(c) \/ RecordPlacement(c)
                \/ \E state \in Reported : Status(c, state)
       PROVE  Goal
  BY <1>1, <1>12 DEF Retry, MirrorRun, ReportEvent, Abandon, Defer, RecordPlacement, Status
<1>13. ASSUME NEW t \in Task,
              \/ Create(t)
              \/ \E event \in Asked, gate \in BOOLEAN : Decide(t, event, gate)
              \/ \E n \in Attempt : \/ Execution(t, n)
                                    \/ \E state \in {"COMPLETED", "FAILED", "CANCELLED"} : Result(t, n, state)
       PROVE  Goal
  BY <1>3, <1>13 DEF Create, Decide, Execution, Result
<1>14. ASSUME UNCHANGED vars PROVE Goal
  BY <1>3, <1>14 DEF vars
<1>15. ASSUME NEW c \in Caller, Handler(c) PROVE Goal
  BY <1>4, <1>5, <1>7, <1>8, <1>10, <1>12, <1>15 DEF Handler, Attempt, DelegationConstants
<1>16. Goal
  BY <1>11, <1>12, <1>13, <1>14, <1>15 DEF Next
<1>. QED BY <1>16 DEF Goal

-----------------------------------------------------------------------------
(* What every step leaves: types, other rows, and the past of the row *)

RowsTyped ==
  /\ task' \in [Task -> {None} \cup TaskRow]
  /\ run' \in [Task -> UNION {[1..n -> DelegationState] : n \in 0..MaxAttempt}]
  /\ result' \in [Task -> [Attempt -> {None, "COMPLETED", "FAILED", "CANCELLED"}]]
  /\ placed' \in [Task -> [Attempt -> {None} \cup SchedulerState]]
  /\ \A p \in outbox' : p[1] \in Task /\ p[2] \in 1..Len(run'[p[1]])
  /\ finished' \cup accepted' \subseteq Task

OthersKept(t) ==
  \A u \in Task \ {t} :
    /\ task'[u] = task[u] /\ run'[u] = run[u] /\ result'[u] = result[u] /\ placed'[u] = placed[u]
    /\ \A n \in Attempt : <<u, n>> \in outbox => <<u, n>> \in outbox'

RowStays(t) ==
  /\ task[t] # None => task'[t] # None
  /\ Len(run[t]) <= Len(run'[t])
  /\ \A n \in 1..Len(run[t]) :
       /\ run[t][n] \notin Active => run'[t][n] = run[t][n]
       /\ task[t] # None /\ task'[t].sched = n => task[t].sched = n
  /\ \A n \in Attempt :
       /\ placed[t][n] # None => placed'[t][n] # None
       /\ result[t][n] # None => result'[t][n] = result[t][n]

RowsStay == \A t \in Task : RowStays(t)

\* The rows after a step that gives t the row r and the runs s.
LEMMA RowsAfter ==
  ASSUME DelegationConstants, IInv, NEW t \in Task,
         NEW r \in {None} \cup TaskRow, task' = [task EXCEPT ![t] = r],
         NEW s \in Seq(DelegationState), Len(s) \in 0..MaxAttempt, run' = [run EXCEPT ![t] = s]
  PROVE  /\ task' \in [Task -> {None} \cup TaskRow] /\ task'[t] = r
         /\ run' \in [Task -> UNION {[1..n -> DelegationState] : n \in 0..MaxAttempt}] /\ run'[t] = s
         /\ \A u \in Task \ {t} : task'[u] = task[u] /\ run'[u] = run[u]
<1>1. TypeOK
  BY DEF IInv
<1>2. /\ task \in [Task -> {None} \cup TaskRow]
      /\ run \in [Task -> UNION {[1..n -> DelegationState] : n \in 0..MaxAttempt}]
  BY <1>1 DEF TypeOK, TaskRow
<1>. QED BY <1>1, <1>2, TypeByRows, RunsByRows

\* The rows of a task alone, and what it is in.
LEMMA Here ==
  ASSUME DelegationConstants, IInv, NEW t \in Task
  PROVE  /\ TypeOK
         /\ task[t] \in {None} \cup TaskRow
         /\ task = [task EXCEPT ![t] = task[t]] /\ run = [run EXCEPT ![t] = run[t]]
         /\ run[t] \in Seq(DelegationState) /\ Len(run[t]) \in 0..MaxAttempt
         /\ \A n \in 1..Len(run[t]) : run[t][n] \in DelegationState /\ n \in Attempt
         /\ task[t] = None => run[t] = <<>>
         /\ task[t] # None => task[t].state \in DelegationState /\ task[t].sched \in {0} \cup Attempt
<1>1. TypeOK /\ (task[t] = None => run[t] = <<>>)
  BY DEF IInv, RunsAreOfRows
<1>2. run[t] \in Seq(DelegationState) /\ Len(run[t]) \in 0..MaxAttempt
  BY <1>1, Shapes
<1>3. \A n \in 1..Len(run[t]) : n \in Attempt
  BY <1>2 DEF Attempt, DelegationConstants
<1>. QED BY <1>1, <1>2, <1>3, Shapes DEF TypeOK, TaskRow

\* What was due is still about a run, if no runs went away.
LEMMA DueStay ==
  ASSUME DelegationConstants, IInv, NEW p \in outbox,
         \A u \in Task : Len(run'[u]) \in Nat /\ Len(run[u]) <= Len(run'[u])
  PROVE  p[1] \in Task /\ p[2] \in 1..Len(run'[p[1]])
<1>1. p[1] \in Task /\ p[2] \in 1..Len(run[p[1]])
  BY DEF IInv, TypeOK, Latest
<1>2. PICK u \in Task : u = p[1]
  BY <1>1
<1>3. p[2] \in 1..Len(run[u]) /\ Len(run[u]) \in Nat
  BY <1>1, <1>2, Here
<1>4. p[2] \in 1..Len(run'[u])
  BY <1>3
<1>. QED BY <1>2, <1>4

LEMMA OpensKeeps ==
  ASSUME DelegationConstants, IInv, NEW t \in Task, Opens(t), finished' \cup accepted' \subseteq Task
  PROVE  RowsTyped /\ OthersKept(t) /\ RowStays(t)
<1>1. PICK state \in DelegationState, sched \in {0, 1} : Insert(t, state, sched) /\ UNCHANGED <<result, placed>>
  BY DEF Opens
<1>. DEFINE r == Row(state, "ASSIGNED", sched)
            s == <<state>>
<1>2. r \in TaskRow /\ r # None /\ s \in Seq(DelegationState) /\ Len(s) = 1 /\ 1 \in 0..MaxAttempt
  BY DEF Row, TaskRow, BusinessState, Attempt, DelegationConstants
<1>3. /\ task[t] = None /\ task' = [task EXCEPT ![t] = r] /\ run' = [run EXCEPT ![t] = s]
      /\ outbox \subseteq outbox' /\ outbox' \subseteq outbox \cup {<<t, 1>>} /\ UNCHANGED <<result, placed>>
  BY <1>1 DEF Insert
<1>. HIDE DEF r, s
<1>4. /\ task' \in [Task -> {None} \cup TaskRow] /\ task'[t] = r
      /\ run' \in [Task -> UNION {[1..n -> DelegationState] : n \in 0..MaxAttempt}] /\ run'[t] = s
      /\ \A u \in Task \ {t} : task'[u] = task[u] /\ run'[u] = run[u]
  BY <1>2, <1>3, RowsAfter
<1>5. TypeOK /\ run[t] = <<>>
  BY <1>3, Here
<1>6. OthersKept(t)
  BY <1>3, <1>4 DEF OthersKept
<1>7. RowStays(t)
  BY <1>2, <1>3, <1>4, <1>5 DEF RowStays
<1>8. \A p \in outbox' : p[1] \in Task /\ p[2] \in 1..Len(run'[p[1]])
  <2>0. Len(run'[t]) = 1
    BY <1>2, <1>4, Zenon
  <2>1. \A u \in Task : Len(run'[u]) \in Nat /\ Len(run[u]) <= Len(run'[u])
    <3>1. Len(run[t]) = 0
      BY <1>5
    <3>2. ASSUME NEW u \in Task
          PROVE  Len(run'[u]) \in Nat /\ Len(run[u]) <= Len(run'[u])
      <4>1. CASE u = t
        BY <2>0, <3>1, <4>1
      <4>2. CASE u # t
        <5>1. run'[u] = run[u]
          BY <1>4, <4>2
        <5>2. Len(run[u]) \in Nat
          BY Here
        <5>. QED BY <5>1, <5>2
      <4>. QED BY <4>1, <4>2
    <3>. QED BY <3>2
  <2>2. 1 \in 1..Len(run'[t])
    BY <2>0
  <2>. QED BY <1>3, <2>1, <2>2, DueStay
<1>. QED BY <1>3, <1>4, <1>5, <1>6, <1>7, <1>8 DEF RowsTyped, TypeOK

\* The runs of t, a legacy one included.
LEMMA RunsOf ==
  ASSUME DelegationConstants, IInv, NEW t \in Task, task[t] # None
  PROVE  /\ Runs(t) \in Seq(DelegationState) /\ Len(Runs(t)) \in Nat
         /\ run[t] # <<>> => Runs(t) = run[t]
         /\ Len(run[t]) <= Len(Runs(t))
         /\ run[t] = <<>> => Len(run[t]) = 0
BY Here DEF Runs

LEMMA AddsKeeps ==
  ASSUME DelegationConstants, IInv, NEW t \in Task, Adds(t), finished' \cup accepted' \subseteq Task
  PROVE  RowsTyped /\ OthersKept(t) /\ RowStays(t)
<1>1. PICK state \in DelegationState, own \in BOOLEAN :
         task[t] # None /\ NextRun(t, state, own) /\ UNCHANGED <<result, placed>>
  BY DEF Adds
<1>. DEFINE n == Len(Runs(t)) + 1
            r == Row(state, IF task[t].biz = None THEN None ELSE "ASSIGNED", IF own THEN n ELSE 0)
            s == Append(Runs(t), state)
<1>2. /\ n \in Attempt /\ task' = [task EXCEPT ![t] = r] /\ run' = [run EXCEPT ![t] = s]
      /\ outbox \subseteq outbox' /\ outbox' \subseteq outbox \cup {<<t, n>>} /\ UNCHANGED <<result, placed>>
  BY <1>1, Here DEF NextRun, AddRun, TypeOK
<1>3. TypeOK /\ run[t] \in Seq(DelegationState) /\ Len(run[t]) \in 0..MaxAttempt
  BY Here
<1>4. /\ r \in TaskRow /\ r # None /\ s \in Seq(DelegationState) /\ Len(s) = n /\ n \in 0..MaxAttempt
      /\ r.sched \in {0, n}
  BY <1>1, <1>2, RunsOf DEF Row, TaskRow, BusinessState, Attempt, DelegationConstants
<1>5. /\ Len(run[t]) < n /\ \A k \in 1..Len(run[t]) : s[k] = run[t][k]
  BY <1>1, <1>3, RunsOf
<1>. HIDE DEF r, s, n
<1>6. /\ task' \in [Task -> {None} \cup TaskRow] /\ task'[t] = r
      /\ run' \in [Task -> UNION {[1..k -> DelegationState] : k \in 0..MaxAttempt}] /\ run'[t] = s
      /\ \A u \in Task \ {t} : task'[u] = task[u] /\ run'[u] = run[u]
  BY <1>2, <1>4, RowsAfter
<1>7. OthersKept(t)
  BY <1>2, <1>6 DEF OthersKept
<1>8. RowStays(t)
  BY <1>2, <1>3, <1>4, <1>5, <1>6 DEF RowStays, Attempt, DelegationConstants
<1>9. \A p \in outbox' : p[1] \in Task /\ p[2] \in 1..Len(run'[p[1]])
  <2>1. n \in 1..Len(s)
    BY <1>2, <1>4 DEF Attempt, DelegationConstants
  <2>2. \A u \in Task : Len(run'[u]) \in Nat /\ Len(run[u]) <= Len(run'[u])
    BY <1>4, <1>5, <1>6, Here
  <2>3. \A p \in outbox : p[1] \in Task /\ p[2] \in 1..Len(run'[p[1]])
    BY <2>2, DueStay
  <2>4. t \in Task /\ n \in 1..Len(run'[t])
    BY <1>6, <2>1
  <2>. QED BY <1>2, <2>3, <2>4
<1>. QED BY <1>2, <1>3, <1>6, <1>7, <1>8, <1>9 DEF RowsTyped, TypeOK

\* Steps that touch the states of a row and of one run.
LEMMA StatesKeep ==
  ASSUME DelegationConstants, IInv, NEW t \in Task, finished' \cup accepted' \subseteq Task, task[t] # None,
         NEW r \in TaskRow, task' = [task EXCEPT ![t] = r], r.sched = task[t].sched,
         NEW s \in Seq(DelegationState), Len(s) = Len(run[t]), run' = [run EXCEPT ![t] = s],
         \A n \in 1..Len(run[t]) : run[t][n] \notin Active => s[n] = run[t][n],
         result' \in [Task -> [Attempt -> {None, "COMPLETED", "FAILED", "CANCELLED"}]],
         \A u \in Task, n \in Attempt : result[u][n] # None \/ u # t => result'[u][n] = result[u][n],
         placed' \in [Task -> [Attempt -> {None} \cup SchedulerState]],
         \A u \in Task, n \in Attempt : /\ placed[u][n] # None => placed'[u][n] # None
                                        /\ u # t => placed'[u][n] = placed[u][n],
         \A n \in Attempt, u \in Task \ {t} : <<u, n>> \in outbox => <<u, n>> \in outbox',
         outbox' \subseteq outbox
  PROVE  RowsTyped /\ OthersKept(t) /\ RowStays(t)
<1>1. TypeOK /\ Len(run[t]) \in 0..MaxAttempt /\ r # None
  BY Here DEF DelegationConstants
<1>2. /\ task' \in [Task -> {None} \cup TaskRow] /\ task'[t] = r
      /\ run' \in [Task -> UNION {[1..n -> DelegationState] : n \in 0..MaxAttempt}] /\ run'[t] = s
      /\ \A u \in Task \ {t} : task'[u] = task[u] /\ run'[u] = run[u]
  BY <1>1, RowsAfter
<1>3. \A u \in Task \ {t} : result'[u] = result[u] /\ placed'[u] = placed[u]
  BY <1>1 DEF TypeOK
<1>4. OthersKept(t)
  BY <1>2, <1>3 DEF OthersKept
<1>5. RowStays(t)
  BY <1>1, <1>2 DEF RowStays
<1>6. \A p \in outbox' : p[1] \in Task /\ p[2] \in 1..Len(run'[p[1]])
  BY <1>1, <1>2 DEF TypeOK, Latest
<1>. QED BY <1>2, <1>4, <1>5, <1>6 DEF RowsTyped

LEMMA ReportsKeeps ==
  ASSUME DelegationConstants, IInv, NEW t \in Task, Reports(t), finished' \cup accepted' \subseteq Task
  PROVE  RowsTyped /\ OthersKept(t) /\ RowStays(t)
<1>1. PICK n \in Attempt, state \in DelegationState :
         RunTakes(t, n, state) /\ SetRun(t, n, state) /\ UNCHANGED <<task, result, outbox, placed>>
  BY DEF Reports
<1>. DEFINE s == [run[t] EXCEPT ![n] = state]
<1>2. /\ TypeOK /\ run[t] \in Seq(DelegationState) /\ Len(run[t]) \in 0..MaxAttempt /\ n \in 1..Len(run[t])
      /\ task[t] \in {None} \cup TaskRow /\ (task[t] = None => run[t] = <<>>)
  BY <1>1, Here DEF RunTakes, Latest
<1>3. task[t] \in TaskRow /\ task[t] # None /\ task' = [task EXCEPT ![t] = task[t]]
  BY <1>1, <1>2, Here
<1>4. /\ s \in Seq(DelegationState) /\ Len(s) = Len(run[t])
      /\ \A k \in 1..Len(run[t]) : run[t][k] \notin Active => s[k] = run[t][k]
  BY <1>1, <1>2 DEF RunTakes, Latest
<1>5. run' = [run EXCEPT ![t] = s] /\ UNCHANGED <<result, outbox, placed>>
  BY <1>1 DEF SetRun
<1>. HIDE DEF s
<1>. QED BY <1>2, <1>3, <1>4, <1>5, StatesKeep DEF TypeOK

\* A row with another state, or another business state.
LEMMA RowWith ==
  ASSUME DelegationConstants, NEW row \in TaskRow
  PROVE  /\ \A state \in DelegationState : [row EXCEPT !.state = state] \in TaskRow
         /\ \A biz \in BusinessState : [row EXCEPT !.biz = biz] \in TaskRow
         /\ row # None
BY DEF TaskRow, DelegationConstants

LEMMA MovesKeeps ==
  ASSUME DelegationConstants, IInv, NEW t \in Task, Moves(t), finished' \cup accepted' \subseteq Task
  PROVE  RowsTyped /\ OthersKept(t) /\ RowStays(t)
<1>1. PICK state \in DelegationState :
         task[t] # None /\ TaskTakes(t, state) /\ SetTask(t, state) /\ UNCHANGED <<run, result, outbox, placed>>
  BY DEF Moves
<1>. DEFINE r == [task[t] EXCEPT !.state = state]
<1>2. TypeOK /\ run[t] \in Seq(DelegationState) /\ task[t] \in TaskRow /\ run = [run EXCEPT ![t] = run[t]]
  BY <1>1, Here
<1>3. r \in TaskRow /\ r.sched = task[t].sched
  BY <1>2, RowWith DEF TaskRow
<1>4. task' = [task EXCEPT ![t] = r] /\ run' = [run EXCEPT ![t] = run[t]] /\ UNCHANGED <<result, outbox, placed>>
  BY <1>1, <1>2 DEF SetTask
<1>. HIDE DEF r
<1>. QED BY <1>1, <1>2, <1>3, <1>4, StatesKeep DEF TypeOK

LEMMA PlacesKeeps ==
  ASSUME DelegationConstants, IInv, NEW t \in Task, Places(t), finished' \cup accepted' \subseteq Task
  PROVE  RowsTyped /\ OthersKept(t) /\ RowStays(t)
<1>1. PICK n \in Attempt, s \in SchedulerState :
         placed' = [placed EXCEPT ![t][n] = s] /\ UNCHANGED <<task, run, result, outbox>>
  BY DEF Places
<1>2. TypeOK /\ None \notin SchedulerState /\ Len(run[t]) \in Nat
  BY Here DEF DelegationConstants
<1>3. RowsTyped
  BY <1>1, <1>2 DEF RowsTyped, TypeOK, TaskRow, Latest
<1>4. OthersKept(t)
  BY <1>1, <1>2 DEF OthersKept, TypeOK
<1>5. RowStays(t)
  BY <1>1, <1>2 DEF RowStays, TypeOK
<1>. QED BY <1>3, <1>4, <1>5

LEMMA AcknowledgesKeeps ==
  ASSUME DelegationConstants, IInv, NEW t \in Task, Acknowledges(t), finished' \cup accepted' \subseteq Task
  PROVE  RowsTyped /\ OthersKept(t) /\ RowStays(t)
<1>1. PICK n \in Attempt, state \in DelegationState :
        /\ n \in 1..Latest(t) /\ task[t] # None /\ AtRest(t, n)
        /\ IF Projects(t, n, state) THEN SetTask(t, state) /\ SetRun(t, n, state) ELSE UNCHANGED <<task, run>>
        /\ outbox' = outbox \ {<<t, n>>}
        /\ UNCHANGED <<result, placed>>
  BY DEF Acknowledges
<1>. DEFINE r == IF Projects(t, n, state) THEN [task[t] EXCEPT !.state = state] ELSE task[t]
            s == IF Projects(t, n, state) THEN [run[t] EXCEPT ![n] = state] ELSE run[t]
<1>2. TypeOK /\ run[t] \in Seq(DelegationState) /\ task[t] \in TaskRow /\ n \in 1..Len(run[t])
      /\ run = [run EXCEPT ![t] = run[t]] /\ task = [task EXCEPT ![t] = task[t]]
  BY <1>1, Here DEF Latest
<1>3. r \in TaskRow /\ r.sched = task[t].sched
  BY <1>2, RowWith DEF TaskRow
<1>4. s \in Seq(DelegationState) /\ Len(s) = Len(run[t])
  BY <1>2
<1>5. \A k \in 1..Len(run[t]) : run[t][k] \notin Active => s[k] = run[t][k]
  BY <1>2 DEF Projects, Active
<1>6. /\ task' = [task EXCEPT ![t] = r] /\ run' = [run EXCEPT ![t] = s] /\ UNCHANGED <<result, placed>>
      /\ outbox' = outbox \ {<<t, n>>}
  BY <1>1, <1>2 DEF SetTask, SetRun
<1>7. \A k \in Attempt, u \in Task \ {t} : <<u, k>> \in outbox => <<u, k>> \in outbox'
  BY <1>6
<1>. HIDE DEF r, s
<1>. QED BY <1>1, <1>2, <1>3, <1>4, <1>5, <1>6, <1>7, StatesKeep DEF TypeOK

LEMMA EndsKeeps ==
  ASSUME DelegationConstants, IInv, NEW t \in Task, Ends(t), finished' \cup accepted' \subseteq Task
  PROVE  RowsTyped /\ OthersKept(t) /\ RowStays(t)
<1>1. PICK n \in Attempt, state \in {"COMPLETED", "FAILED", "CANCELLED"} : Result(t, n, state)
  BY DEF Ends
<1>. DEFINE biz == IF state = "COMPLETED" /\ task[t].biz \in {"ASSIGNED", "EXECUTING"} THEN "VERIFYING" ELSE task[t].biz
            r == [task[t] EXCEPT !.state = state, !.biz = biz]
            s == [run[t] EXCEPT ![n] = state]
<1>2. /\ TypeOK /\ run[t] \in Seq(DelegationState) /\ n \in 1..Len(run[t]) /\ result[t][n] = None
      /\ run[t][n] \in Active \cup {state} /\ state \in DelegationState
      /\ task[t] \in {None} \cup TaskRow /\ (task[t] = None => run[t] = <<>>)
  BY <1>1, Here DEF Result, TakesResult, Latest, DelegationState
<1>3. task[t] \in TaskRow /\ task[t] # None
  BY <1>2
<1>4. r \in TaskRow /\ r.sched = task[t].sched
  BY <1>2, <1>3 DEF TaskRow, BusinessState
<1>5. /\ s \in Seq(DelegationState) /\ Len(s) = Len(run[t])
      /\ \A k \in 1..Len(run[t]) : run[t][k] \notin Active => s[k] = run[t][k]
  BY <1>2
<1>6. /\ task' = [task EXCEPT ![t] = r] /\ run' = [run EXCEPT ![t] = s] /\ UNCHANGED <<outbox, placed>>
      /\ result' = [result EXCEPT ![t][n] = state]
  BY <1>1 DEF Result, SetRun
<1>7. /\ result' \in [Task -> [Attempt -> {None, "COMPLETED", "FAILED", "CANCELLED"}]]
      /\ \A u \in Task, k \in Attempt : result[u][k] # None \/ u # t => result'[u][k] = result[u][k]
  BY <1>2, <1>6 DEF TypeOK
<1>. HIDE DEF r, s
<1>. QED BY <1>2, <1>3, <1>4, <1>5, <1>6, <1>7, StatesKeep DEF TypeOK

LEMMA DecidesKeeps ==
  ASSUME DelegationConstants, IInv, NEW t \in Task, Decides(t), finished' \cup accepted' \subseteq Task
  PROVE  RowsTyped /\ OthersKept(t) /\ RowStays(t)
<1>1. PICK event \in Event, gate \in BOOLEAN : Transition(t, event, gate)
  BY DEF Decides
<1>2. TypeOK /\ run[t] \in Seq(DelegationState) /\ task[t] \in TaskRow /\ task[t] # None
      /\ run = [run EXCEPT ![t] = run[t]] /\ task = [task EXCEPT ![t] = task[t]]
  BY <1>1, Here DEF Transition
<1>. DEFINE r == IF task' = task THEN task[t] ELSE [task[t] EXCEPT !.biz = Gated(event, gate)]
<1>3. r \in TaskRow /\ r.sched = task[t].sched
  BY <1>2, RowWith, TargetType DEF TaskRow
<1>4. /\ task' = [task EXCEPT ![t] = r] /\ run' = [run EXCEPT ![t] = run[t]]
      /\ UNCHANGED <<result, outbox, placed>>
  BY <1>1, <1>2 DEF Transition
<1>. HIDE DEF r
<1>. QED BY <1>2, <1>3, <1>4, StatesKeep DEF TypeOK

\* The rows of other tasks stay as they are, and of the row that is touched
\* what is past stays.
LEMMA TouchKeeps ==
  ASSUME DelegationConstants, IInv, NEW t \in Task, Touches(t), finished' \cup accepted' \subseteq Task
  PROVE  RowsTyped /\ OthersKept(t) /\ RowStays(t)
BY OpensKeeps, AddsKeeps, ReportsKeeps, MovesKeeps, PlacesKeeps, AcknowledgesKeeps, EndsKeeps, DecidesKeeps
   DEF Touches

LEMMA HistoryType ==
  ASSUME DelegationConstants, IInv, [Next]_vars
  PROVE  finished' \cup accepted' \subseteq Task
<1>. DEFINE Goal == finished' \cup accepted' \subseteq Task
<1>1. finished \cup accepted \subseteq Task
  BY DEF IInv, TypeOK
<1>2. ASSUME UNCHANGED <<finished, accepted>> PROVE Goal
  BY <1>1, <1>2
<1>3. ASSUME NEW t \in Task, NEW event, NEW gate, Transition(t, event, gate) PROVE Goal
  BY <1>1, <1>3 DEF Transition
<1>. HIDE DEF Goal
<1>4. ASSUME NEW c \in Caller \cup Loop, ReportEvent(c) PROVE Goal
  BY <1>3, <1>4, CallShape DEF ReportEvent
<1>5. ASSUME NEW c \in Caller \cup Loop, NEW t \in Task,
             ReadForRetry(c, t) \/ ReadForStatus(c, t) \/ Cancel(c, t) \/ Reconcile(c, t)
      PROVE  Goal
  BY <1>2, <1>5 DEF ReadForRetry, ReadForStatus, Cancel, Reconcile
<1>6. ASSUME NEW c \in Caller \cup Loop, NEW t, NEW n, NEW state, NEW event,
             ReportNewRun(c, t, state, event) \/ ReportRun(c, t, n, state, event)
      PROVE  Goal
  BY <1>2, <1>6 DEF ReportNewRun, ReportRun
<1>7. ASSUME NEW c \in Caller \cup Loop,
             \/ Retry(c) \/ MirrorTask(c) \/ MirrorRun(c) \/ Abandon(c) \/ RecordPlacement(c) \/ Defer(c)
             \/ \E state \in Reported : Status(c, state)
      PROVE  Goal
  BY <1>2, <1>7 DEF Retry, MirrorTask, MirrorRun, Abandon, RecordPlacement, Defer, Status
<1>8. ASSUME NEW c, NEW t, NEW n, Deliver(c, t, n) \/ Execution(t, n) PROVE Goal
  BY <1>2, <1>8 DEF Deliver, Execution
<1>9. ASSUME NEW t \in Task, NEW n, NEW state, Create(t) \/ Result(t, n, state) PROVE Goal
  BY <1>2, <1>9 DEF Create, Result
<1>10. ASSUME NEW t \in Task, NEW event, NEW gate, Decide(t, event, gate) PROVE Goal
  BY <1>3, <1>10 DEF Decide
<1>11. ASSUME UNCHANGED vars PROVE Goal
  BY <1>2, <1>11 DEF vars
<1>12. ASSUME NEW c \in Caller, Handler(c) PROVE Goal
  BY <1>4, <1>5, <1>6, <1>7, <1>12 DEF Handler
<1>13. Goal
  BY <1>7, <1>8, <1>9, <1>10, <1>11, <1>12 DEF Next
<1>. QED BY <1>13 DEF Goal

LEMMA StepKeeps ==
  ASSUME DelegationConstants, IInv, [Next]_vars
  PROVE  RowsTyped /\ RowsStay
<1>0. finished' \cup accepted' \subseteq Task
  BY HistoryType
<1>1. ASSUME NEW t \in Task, Touches(t) PROVE RowsTyped /\ RowsStay
  <2>1. RowsTyped /\ OthersKept(t) /\ RowStays(t)
    BY <1>0, <1>1, TouchKeeps
  <2>2. ASSUME NEW u \in Task \ {t} PROVE RowStays(u)
    <3>1. task'[u] = task[u] /\ run'[u] = run[u] /\ result'[u] = result[u] /\ placed'[u] = placed[u]
      BY <2>1 DEF OthersKept
    <3>2. Len(run[u]) \in Nat
      BY Here
    <3>. QED BY <3>1, <3>2 DEF RowStays
  <2>. QED BY <2>1, <2>2 DEF RowsStay
<1>2. CASE UNCHANGED Data
  <2>1. RowsTyped
    BY <1>0, <1>2 DEF Data, RowsTyped, IInv, TypeOK, TaskRow, Latest
  <2>2. ASSUME NEW t \in Task PROVE RowStays(t)
    <3>1. Len(run[t]) \in Nat
      BY Here
    <3>. QED BY <1>2, <3>1 DEF Data, RowStays
  <2>. QED BY <2>1, <2>2 DEF RowsStay
<1>. QED BY <1>1, <1>2, DataKinds

-----------------------------------------------------------------------------
(* The parts of the invariant *)

LEMMA NextType ==
  ASSUME DelegationConstants, IInv, [Next]_vars
  PROVE  TypeOK'
<1>1. RowsTyped
  BY StepKeeps
<1>2. call \in [Caller \cup Loop -> {None} \cup Call]
  BY DEF IInv, TypeOK
<1>3. call' \in [Caller \cup Loop -> {None} \cup Call]
  BY <1>2, CallKinds
<1>. QED BY <1>1, <1>3 DEF RowsTyped, TypeOK, TaskRow, Latest

\* Who touches a row touches one that is there, or opens it.
LEMMA TouchesRows ==
  ASSUME DelegationConstants, IInv, NEW t \in Task, Touches(t)
  PROVE  task[t] # None \/ Opens(t) \/ Places(t)
<1>1. ASSUME Reports(t) \/ Ends(t) PROVE task[t] # None
  <2>1. Latest(t) # 0
    BY <1>1, Here DEF Reports, RunTakes, Ends, Result, TakesResult, Latest
  <2>2. run[t] # <<>>
    BY <2>1 DEF Latest
  <2>. QED BY <2>2, Here
<1>. QED BY <1>1 DEF Touches, Adds, Moves, Acknowledges, Decides, Transition

LEMMA NextRunsOfRows ==
  ASSUME DelegationConstants, IInv, [Next]_vars
  PROVE  RunsAreOfRows'
<1>0. RunsAreOfRows /\ TypeOK /\ RowsStay
  BY StepKeeps DEF IInv
<1>1. ASSUME NEW t \in Task, Touches(t)
      PROVE  /\ task'[t] = None => run'[t] = <<>>
             /\ \A n \in Attempt : n > Len(run'[t]) => result'[t][n] = None
  <2>1. task'[t] = None => run'[t] = <<>>
    <3>1. CASE task[t] # None
      BY <1>0, <3>1 DEF RowsStay, RowStays
    <3>2. CASE Opens(t)
      BY <1>0, <3>2 DEF Opens, Insert, Row, TypeOK, DelegationConstants, TaskRow, Attempt, BusinessState
    <3>3. CASE Places(t)
      BY <1>0, <3>3 DEF Places, RunsAreOfRows
    <3>. QED BY <1>1, <3>1, <3>2, <3>3, TouchesRows
  <2>2. ASSUME NEW n \in Attempt, n > Len(run'[t]) PROVE result'[t][n] = None
    <3>1. /\ Len(run[t]) <= Len(run'[t]) /\ Len(run[t]) \in Nat /\ n \in Nat
          /\ Len(run'[t]) \in Nat
      <4>1. run'[t] \in Seq(DelegationState)
        BY StepKeeps, RunShape DEF RowsTyped, DelegationConstants
      <4>. QED BY <1>0, <4>1, Here DEF RowsStay, RowStays, Attempt
    <3>2. n > Len(run[t]) /\ result[t][n] = None
      BY <1>0, <2>2, <3>1 DEF RunsAreOfRows, Latest
    <3>3. CASE Ends(t)
      <4>1. PICK m \in Attempt, state \in {"COMPLETED", "FAILED", "CANCELLED"} : Result(t, m, state)
        BY <3>3 DEF Ends
      <4>2. m \in 1..Len(run[t]) /\ result' = [result EXCEPT ![t][m] = state]
        BY <4>1 DEF Result, TakesResult, Latest
      <4>. QED BY <1>0, <3>1, <3>2, <4>2 DEF TypeOK
    <3>4. CASE result' = result
      BY <3>2, <3>4
    <3>. QED BY <1>1, <3>3, <3>4
         DEF Touches, Opens, Adds, Reports, Moves, Places, Acknowledges, Decides, Transition
  <2>. QED BY <2>1, <2>2
<1>2. ASSUME NEW t \in Task, Touches(t), NEW u \in Task \ {t}
      PROVE  task'[u] = task[u] /\ run'[u] = run[u] /\ result'[u] = result[u]
  BY <1>2, TouchKeeps, HistoryType DEF OthersKept
<1>3. ASSUME NEW t \in Task, Touches(t) PROVE RunsAreOfRows'
  BY <1>0, <1>1, <1>2, <1>3 DEF RunsAreOfRows, Latest
<1>4. CASE UNCHANGED Data
  BY <1>0, <1>4 DEF Data, RunsAreOfRows, Latest
<1>. QED BY <1>3, <1>4, DataKinds

\* What is at rest stays at rest.
AtRestAfter(t, n) ==
  \/ placed'[t][n] # None
  \/ run'[t][n] \notin Active
  \/ task'[t].sched # n

LEMMA RestStays ==
  ASSUME DelegationConstants, IInv, NEW t \in Task, RowStays(t), task[t] # None, NEW n \in 1..Len(run[t]), AtRest(t, n)
  PROVE  AtRestAfter(t, n)
<1>1. n \in Attempt
  BY Here
<1>. QED BY <1>1 DEF AtRest, AtRestAfter, RowStays

\* The same of calls.
KnownAfter(c) ==
  call'[c] # None =>
    /\ task'[call'[c].t] # None
    /\ call'[c].op = "record" => /\ call'[c].n \in 1..Len(run'[call'[c].t])
                                 /\ AtRestAfter(call'[c].t, call'[c].n)

LEMMA KnownByCalls ==
  ASSUME \A c \in Caller \cup Loop : KnownAfter(c)
  PROVE  CallsAreKnown' /\ RecordsRest'
<1>1. CallsAreKnown'
  BY DEF CallsAreKnown, CallKnown, KnownAfter, Latest
<1>2. RecordsRest'
  BY DEF RecordsRest, RecordRests, KnownAfter, AtRest, AtRestAfter
<1>. QED BY <1>1, <1>2

LEMMA NextCalls ==
  ASSUME DelegationConstants, IInv, [Next]_vars
  PROVE  CallsAreKnown' /\ RecordsRest'
<1>. SUFFICES ASSUME NEW c \in Caller \cup Loop, call'[c] # None PROVE KnownAfter(c)
  BY KnownByCalls DEF KnownAfter
<1>0. RowsStay /\ RowsTyped /\ call \in [Caller \cup Loop -> {None} \cup Call] /\ TypeOK
  BY StepKeeps DEF IInv, TypeOK
<1>1. ASSUME NEW t \in Task
      PROVE  /\ task[t] # None => task'[t] # None
             /\ \A n \in 1..Len(run[t]) : n \in 1..Len(run'[t])
  <2>1. run'[t] \in Seq(DelegationState)
    BY <1>0, RunShape DEF RowsTyped, DelegationConstants
  <2>. QED BY <1>0, <2>1, Here DEF RowsStay, RowStays
<1>2. CASE call'[c] = call[c]
  <2>1. PICK t \in Task : t = call[c].t
    BY <1>2, CallShape
  <2>2. task'[t] # None
    BY <1>1, <1>2, <2>1, CallShape
  <2>3. ASSUME call[c].op = "record" PROVE call[c].n \in 1..Len(run'[t]) /\ AtRestAfter(t, call[c].n)
    <3>1. PICK n \in 1..Len(run[t]) : n = call[c].n
      BY <1>2, <2>1, <2>3, CallShape DEF Latest
    <3>2. AtRest(t, n) /\ task[t] # None
      BY <1>2, <2>1, <2>3, <3>1, CallShape
    <3>. QED BY <1>0, <1>1, <3>1, <3>2, RestStays DEF RowsStay
  <2>. QED BY <1>2, <2>1, <2>2, <2>3 DEF KnownAfter
<1>3. CASE call'[c] # call[c]
  <2>. DEFINE new == call'[c]
  <2>1. new \in Call /\ Turns(c, new) /\ new # None
    BY <1>0, <1>3, CallKinds
  <2>2. PICK t \in Task : t = new.t
    BY <2>1 DEF Call
  <2>. HIDE DEF new
  <2>3. CASE call[c] # None /\ call[c].op = "mirror" /\ new.t = call[c].t /\ new.op = "mirrorRun"
    BY <1>1, <2>2, <2>3, CallShape DEF KnownAfter, new
  <2>4. CASE new.op # "record" /\ task[new.t] # None
    BY <1>1, <2>2, <2>4 DEF KnownAfter, new
  <2>5. CASE new.op = "record" /\ Rests(new.t, new.n)
    <3>1. PICK n : n = new.n
      OBVIOUS
    <3>2. /\ <<t, n>> \in outbox /\ UNCHANGED <<task, run>>
          /\ placed'[t][n] # None \/ run[t][n] \notin Active \/ task[t].sched # n
      BY <2>2, <2>5, <3>1 DEF Rests
    <3>3. n \in 1..Len(run[t])
      BY <1>0, <3>2 DEF TypeOK, Latest
    <3>4. task[t] # None
      BY <3>3, Here
    <3>5. AtRestAfter(t, n) /\ n \in 1..Len(run'[t]) /\ task'[t] # None
      BY <3>2, <3>3, <3>4 DEF AtRestAfter
    <3>. QED BY <2>2, <3>1, <3>5 DEF KnownAfter, new
  <2>. QED BY <2>1, <2>3, <2>4, <2>5 DEF Turns
<1>. QED BY <1>2, <1>3

\* The steps that open no run and record no result leave an ended state of
\* the task's alone; only a decision moves its business state.
LEMMA Steady ==
  ASSUME DelegationConstants, IInv, NEW t \in Task,
         Reports(t) \/ Moves(t) \/ Places(t) \/ Acknowledges(t) \/ Decides(t)
  PROVE  /\ Len(run'[t]) = Len(run[t]) /\ result' = result
         /\ task[t] # None /\ task[t].state \notin Active => task'[t].state = task[t].state
         /\ task[t] # None /\ (Reports(t) \/ Moves(t) \/ Places(t) \/ Acknowledges(t)) =>
              task'[t].biz = task[t].biz
<1>1. /\ TypeOK /\ run[t] \in Seq(DelegationState) /\ (task[t] # None => task[t] \in TaskRow)
  BY Here
<1>2. CASE Reports(t)
  <2>1. PICK m \in Attempt, state \in DelegationState : SetRun(t, m, state) /\ UNCHANGED <<task, result>>
    BY <1>2 DEF Reports
  <2>2. Len(run'[t]) = Len(run[t])
    BY <1>1, <2>1 DEF SetRun, TypeOK
  <2>. QED BY <2>1, <2>2
<1>3. CASE Places(t)
  BY <1>3 DEF Places
<1>4. ASSUME NEW state \in DelegationState, SetTask(t, state), task[t] # None
      PROVE  task'[t].state = state /\ task'[t].biz = task[t].biz
  BY <1>1, <1>4 DEF SetTask, TypeOK, TaskRow
<1>5. CASE Moves(t)
  <2>1. PICK state \in DelegationState :
          /\ task[t] # None /\ TaskTakes(t, state)
          /\ SetTask(t, state) /\ UNCHANGED <<run, result>>
    BY <1>5 DEF Moves
  <2>. QED BY <1>4, <2>1 DEF TaskTakes
<1>6. CASE Acknowledges(t)
  <2>1. PICK m \in Attempt, state \in DelegationState :
          /\ task[t] # None
          /\ IF Projects(t, m, state) THEN SetTask(t, state) /\ SetRun(t, m, state) ELSE UNCHANGED <<task, run>>
          /\ result' = result
    BY <1>6 DEF Acknowledges
  <2>2. Len(run'[t]) = Len(run[t])
    BY <1>1, <2>1 DEF SetRun, TypeOK
  <2>3. task[t].state \notin Active => task' = task
    BY <2>1 DEF Projects, Active
  <2>4. task'[t].biz = task[t].biz
    BY <1>4, <2>1
  <2>. QED BY <2>1, <2>2, <2>3, <2>4
<1>7. CASE Decides(t)
  <2>1. PICK event, gate : Transition(t, event, gate)
    BY <1>7 DEF Decides
  <2>2. UNCHANGED <<run, result>> /\ task[t] # None
    BY <2>1 DEF Transition
  <2>3. task'[t].state = task[t].state
    BY <1>1, <2>1 DEF Transition, TypeOK, TaskRow
  <2>. QED BY <2>2, <2>3, <1>2, <1>3, <1>5, <1>6
<1>. QED BY <1>2, <1>3, <1>5, <1>6, <1>7

\* The results of a row stand, and so do the attempts it is DONE on.
DoneStands(t) ==
  task[t] # None /\ task[t].biz = "DONE" =>
    /\ Latest(t) > 0 /\ task[t].state = "COMPLETED"
    /\ run[t][Latest(t)] = "COMPLETED" /\ result[t][Latest(t)] = "COMPLETED"

LEMMA TouchResults ==
  ASSUME DelegationConstants, IInv, NEW t \in Task, Touches(t), RowStays(t), RowsTyped, ResultStands(t)
  PROVE  ResultStands(t)'
<1>1. /\ TypeOK /\ run[t] \in Seq(DelegationState) /\ Len(run[t]) \in 0..MaxAttempt
      /\ \A n \in 1..Len(run[t]) : run[t][n] \in DelegationState /\ n \in Attempt
      /\ task[t] # None => task[t] \in TaskRow
  BY Here
<1>2. run'[t] \in Seq(DelegationState) /\ Len(run'[t]) \in 0..MaxAttempt
  BY RunShape DEF RowsTyped, DelegationConstants
<1>3. \A n \in Attempt : n > Len(run[t]) => result[t][n] = None
  BY DEF IInv, RunsAreOfRows, Latest
<1>4. \A n \in Attempt : result[t][n] # None => result[t][n] \in {"COMPLETED", "FAILED", "CANCELLED"}
  BY <1>1 DEF TypeOK
<1>5. ASSUME Len(run'[t]) > Len(run[t]), result' = result PROVE ResultStands(t)'
  <2>1. Len(run'[t]) \in Attempt
    BY <1>1, <1>2, <1>5 DEF Attempt, DelegationConstants
  <2>. QED BY <1>3, <1>5, <2>1 DEF ResultStands, Latest
<1>6. CASE Opens(t)
  <2>1. PICK state, sched : Insert(t, state, sched) /\ result' = result
    BY <1>6 DEF Opens
  <2>2. task[t] = None /\ run' = [run EXCEPT ![t] = <<state>>]
    BY <2>1 DEF Insert
  <2>3. run'[t] = <<state>> /\ run[t] = <<>>
    BY <1>1, <2>2, Here DEF TypeOK
  <2>4. Len(run'[t]) > Len(run[t])
    BY <2>3
  <2>. QED BY <1>5, <2>1, <2>4
<1>7. CASE Adds(t)
  <2>1. PICK state \in DelegationState, own \in BOOLEAN :
          task[t] # None /\ NextRun(t, state, own) /\ UNCHANGED <<result, placed>>
    BY <1>7 DEF Adds
  <2>2. run' = [run EXCEPT ![t] = Append(Runs(t), state)] /\ result' = result
    BY <2>1 DEF NextRun, AddRun
  <2>3. run'[t] = Append(Runs(t), state)
    BY <1>1, <2>2 DEF TypeOK
  <2>4. Len(run'[t]) > Len(run[t])
    BY <1>1, <2>1, <2>3, RunsOf
  <2>. QED BY <1>5, <2>2, <2>4
<1>. DEFINE n == Len(run[t])
<1>8. ASSUME Len(run'[t]) = n, result' = result,
             task[t] # None /\ task[t].state \notin Active => task'[t].state = task[t].state
      PROVE  ResultStands(t)'
  <2>. SUFFICES ASSUME n > 0, result[t][n] # None
                PROVE  task'[t].state = result[t][n] /\ run'[t][n] = result[t][n]
    BY <1>8 DEF ResultStands, Latest
  <2>1. n \in 1..n /\ n \in Attempt /\ run[t] # <<>>
    BY <1>1
  <2>2. task[t].state = result[t][n] /\ run[t][n] = result[t][n] /\ result[t][n] \notin Active /\ task[t] # None
    BY <1>4, <2>1, Here DEF ResultStands, Latest, Active
  <2>. QED BY <1>8, <2>1, <2>2 DEF RowStays
<1>9. CASE Reports(t) \/ Moves(t) \/ Places(t) \/ Acknowledges(t) \/ Decides(t)
  BY <1>8, <1>9, Steady
<1>10. CASE Ends(t)
  <2>1. PICK m \in Attempt, state \in {"COMPLETED", "FAILED", "CANCELLED"} : Result(t, m, state)
    BY <1>10 DEF Ends
  <2>2. m = n /\ m \in 1..n /\ SetRun(t, m, state) /\ result' = [result EXCEPT ![t][m] = state]
    BY <2>1 DEF Result, TakesResult, Latest
  <2>3. task[t] # None /\ task[t] \in TaskRow
    BY <1>1, <2>2, Here
  <2>4. run'[t] = [run[t] EXCEPT ![m] = state] /\ result'[t][m] = state
    BY <1>1, <2>2 DEF SetRun, TypeOK
  <2>5. task'[t].state = state
    <3>. DEFINE b == IF state = "COMPLETED" /\ task[t].biz \in {"ASSIGNED", "EXECUTING"} THEN "VERIFYING"
                     ELSE task[t].biz
                r == [task[t] EXCEPT !.state = state, !.biz = b]
    <3>1. task' = [task EXCEPT ![t] = r]
      BY <2>1 DEF Result
    <3>2. r.state = state
      BY <2>3 DEF TaskRow
    <3>. HIDE DEF r
    <3>. QED BY <1>1, <3>1, <3>2 DEF TypeOK
  <2>6. Len(run'[t]) = n /\ run'[t][n] = state /\ result'[t][n] = state
    BY <1>1, <2>2, <2>4
  <2>. QED BY <2>5, <2>6 DEF ResultStands, Latest
<1>. QED BY <1>6, <1>7, <1>9, <1>10 DEF Touches

LEMMA NextResults ==
  ASSUME DelegationConstants, IInv, [Next]_vars
  PROVE  ResultsStand'
<1>0. RowsTyped /\ RowsStay /\ ResultsStand
  BY StepKeeps DEF IInv
<1>1. ASSUME NEW t \in Task, Touches(t) PROVE ResultsStand'
  <2>1. ResultStands(t)'
    BY <1>0, <1>1, TouchResults DEF ResultsStand, RowsStay
  <2>2. ASSUME NEW u \in Task \ {t} PROVE ResultStands(u)'
    <3>1. task'[u] = task[u] /\ run'[u] = run[u] /\ result'[u] = result[u]
      BY <1>1, TouchKeeps, HistoryType DEF OthersKept
    <3>2. ResultStands(u)
      BY <1>0 DEF ResultsStand
    <3>. QED BY <3>1, <3>2 DEF ResultStands, Latest
  <2>. QED BY <2>1, <2>2 DEF ResultsStand
<1>2. CASE UNCHANGED Data
  BY <1>0, <1>2 DEF Data, ResultsStand, ResultStands, Latest
<1>. QED BY <1>1, <1>2, DataKinds

\* Nothing but an accepting decision makes a task DONE, and nothing but an end
\* to it takes away what it is DONE on.
LEMMA TouchDone ==
  ASSUME DelegationConstants, IInv, NEW t \in Task, Touches(t), RowStays(t), RowsTyped,
         DoneStands(t), ResultStands(t)
  PROVE  DoneStands(t)'
<1>. DEFINE n == Len(run[t])
<1>1. /\ TypeOK /\ run[t] \in Seq(DelegationState) /\ n \in 0..MaxAttempt
      /\ \A m \in 1..n : m \in Attempt
      /\ task[t] # None => task[t] \in TaskRow
  BY Here
<1>2. ASSUME Len(run'[t]) = n, task[t] # None, task[t].biz = "DONE",
             task[t].state \notin Active => task'[t].state = task[t].state
      PROVE  DoneStands(t)'
  <2>1. /\ n > 0 /\ task[t].state = "COMPLETED" /\ run[t][n] = "COMPLETED" /\ result[t][n] = "COMPLETED"
    BY <1>2 DEF DoneStands, Latest
  <2>2. n \in 1..n /\ n \in Attempt
    BY <1>1, <2>1
  <2>3. "COMPLETED" \notin Active /\ result[t][n] # None
    BY <2>1 DEF Active, DelegationConstants, DelegationState
  <2>4. task'[t].state = "COMPLETED" /\ run'[t][n] = "COMPLETED" /\ result'[t][n] = "COMPLETED"
    BY <1>2, <2>1, <2>2, <2>3 DEF RowStays
  <2>. QED BY <1>2, <2>1, <2>4 DEF DoneStands, Latest
<1>3. ASSUME task'[t].biz # "DONE" PROVE DoneStands(t)'
  BY <1>3 DEF DoneStands
<1>4. CASE Opens(t)
  <2>1. PICK state, sched : Insert(t, state, sched)
    BY <1>4 DEF Opens
  <2>2. task'[t].biz = "ASSIGNED"
    BY <1>1, <2>1 DEF Insert, Row, TypeOK
  <2>. QED BY <1>3, <2>2
<1>5. CASE Adds(t)
  <2>1. PICK state, own : task[t] # None /\ NextRun(t, state, own)
    BY <1>5 DEF Adds
  <2>2. task'[t].biz \in {None, "ASSIGNED"}
    BY <1>1, <2>1 DEF NextRun, AddRun, Row, TypeOK
  <2>. QED BY <1>3, <2>2 DEF DelegationConstants, BusinessState
<1>6. CASE Reports(t) \/ Moves(t) \/ Places(t) \/ Acknowledges(t)
  <2>1. CASE task[t] = None
    <3>1. CASE Places(t)
      BY <2>1, <3>1 DEF Places, DoneStands
    <3>. QED BY <1>4, <2>1, <3>1, TouchesRows
  <2>2. CASE task[t] # None
    BY <1>2, <1>3, <1>6, <2>2, Steady
  <2>. QED BY <2>1, <2>2
<1>7. CASE Ends(t)
  <2>1. PICK m \in Attempt, state \in {"COMPLETED", "FAILED", "CANCELLED"} : Result(t, m, state)
    BY <1>7 DEF Ends
  <2>2. m \in 1..n /\ task[t].biz \notin Closed
    BY <2>1 DEF Result, TakesResult, Latest
  <2>3. task[t] \in TaskRow
    BY <1>1, <2>2, Here
  <2>. DEFINE b == IF state = "COMPLETED" /\ task[t].biz \in {"ASSIGNED", "EXECUTING"} THEN "VERIFYING" ELSE task[t].biz
              r == [task[t] EXCEPT !.state = state, !.biz = b]
  <2>4. task' = [task EXCEPT ![t] = r] /\ r.biz = b
    BY <2>1, <2>3 DEF Result, TaskRow
  <2>5. b # "DONE"
    BY <2>2 DEF Closed
  <2>. HIDE DEF r, b
  <2>6. task'[t].biz = b
    BY <1>1, <2>4 DEF TypeOK
  <2>. QED BY <1>3, <2>5, <2>6
<1>8. CASE Decides(t)
  <2>1. PICK event \in Event, gate \in BOOLEAN : Transition(t, event, gate)
    BY <1>8 DEF Decides
  <2>2. UNCHANGED <<run, result>> /\ task[t] # None /\ task[t] \in TaskRow
    BY <1>1, <2>1 DEF Transition
  <2>3. CASE task' = task
    BY <1>2, <1>3, <2>2, <2>3
  <2>4. CASE task' # task
    <3>1. /\ MayComplete(t, event) /\ task' = [task EXCEPT ![t].biz = Gated(event, gate)]
      BY <2>1, <2>4 DEF Transition
    <3>2. task'[t].biz = Gated(event, gate) /\ task'[t].state = task[t].state
      BY <1>1, <2>2, <3>1 DEF TypeOK, TaskRow
    <3>3. CASE Gated(event, gate) = "DONE"
      <4>1. n > 0 /\ run[t][n] = "COMPLETED" /\ result[t][n] = "COMPLETED"
        BY <3>1, <3>3, TargetType DEF MayComplete, Latest
      <4>2. task[t].state = "COMPLETED"
        BY <4>1 DEF ResultStands, Latest, DelegationConstants, DelegationState
      <4>. QED BY <2>2, <3>2, <4>1, <4>2 DEF DoneStands, Latest
    <3>. QED BY <1>3, <3>2, <3>3
  <2>. QED BY <2>3, <2>4
<1>. QED BY <1>4, <1>5, <1>6, <1>7, <1>8 DEF Touches

LEMMA NextDone ==
  ASSUME DelegationConstants, IInv, [Next]_vars
  PROVE  DoneRestsOnAResult' /\ DoneHasRun'
<1>0. RowsTyped /\ RowsStay /\ ResultsStand /\ \A t \in Task : DoneStands(t)
  BY StepKeeps DEF IInv, DoneRestsOnAResult, DoneHasRun, DoneStands
<1>1. ASSUME \A t \in Task : DoneStands(t)' PROVE DoneRestsOnAResult' /\ DoneHasRun'
  BY <1>1 DEF DoneRestsOnAResult, DoneHasRun, DoneStands
<1>2. ASSUME NEW t \in Task, Touches(t), NEW u \in Task PROVE DoneStands(u)'
  <2>1. CASE u = t
    BY <1>0, <1>2, <2>1, TouchDone DEF ResultsStand, RowsStay
  <2>2. CASE u # t
    <3>1. task'[u] = task[u] /\ run'[u] = run[u] /\ result'[u] = result[u]
      BY <1>2, <2>2, TouchKeeps, HistoryType DEF OthersKept
    <3>. QED BY <1>0, <3>1 DEF DoneStands, Latest
  <2>. QED BY <2>1, <2>2
<1>3. CASE UNCHANGED Data
  BY <1>0, <1>1, <1>3 DEF Data, DoneStands, Latest
<1>. QED BY <1>1, <1>2, <1>3, DataKinds

\* Tasks at work, and closed ones.
Busy(t) == task[t] # None /\ task[t].state \in Active
Shut(t) == task[t] # None /\ task[t].biz \in Closed

LEMMA QuietTree ==
  ClosedTreeIsQuiet <=>
    \A t \in Task : Shut(t) => ~Busy(t) /\ \A u \in Task : ParentOf[u] = t => ~Busy(u)
BY DEF ClosedTreeIsQuiet, Executing, Children, Busy, Shut

\* A task starts to be at work only open, and under an open parent.
LEMMA TouchBusy ==
  ASSUME DelegationConstants, IInv, NEW t \in Task, Touches(t), Busy(t)', ~Busy(t)
  PROVE  ~Shut(t)' /\ (ParentOf[t] # None => ~Shut(ParentOf[t]))
<1>1. /\ TypeOK /\ (task[t] # None => task[t] \in TaskRow)
  BY Here
<1>2. CASE Opens(t)
  <2>1. PICK state, sched : Insert(t, state, sched)
    BY <1>2 DEF Opens
  <2>2. task'[t].biz = "ASSIGNED" /\ ParentAcceptsWork(t)
    BY <1>1, <2>1 DEF Insert, ParentDelegates, ParentAcceptsWork, Row, TypeOK
  <2>. QED BY <2>2 DEF Shut, Closed, ParentAcceptsWork
<1>3. CASE Adds(t)
  <2>1. PICK state, own : task[t] # None /\ NextRun(t, state, own)
    BY <1>3 DEF Adds
  <2>2. task'[t].biz \in {None, "ASSIGNED"} /\ ParentAcceptsWork(t)
    BY <1>1, <2>1 DEF NextRun, AddRun, Row, TypeOK
  <2>3. None \notin Closed
    BY DEF DelegationConstants, BusinessState, Closed
  <2>. QED BY <2>2, <2>3 DEF Shut, Closed, ParentAcceptsWork
<1>4. CASE task[t] = None /\ ~Opens(t)
  <2>1. task'[t] = None
    BY <1>4, TouchesRows DEF Places
  <2>. QED BY <2>1 DEF Busy
<1>5. CASE task[t] # None /\ (Reports(t) \/ Moves(t) \/ Places(t) \/ Acknowledges(t) \/ Decides(t))
  <2>1. task'[t].state = task[t].state
    BY <1>5, Steady DEF Busy
  <2>. QED BY <1>5, <2>1 DEF Busy
<1>6. CASE Ends(t)
  <2>1. PICK m \in Attempt, state \in {"COMPLETED", "FAILED", "CANCELLED"} : Result(t, m, state)
    BY <1>6 DEF Ends
  <2>. DEFINE b == IF state = "COMPLETED" /\ task[t].biz \in {"ASSIGNED", "EXECUTING"} THEN "VERIFYING" ELSE task[t].biz
              r == [task[t] EXCEPT !.state = state, !.biz = b]
  <2>2. CASE task[t] # None
    <3>1. task' = [task EXCEPT ![t] = r] /\ r.state = state
      BY <1>1, <2>1, <2>2 DEF Result, TaskRow
    <3>. HIDE DEF r, b
    <3>2. task'[t].state \notin Active
      BY <1>1, <3>1 DEF TypeOK, Active
    <3>. QED BY <3>2 DEF Busy
  <2>. QED BY <1>2, <1>4, <2>2
<1>. QED BY <1>2, <1>3, <1>4, <1>5, <1>6 DEF Touches

\* A task is closed only when neither it nor one delegated from it is at work.
LEMMA TouchShut ==
  ASSUME DelegationConstants, IInv, NEW t \in Task, Touches(t), Shut(t)', ~Shut(t)
  PROVE  ~Busy(t)' /\ \A u \in Task : ParentOf[u] = t => ~Busy(u)
<1>1. /\ TypeOK /\ (task[t] # None => task[t] \in TaskRow) /\ ResultStands(t)
      /\ \A u \in Task : Shut(u) => ~Busy(u)
  BY Here, QuietTree DEF IInv, ResultsStand
<1>2. CASE Opens(t)
  <2>1. PICK state, sched : Insert(t, state, sched)
    BY <1>2 DEF Opens
  <2>2. task'[t].biz = "ASSIGNED"
    BY <1>1, <2>1 DEF Insert, Row, TypeOK
  <2>. QED BY <2>2 DEF Shut, Closed
<1>3. CASE Adds(t)
  <2>1. PICK state, own : task[t] # None /\ NextRun(t, state, own)
    BY <1>3 DEF Adds
  <2>2. task'[t].biz \in {None, "ASSIGNED"}
    BY <1>1, <2>1 DEF NextRun, AddRun, Row, TypeOK
  <2>. QED BY <2>2 DEF Shut, Closed, DelegationConstants, BusinessState
<1>4. CASE task[t] = None /\ ~Opens(t)
  <2>1. task'[t] = None
    BY <1>4, TouchesRows DEF Places
  <2>. QED BY <2>1 DEF Shut
<1>5. CASE task[t] # None /\ (Reports(t) \/ Moves(t) \/ Places(t) \/ Acknowledges(t))
  BY <1>5, Steady DEF Shut
<1>6. CASE Ends(t) /\ task[t] # None
  <2>1. PICK m \in Attempt, state \in {"COMPLETED", "FAILED", "CANCELLED"} : Result(t, m, state)
    BY <1>6 DEF Ends
  <2>. DEFINE b == IF state = "COMPLETED" /\ task[t].biz \in {"ASSIGNED", "EXECUTING"} THEN "VERIFYING" ELSE task[t].biz
              r == [task[t] EXCEPT !.state = state, !.biz = b]
  <2>1a. task[t].biz \notin Closed
    BY <2>1 DEF Result, TakesResult
  <2>2. task' = [task EXCEPT ![t] = r] /\ r.biz = b /\ b \notin Closed
    BY <1>1, <1>6, <2>1, <2>1a DEF Result, TaskRow, Closed
  <2>. HIDE DEF r, b
  <2>3. task'[t].biz \notin Closed
    BY <1>1, <2>2 DEF TypeOK
  <2>. QED BY <2>3 DEF Shut
<1>7. CASE Decides(t) /\ task[t] # None
  <2>1. PICK event \in Event, gate \in BOOLEAN : Transition(t, event, gate)
    BY <1>7 DEF Decides
  <2>2. task' # task
    BY <1>7 DEF Shut
  <2>3. MayClose(t, event) /\ MayComplete(t, event) /\ task' = [task EXCEPT ![t].biz = Gated(event, gate)]
    BY <2>1, <2>2 DEF Transition
  <2>4. task'[t].biz = Gated(event, gate) /\ task'[t].state = task[t].state
    BY <1>1, <1>7, <2>3 DEF TypeOK, TaskRow
  <2>5. event \in {"complete", "reject", "archive"}
    BY <2>4, TargetType DEF Shut
  <2>6. CASE event = "complete"
    <3>1. Children(t) \subseteq Accepted(t) /\ Latest(t) > 0 /\ result[t][Latest(t)] = "COMPLETED"
      BY <2>3, <2>6 DEF MayComplete
    <3>2. task[t].state = "COMPLETED"
      BY <1>1, <3>1 DEF ResultStands, DelegationConstants, DelegationState
    <3>3. \A u \in Task : ParentOf[u] = t /\ task[u] # None => Shut(u)
      BY <3>1 DEF Children, Accepted, Shut, Closed
    <3>. QED BY <1>1, <2>4, <3>2, <3>3 DEF Busy, Active
  <2>7. CASE event \in {"reject", "archive"}
    BY <2>3, <2>4, <2>7 DEF MayClose, Executing, Children, Busy
  <2>. QED BY <2>5, <2>6, <2>7
<1>. QED BY <1>2, <1>3, <1>4, <1>5, <1>6, <1>7 DEF Touches

LEMMA NextClosed ==
  ASSUME DelegationConstants, IInv, [Next]_vars
  PROVE  ClosedTreeIsQuiet'
<1>0. \A t \in Task : Shut(t) => ~Busy(t) /\ \A u \in Task : ParentOf[u] = t => ~Busy(u)
  BY QuietTree DEF IInv
<1>1. ASSUME NEW t \in Task, Touches(t) PROVE ClosedTreeIsQuiet'
  <2>1. ASSUME NEW u \in Task, u # t PROVE (Busy(u)' <=> Busy(u)) /\ (Shut(u)' <=> Shut(u))
    <3>1. task'[u] = task[u]
      BY <1>1, <2>1, TouchKeeps, HistoryType DEF OthersKept
    <3>. QED BY <3>1 DEF Busy, Shut
  <2>2. ASSUME Shut(t)' PROVE ~Busy(t)'
    BY <1>0, <1>1, <2>2, TouchBusy, TouchShut
  <2>3. ASSUME NEW v \in Task, Shut(v)', NEW u \in Task, ParentOf[u] = v PROVE ~Busy(u)'
    <3>1. CASE u # t /\ v # t
      BY <1>0, <2>1, <2>3, <3>1
    <3>2. CASE u # t /\ v = t
      BY <1>0, <1>1, <2>1, <2>3, <3>2, TouchShut
    <3>3. CASE u = t /\ v # t
      <4>1. Shut(v) /\ ~Busy(t) /\ ParentOf[t] # None
        BY <1>0, <2>1, <2>3, <3>3 DEF DelegationConstants
      <4>. QED BY <1>1, <2>3, <3>3, <4>1, TouchBusy
    <3>4. CASE u = t /\ v = t
      BY <2>2, <2>3, <3>4
    <3>. QED BY <3>1, <3>2, <3>3, <3>4
  <2>4. \A v \in Task : Shut(v)' => ~Busy(v)'
    BY <1>0, <2>1, <2>2
  <2>. QED BY <2>3, <2>4 DEF ClosedTreeIsQuiet, Executing, Children, Busy, Shut
<1>2. CASE UNCHANGED Data
  BY <1>2 DEF Data, IInv, ClosedTreeIsQuiet, Executing, Children
<1>. QED BY <1>1, <1>2, DataKinds

\* What is handed over stays due or with the scheduler.
LEMMA TouchCared ==
  ASSUME DelegationConstants, IInv, NEW t \in Task, Touches(t), RowStays(t), RowsTyped, Cared(t)
  PROVE  Cared(t)'
<1>. DEFINE n == Len(run[t])
<1>1. /\ TypeOK /\ run[t] \in Seq(DelegationState) /\ n \in 0..MaxAttempt
      /\ \A m \in 1..n : m \in Attempt
      /\ task[t] # None => task[t] \in TaskRow
      /\ task[t] = None => run[t] = <<>>
  BY Here
<1>2. run'[t] \in Seq(DelegationState) /\ Len(run'[t]) \in 0..MaxAttempt
  BY RunShape DEF RowsTyped, DelegationConstants
<1>3. ASSUME Len(run'[t]) = n,
             <<t, n>> \in outbox' \/ (<<t, n>> \in outbox => AtRest(t, n))
      PROVE  Cared(t)'
  <2>. SUFFICES ASSUME run'[t] # <<>>, task'[t].sched = n, run'[t][n] \in Active, <<t, n>> \notin outbox'
                PROVE  placed'[t][n] # None
    BY <1>3 DEF Cared, Latest
  <2>1. n \in 1..n /\ n \in Attempt /\ run[t] # <<>>
    BY <1>1, <1>2, <1>3
  <2>2. run[t][n] \in Active /\ task[t] # None /\ task[t].sched = n
    BY <1>1, <2>1 DEF RowStays
  <2>3. <<t, n>> \in outbox \/ placed[t][n] # None
    BY <2>1, <2>2 DEF Cared, Latest
  <2>4. placed[t][n] # None
    BY <1>3, <2>2, <2>3 DEF AtRest
  <2>. QED BY <2>1, <2>4 DEF RowStays
<1>4. CASE Opens(t)
  <2>1. PICK state \in DelegationState, sched \in {0, 1} : Insert(t, state, sched)
    BY <1>4 DEF Opens
  <2>2. run'[t] = <<state>> /\ task'[t].sched = sched
    BY <1>1, <2>1 DEF Insert, Row, TypeOK
  <2>3. Len(run'[t]) = 1
    BY <2>2
  <2>4. sched = 1 => <<t, 1>> \in outbox'
    BY <2>1 DEF Insert
  <2>. QED BY <2>2, <2>3, <2>4 DEF Cared, Latest
<1>5. CASE Adds(t)
  <2>1. PICK state \in DelegationState, own \in BOOLEAN : task[t] # None /\ NextRun(t, state, own)
    BY <1>5 DEF Adds
  <2>. DEFINE k == Len(Runs(t)) + 1
  <2>2. k \in Attempt /\ run'[t] = Append(Runs(t), state) /\ task'[t].sched = IF own THEN k ELSE 0
    BY <1>1, <2>1 DEF NextRun, AddRun, Row, TypeOK
  <2>3. Len(run'[t]) = k /\ k # 0
    BY <2>1, <2>2, RunsOf DEF Attempt, DelegationConstants
  <2>4. own => <<t, k>> \in outbox'
    BY <2>1 DEF NextRun, AddRun
  <2>. QED BY <2>2, <2>3, <2>4 DEF Cared, Latest
<1>6. CASE Reports(t) \/ Moves(t) \/ Places(t) \/ Decides(t)
  <2>1. outbox' = outbox
    BY <1>6 DEF Reports, Moves, Places, Decides, Transition
  <2>2. Len(run'[t]) = n
    BY <1>6, Steady
  <2>3. CASE <<t, n>> \in outbox
    BY <1>3, <2>1, <2>2, <2>3
  <2>4. CASE <<t, n>> \notin outbox
    BY <1>3, <2>2, <2>4
  <2>. QED BY <2>3, <2>4
<1>7. CASE Acknowledges(t)
  <2>1. PICK m \in Attempt : AtRest(t, m) /\ outbox' = outbox \ {<<t, m>>}
    BY <1>7 DEF Acknowledges
  <2>2. Len(run'[t]) = n
    BY <1>7, Steady
  <2>3. CASE m = n
    BY <1>3, <2>1, <2>2, <2>3
  <2>4. CASE m # n
    BY <1>3, <2>1, <2>2, <2>4
  <2>. QED BY <2>3, <2>4
<1>8. CASE Ends(t)
  <2>1. PICK m \in Attempt, state \in {"COMPLETED", "FAILED", "CANCELLED"} : Result(t, m, state)
    BY <1>8 DEF Ends
  <2>2. outbox' = outbox /\ SetRun(t, m, state)
    BY <2>1 DEF Result
  <2>3. Len(run'[t]) = n
    BY <1>1, <2>2 DEF SetRun, TypeOK
  <2>4. CASE <<t, n>> \in outbox
    BY <1>3, <2>2, <2>3, <2>4
  <2>5. CASE <<t, n>> \notin outbox
    BY <1>3, <2>3, <2>5
  <2>. QED BY <2>4, <2>5
<1>. QED BY <1>4, <1>5, <1>6, <1>7, <1>8 DEF Touches

LEMMA NextCared ==
  ASSUME DelegationConstants, IInv, [Next]_vars
  PROVE  ActiveRunIsCared'
<1>0. RowsTyped /\ RowsStay /\ ActiveRunIsCared
  BY StepKeeps DEF IInv
<1>1. ASSUME NEW t \in Task, Touches(t) PROVE ActiveRunIsCared'
  <2>1. Cared(t)'
    BY <1>0, <1>1, TouchCared DEF ActiveRunIsCared, RowsStay
  <2>2. ASSUME NEW u \in Task \ {t} PROVE Cared(u)'
    <3>1. /\ task'[u] = task[u] /\ run'[u] = run[u] /\ placed'[u] = placed[u]
          /\ \A n \in Attempt : <<u, n>> \in outbox => <<u, n>> \in outbox'
      BY <1>1, TouchKeeps, HistoryType DEF OthersKept
    <3>2. Cared(u)
      BY <1>0 DEF ActiveRunIsCared
    <3>3. run[u] # <<>> => Len(run[u]) \in Attempt
      BY Here DEF Attempt, DelegationConstants
    <3>. QED BY <3>1, <3>2, <3>3 DEF Cared, Latest
  <2>. QED BY <2>1, <2>2 DEF ActiveRunIsCared
<1>2. CASE UNCHANGED Data
  BY <1>0, <1>2 DEF Data, ActiveRunIsCared, Cared, Latest
<1>. QED BY <1>1, <1>2, DataKinds

-----------------------------------------------------------------------------
(* The invariant, and what it says *)

LEMMA InitIInv ==
  ASSUME DelegationConstants, Init
  PROVE  IInv
<1>1. PICK old \in [Legacy -> Old] : task = [t \in Task |-> IF t \in Legacy THEN old[t] ELSE None]
  BY DEF Init
<1>2. /\ run = [t \in Task |-> <<>>] /\ outbox = {} /\ finished = {} /\ accepted = {}
      /\ result = [t \in Task |-> [n \in Attempt |-> None]]
      /\ placed = [t \in Task |-> [n \in Attempt |->
                                   IF t \in Legacy /\ n = 1 THEN task[t].state ELSE None]]
      /\ call = [c \in Caller \cup Loop |-> None]
  BY DEF Init
<1>3. \A t \in Task : Len(run[t]) = 0
  BY <1>2
<1>4. ASSUME NEW t \in Task, task[t] # None
      PROVE  task[t] \in Old
  BY <1>1, <1>4 DEF DelegationConstants
<1>5. Old \subseteq TaskRow /\ \A row \in Old : row.state \in {"RUNNING", "FAILED"} /\ row.biz = None
  BY DEF Old, Row, TaskRow, DelegationState, Attempt, DelegationConstants
<1>6. TypeOK
  <2>1. task \in [Task -> {None} \cup TaskRow]
    BY <1>1, <1>4, <1>5
  <2>2. <<>> \in UNION {[1..n -> DelegationState] : n \in 0..MaxAttempt}
    BY RunShape DEF DelegationConstants
  <2>3. run \in [Task -> UNION {[1..n -> DelegationState] : n \in 0..MaxAttempt}]
    BY <1>2, <2>2
  <2>4. placed \in [Task -> [Attempt -> {None} \cup SchedulerState]]
    <3>1. \A t \in Legacy : t \in Task /\ task[t].state \in SchedulerState
      BY <1>1, <1>5, SchedulerStates DEF DelegationConstants
    <3>. QED BY <1>2, <3>1
  <2>. QED BY <1>2, <2>1, <2>3, <2>4 DEF TypeOK, TaskRow
<1>7. RunsAreOfRows /\ ActiveRunIsCared /\ ResultsStand
  BY <1>2, <1>3 DEF RunsAreOfRows, ActiveRunIsCared, Cared, ResultsStand, ResultStands, Latest
<1>8. CallsAreKnown /\ RecordsRest
  BY <1>2 DEF CallsAreKnown, CallKnown, RecordsRest, RecordRests
<1>9. ClosedTreeIsQuiet /\ DoneRestsOnAResult /\ DoneHasRun
  BY <1>4, <1>5 DEF ClosedTreeIsQuiet, DoneRestsOnAResult, DoneHasRun, Closed, DelegationConstants, BusinessState
<1>. QED BY <1>6, <1>7, <1>8, <1>9 DEF IInv

LEMMA NextIInv ==
  ASSUME DelegationConstants, IInv, [Next]_vars
  PROVE  IInv'
BY NextType, NextRunsOfRows, NextCalls, NextResults, NextCared, NextClosed, NextDone DEF IInv

\* The rows, runs, results, hand-overs and calls hang together in every state.
THEOREM Invariance ==
  ASSUME DelegationConstants
  PROVE  Spec => []IInv
<1>1. Init => IInv
  BY InitIInv
<1>2. IInv /\ [Next]_vars => IInv'
  BY NextIInv
<1>. QED BY <1>1, <1>2, PTL DEF Spec

\* The rows and the calls are well formed: a row names one of its attempts, a
\* due hand-over belongs to a run of a task that is there.
THEOREM TypeCorrect ==
  ASSUME DelegationConstants
  PROVE  Spec => []TypeOK
<1>1. IInv => TypeOK
  BY DEF IInv
<1>. QED BY <1>1, Invariance, PTL

\* However closing a task, delegating under it, retrying and rerouting below it
\* interleave: in and directly under a closed task nothing is in execution.
THEOREM ClosingIsQuiet ==
  ASSUME DelegationConstants
  PROVE  Spec => []ClosedTreeIsQuiet
<1>1. IInv => ClosedTreeIsQuiet
  BY DEF IInv
<1>. QED BY <1>1, Invariance, PTL

\* A task that stands as DONE, however late the reports that still come in,
\* stands on its newest run, which is COMPLETED with a result that says so.
THEOREM AcceptanceRestsOnAResult ==
  ASSUME DelegationConstants
  PROVE  Spec => []DoneRestsOnAResult
<1>1. IInv => DoneRestsOnAResult
  BY DEF IInv
<1>. QED BY <1>1, Invariance, PTL

\* A run its task waits for has its hand-over due, or the scheduler has it:
\* lost answers and stale deliveries acknowledge no run that nobody has.
THEOREM NoWaitingRunIsLost ==
  ASSUME DelegationConstants
  PROVE  Spec => []WaitingRunIsCared
<1>1. IInv => WaitingRunIsCared
  BY DEF IInv, ActiveRunIsCared, Cared, WaitingRunIsCared, Active
<1>. QED BY <1>1, Invariance, PTL

\* No report, stale answer or placement that comes after the end rewrites an
\* ended attempt or a recorded result.
THEOREM HistoryStands ==
  ASSUME DelegationConstants
  PROVE  Spec => AttemptsStandStill
<1>1. IInv /\ [Next]_vars => [AttemptsKept]_vars
  BY StepKeeps DEF RowsStay, RowStays, AttemptsKept, Latest
<1>. QED BY <1>1, Invariance, PTL DEF Spec, AttemptsStandStill
===============================================================================
