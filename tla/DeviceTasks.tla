----------------------------- MODULE DeviceTasks ------------------------------
(***************************************************************************)
(* A task handed to a desktop machine: the scheduler's placement, the      *)
(* command rows of the governance store, the gateway's connection and the  *)
(* agent with its journal, inbox and receipts (governance internal/store   *)
(* devices.go and task_results.go, internal/device gateway.go, registry    *)
(* cmd/desktop-agent).  Store transactions are steps; the two ends of the  *)
(* connection run concurrently, either may go away with what is on its     *)
(* way, and the agent's process may die between any two of its steps.      *)
(* What makes a channel usable is in DeviceIdentity; here it is "ready".   *)
(***************************************************************************)
EXTENDS TaskStates, Naturals, SequencesExt

CONSTANTS
  Run, None,
  AttemptOf,      \* AttemptOf[r]: the number of the run among those of its task
  Cap,            \* the commands a machine may have on its way (16)
  MaxConnection,  \* bound: connections opened
  MaxManaged      \* bound: commands queued by people

VARIABLES
  run,      \* run[r]: its state, and whether it was handed over (session_ref)
  sched,    \* sched[r]: the scheduler's state for it
  outbox,   \* the placements waiting to be handed over
  result,   \* result[r]: the recorded result, or None
  cmd,      \* the command rows, oldest first
  server,   \* the connection row: its id (0: none), lease, and "ready"
  opened,   \* how many connections there have been
  link,     \* the channel: its connection, what is on its way down and up
  disk,     \* the machine's files: journal, inbox[r], receipt[r]
  agent,    \* the agent: its channel and the answer it is about to give
  job       \* job[r]: the goroutine that runs r, or None

vars == <<run, sched, outbox, result, cmd, server, opened, link, disk, agent, job>>

NoLink == [conn |-> 0, down |-> <<>>, up |-> <<>>]
Asleep == [conn |-> 0, reply |-> None]

\* The scheduler placed every run on this machine.
Init ==
  /\ run = [r \in Run |-> [state |-> "QUEUED", session |-> FALSE]]
  /\ sched = [r \in Run |-> "PLACED"]
  /\ outbox = Run
  /\ result = [r \in Run |-> None]
  /\ cmd = <<>>
  /\ server = [conn |-> 0, lease |-> FALSE, ready |-> FALSE]
  /\ opened = 0
  /\ link = NoLink
  /\ disk = [journal |-> {}, inbox |-> [r \in Run |-> 0], receipt |-> [r \in Run |-> None]]
  /\ agent = Asleep
  /\ job = [r \in Run |-> None]

\* A command row, and the rows that count as active.
Command(action, r) == [action |-> action, run |-> r, state |-> "queued",
                       conn |-> server.conn, live |-> TRUE]
Pending(c) == c.state \in {"queued", "delivered"}
LiveFor(cs, action, r) ==
  \E i \in DOMAIN cs : cs[i].action = action /\ cs[i].run = r /\ Pending(cs[i]) /\ cs[i].live

OnTheWay(cs) == Cardinality({i \in DOMAIN cs : Pending(cs[i]) /\ cs[i].live})

(***************************************************************************)
(* Interruption.                                                           *)
(***************************************************************************)
Interrupt(cs, hit) ==
  [i \in DOMAIN cs |-> IF Pending(cs[i]) /\ i \in hit
                       THEN [cs[i] EXCEPT !.state = "interrupted"] ELSE cs[i]]

\* The placements whose command was interrupted are open for delivery again.
Reopened(cs) ==
  outbox \cup {r \in Run : /\ sched[r] = "PLACED"
                           /\ ~LiveFor(cs, "execute_task", r)
                           /\ \E i \in DOMAIN cs : /\ cs[i].action = "execute_task"
                                                   /\ cs[i].run = r
                                                   /\ cs[i].state = "interrupted"}

\* interruptDeviceCommands, of all connections (0) or of one.
InterruptDeviceCommands(conn) ==
  /\ cmd' = Interrupt(cmd, {i \in DOMAIN cmd : conn = 0 \/ cmd[i].conn = conn})
  /\ outbox' = Reopened(cmd')

(***************************************************************************)
(* The connection.                                                         *)
(***************************************************************************)
\* recoverTaskInbox: the runs accepted and not finished get a receipt, and are
\* reported over the new channel.
Unfinished == {r \in Run : disk.inbox[r] # 0 /\ disk.receipt[r] = None}
RecoverTaskInbox ==
  /\ disk' = [disk EXCEPT !.receipt = [r \in Run |-> IF r \in Unfinished THEN "FAILED" ELSE @[r]]]
  /\ \E q \in SetToSeqs(Unfinished) :
       link' = [conn |-> opened + 1, down |-> <<>>,
                up |-> [i \in DOMAIN q |-> [type |-> "task_result", cmd |-> disk.inbox[q[i]],
                                           run |-> q[i], state |-> "FAILED"]]]

\* ConnectDevice fences the old lease; the agent begins with its inbox.
ConnectDevice ==
  /\ agent.conn = 0 /\ link.conn = 0
  /\ opened < MaxConnection
  /\ opened' = opened + 1
  /\ server' = [conn |-> opened + 1, lease |-> TRUE, ready |-> FALSE]
  /\ InterruptDeviceCommands(0)
  /\ agent' = [conn |-> opened + 1, reply |-> None]
  /\ RecoverTaskInbox
  /\ UNCHANGED <<run, sched, result, job>>

\* DeviceHeartbeat, of a converged machine.
DeviceHeartbeat ==
  /\ link.conn # 0 /\ server.conn = link.conn /\ server.lease
  /\ server' = [server EXCEPT !.ready = TRUE]
  /\ UNCHANGED <<run, sched, outbox, result, cmd, opened, link, disk, agent, job>>

\* The channel breaks: a run at work loses its context.
Cut ==
  /\ link' = NoLink
  /\ agent' = Asleep
  /\ job' = [r \in Run |-> IF job[r] = None THEN None ELSE [job[r] EXCEPT !.cancelled = TRUE]]

Break ==
  /\ link.conn # 0
  /\ Cut
  /\ UNCHANGED <<run, sched, outbox, result, cmd, server, opened, disk>>

\* The agent's process dies.
Die ==
  /\ agent.conn # 0
  /\ link' = NoLink /\ agent' = Asleep
  /\ job' = [r \in Run |-> None]
  /\ UNCHANGED <<run, sched, outbox, result, cmd, server, opened, disk>>

\* DisconnectDevice: the handler of a connection that is over cleans up, unless
\* the replica died; then the lease runs out.
DisconnectDevice ==
  /\ server.conn # 0 /\ server.conn # link.conn
  /\ server' = [conn |-> 0, lease |-> FALSE, ready |-> FALSE]
  /\ InterruptDeviceCommands(server.conn)
  /\ UNCHANGED <<run, sched, result, opened, link, disk, agent, job>>
LeaseEnds ==
  /\ server.lease
  /\ server' = [server EXCEPT !.lease = FALSE]
  /\ UNCHANGED <<run, sched, outbox, result, cmd, opened, link, disk, agent, job>>

(***************************************************************************)
(* The gateway's dispatcher.                                               *)
(***************************************************************************)
\* What may be handed over.  The scheduler counts its own placements of a run,
\* from 1.
Deliverable(r, cs, open) ==
  /\ r \in open /\ sched[r] = "PLACED"
  /\ run[r].state \in {"QUEUED", "ASSIGNED"} /\ ~run[r].session
  /\ AttemptOf[r] = 1
  /\ server.conn # 0 /\ server.lease /\ server.ready
  /\ ~LiveFor(cs, "execute_task", r)
  /\ OnTheWay(cs) < Cap

\* dispatchDeviceTask: expired commands are interrupted, their placements
\* reopened, and one placement handed over.
DispatchDeviceTask ==
  LET expired == {i \in DOMAIN cmd : cmd[i].action = "execute_task" /\ ~cmd[i].live}
      cs   == Interrupt(cmd, expired)
      open == Reopened(cs)
      some == {r \in Run : Deliverable(r, cs, open)}
  IN
  /\ \/ /\ some = {} /\ <<cs, open>> # <<cmd, outbox>>
        /\ cmd' = cs /\ outbox' = open
        /\ UNCHANGED run
     \/ \E r \in some :
          /\ cmd' = Append(cs, Command("execute_task", r))
          /\ outbox' = open \ {r}
          /\ run' = [run EXCEPT ![r].session = TRUE]
  /\ UNCHANGED <<sched, result, server, opened, link, disk, agent, job>>

\* dispatchDeviceCancellation: a stop for a run whose command is still pending.
DispatchDeviceCancellation(r) ==
  /\ sched[r] = "CANCELLING"
  /\ LiveFor(cmd, "execute_task", r)
  /\ \A i \in DOMAIN cmd : cmd[i].action = "cancel_task" /\ cmd[i].run = r => ~Pending(cmd[i])
  /\ LET i == CHOOSE i \in DOMAIN cmd : cmd[i].action = "execute_task" /\ cmd[i].run = r
                                         /\ Pending(cmd[i]) /\ cmd[i].live
     IN cmd' = Append(cmd, [Command("cancel_task", r) EXCEPT !.conn = cmd[i].conn])
  /\ UNCHANGED <<run, sched, outbox, result, server, opened, link, disk, agent, job>>

\* QueueDeviceCommand: start, stop or reconcile, asked for by a person and done
\* at most once.
QueueDeviceCommand ==
  /\ Cardinality({i \in DOMAIN cmd : cmd[i].action = "manage"}) < MaxManaged
  /\ server.conn # 0 /\ server.lease
  /\ OnTheWay(cmd) < Cap
  /\ cmd' = Append(cmd, Command("manage", None))
  /\ UNCHANGED <<run, sched, outbox, result, server, opened, link, disk, agent, job>>

\* Five minutes pass for a command.
CommandEnds(i) ==
  /\ i \in DOMAIN cmd /\ Pending(cmd[i]) /\ cmd[i].live
  /\ cmd' = [cmd EXCEPT ![i].live = FALSE]
  /\ UNCHANGED <<run, sched, outbox, result, server, opened, link, disk, agent, job>>

\* ClaimDeviceCommands, and the message with what was claimed.
ClaimDeviceCommands ==
  LET mine == {i \in DOMAIN cmd : cmd[i].state = "queued" /\ cmd[i].live /\ cmd[i].conn = link.conn} IN
  /\ link.conn # 0 /\ server.conn = link.conn /\ server.lease
  /\ mine # {}
  /\ cmd' = [i \in DOMAIN cmd |-> IF i \in mine THEN [cmd[i] EXCEPT !.state = "delivered"] ELSE cmd[i]]
  /\ \E q \in SetToSeqs(mine) :
       /\ \A i, j \in DOMAIN q : i < j => q[i] < q[j]
       /\ link' = [link EXCEPT !.down = @ \o q]
  /\ UNCHANGED <<run, sched, outbox, result, server, opened, disk, agent, job>>

(***************************************************************************)
(* The agent.                                                              *)
(***************************************************************************)
Reply(i, state) == [agent EXCEPT !.reply = [type |-> "result", cmd |-> i, run |-> cmd[i].run, state |-> state]]

\* One slot per channel.
SlotFree == \A r \in Run : job[r] = None \/ job[r].conn # agent.conn

\* persistTaskInbox: a run is bound to the command that brought it first.
Persist(i, r) == disk.inbox[r] \in {0, i}

\* Faulty variant: the inbox is not written before the run ends.
AcceptUnwritten(i, able) ==
  LET r == cmd[i].run IN
  /\ disk' = [disk EXCEPT !.journal = @ \cup {i}]
  /\ agent' = Reply(i, IF able /\ cmd[i].live /\ SlotFree /\ Persist(i, r)
                      THEN "completed" ELSE "failed")

\* execute_task: the assignment is on disk before it is acknowledged.  A machine
\* without a runner, or that cannot write, is not able.
Accept(i, able) ==
  LET r == cmd[i].run IN
  IF able /\ cmd[i].live /\ SlotFree /\ Persist(i, r)
  THEN /\ disk' = [disk EXCEPT !.journal = @ \cup {i}, !.inbox[r] = i]
       /\ agent' = Reply(i, "completed")
  ELSE /\ disk' = [disk EXCEPT !.journal = @ \cup {i}]
       /\ agent' = Reply(i, "failed")

\* cancel_task: the run is stopped if it is the one at work; acknowledged anyway.
Stop(r) ==
  job' = IF job[r] # None /\ job[r].conn = agent.conn
         THEN [job EXCEPT ![r].cancelled = TRUE] ELSE job

\* The loop of connect takes the next command, which it has not taken before.
TakeCommand ==
  /\ agent.conn # 0 /\ agent.reply = None
  /\ link.down # <<>>
  /\ link' = [link EXCEPT !.down = Tail(@)]
  /\ LET i == Head(link.down) IN
     /\ i \notin disk.journal
     /\ \/ /\ cmd[i].action = "execute_task"
           /\ \E able \in BOOLEAN : Accept(i, able)
           /\ UNCHANGED job
        \/ /\ cmd[i].action = "cancel_task"
           /\ disk' = [disk EXCEPT !.journal = @ \cup {i}]
           /\ agent' = Reply(i, "completed")
           /\ Stop(cmd[i].run)
        \/ /\ cmd[i].action = "manage"
           /\ disk' = [disk EXCEPT !.journal = @ \cup {i}]
           /\ agent' \in {Reply(i, "completed"), Reply(i, "failed")}
           /\ UNCHANGED job
  /\ UNCHANGED <<run, sched, outbox, result, cmd, server, opened>>

\* The answer is on the wire before the run begins.
Answer ==
  /\ agent.reply # None
  /\ LET m == agent.reply IN
     /\ link' = [link EXCEPT !.up = Append(@, m)]
     /\ job' = IF m.state = "completed" /\ cmd[m.cmd].action = "execute_task"
               THEN [job EXCEPT ![m.run] = [cmd |-> m.cmd, conn |-> agent.conn, cancelled |-> FALSE]]
               ELSE job
  /\ agent' = [agent EXCEPT !.reply = None]
  /\ UNCHANGED <<run, sched, outbox, result, cmd, server, opened, disk>>

Report(r, state) ==
  link' = IF link.conn # job[r].conn THEN link
          ELSE [link EXCEPT !.up = Append(@, [type |-> "task_result", cmd |-> job[r].cmd,
                                              run |-> r, state |-> state])]

\* Faulty variant: the report is sent without a receipt.
FinishUnwritten(r, state) ==
  /\ job[r] # None
  /\ job[r].cancelled => state = "CANCELLED"
  /\ job' = [job EXCEPT ![r] = None]
  /\ UNCHANGED disk
  /\ Report(r, state)
  /\ UNCHANGED <<run, sched, outbox, result, cmd, server, opened, agent>>

\* finishDeviceTask: the receipt, which is never replaced, then the report, if
\* the channel is still there.
Finish(r, state) ==
  /\ job[r] # None
  /\ job[r].cancelled => state = "CANCELLED"
  /\ job' = [job EXCEPT ![r] = None]
  /\ IF disk.receipt[r] = None
     THEN disk' = [disk EXCEPT !.receipt[r] = state] /\ Report(r, state)
     ELSE UNCHANGED <<disk, link>>
  /\ UNCHANGED <<run, sched, outbox, result, cmd, server, opened, agent>>

(***************************************************************************)
(* What the gateway does with the machine's messages.                      *)
(***************************************************************************)
\* The fence of CompleteDeviceCommand and RecordDeviceTaskResult.
SameLease(i) == cmd[i].conn = link.conn /\ server.conn = link.conn /\ server.lease

\* CompleteDeviceCommand: when an answer is taken.
TakesAnswer(m) ==
  LET c == cmd[m.cmd] IN
  /\ SameLease(m.cmd)
  /\ \/ c.state = m.state
     \/ /\ c.state = "delivered" /\ c.live
        /\ c.action = "execute_task" =>
             /\ run[m.run].state \in {"QUEUED", "ASSIGNED"}
             /\ m.state = "completed" => sched[m.run] = "PLACED"
             /\ m.state = "failed" => result[m.run] = None

\* CompleteDeviceCommand: an accepted run is RUNNING everywhere.
Accepted(r) ==
  /\ run' = [run EXCEPT ![r].state = "RUNNING"]
  /\ sched' = [sched EXCEPT ![r] = "RUNNING"]
  /\ UNCHANGED result

\* CompleteDeviceCommand: a refusal is the result of the run.
Refused(r) ==
  /\ run' = [run EXCEPT ![r].state = "FAILED"]
  /\ result' = [result EXCEPT ![r] = "FAILED"]
  /\ sched' = [sched EXCEPT ![r] = IF @ = "PLACED" THEN "FAILED" ELSE @]

CompleteDeviceCommand(m) ==
  /\ TakesAnswer(m)
  /\ cmd' = [cmd EXCEPT ![m.cmd].state = m.state]
  /\ IF cmd[m.cmd].state = m.state \/ cmd[m.cmd].action # "execute_task"
     THEN UNCHANGED <<run, sched, result>>
     ELSE IF m.state = "completed" THEN Accepted(m.run) ELSE Refused(m.run)

\* RecordDeviceTaskResult: only of a command that was accepted, over the same
\* connection, and what recordTaskResultTx asks of an open task.
TakesResult(m) ==
  /\ SameLease(m.cmd)
  /\ cmd[m.cmd].state = "completed"
  /\ \/ result[m.run] = m.state
     \/ result[m.run] = None /\ run[m.run].state \in Active \cup {m.state}

RecordDeviceTaskResult(m) ==
  /\ TakesResult(m)
  /\ result' = [result EXCEPT ![m.run] = m.state]
  /\ run' = [run EXCEPT ![m.run].state = IF result[m.run] = None THEN m.state ELSE @]
  /\ UNCHANGED <<cmd, sched>>

\* The reader of connect: a message that is refused ends the channel.
Receive ==
  /\ link.up # <<>>
  /\ LET m == Head(link.up) IN
     \/ /\ m.type = "result" /\ CompleteDeviceCommand(m)
        /\ link' = [link EXCEPT !.up = Tail(@)]
        /\ UNCHANGED <<agent, job>>
     \/ /\ m.type = "task_result" /\ RecordDeviceTaskResult(m)
        /\ link' = [link EXCEPT !.up = Tail(@)]
        /\ UNCHANGED <<agent, job>>
     \/ /\ ~IF m.type = "result" THEN TakesAnswer(m) ELSE TakesResult(m)
        /\ Cut
        /\ UNCHANGED <<run, sched, result, cmd>>
  /\ UNCHANGED <<outbox, server, opened, disk>>

(***************************************************************************)
(* The requester: the scheduler takes the stop first, the task follows.    *)
(***************************************************************************)
SchedulerCancels(r) ==
  /\ sched[r] \in {"PLACED", "RUNNING"}
  /\ sched' = [sched EXCEPT ![r] = "CANCELLING"]
  /\ UNCHANGED <<run, outbox, result, cmd, server, opened, link, disk, agent, job>>
TaskCancels(r) ==
  /\ sched[r] = "CANCELLING" /\ run[r].state \in Active \ {"CANCELLING"}
  /\ run' = [run EXCEPT ![r].state = "CANCELLING"]
  /\ UNCHANGED <<sched, outbox, result, cmd, server, opened, link, disk, agent, job>>

Requester == \E r \in Run : SchedulerCancels(r) \/ TaskCancels(r)
Gateway == \/ DispatchDeviceTask \/ ClaimDeviceCommands \/ Receive \/ DisconnectDevice
           \/ QueueDeviceCommand \/ \E r \in Run : DispatchDeviceCancellation(r)
Machine == \/ ConnectDevice \/ DeviceHeartbeat \/ TakeCommand \/ Answer
           \/ \E r \in Run, state \in {"COMPLETED", "FAILED", "CANCELLED"} : Finish(r, state)
Clock == LeaseEnds \/ \E i \in DOMAIN cmd : CommandEnds(i)

Next == Requester \/ Gateway \/ Machine \/ Clock \/ Break \/ Die
Spec == Init /\ [][Next]_vars

\* The dispatcher ticks every second, the handlers of a connection and the
\* agent work while it lasts, and the agent connects again when it is lost.
FairSpec ==
  /\ Spec
  /\ WF_vars(DispatchDeviceTask) /\ WF_vars(ClaimDeviceCommands) /\ WF_vars(Receive)
  /\ WF_vars(DisconnectDevice) /\ WF_vars(ConnectDevice) /\ WF_vars(DeviceHeartbeat)
  /\ WF_vars(TakeCommand) /\ WF_vars(Answer)

(***************************************************************************)
(* Properties.                                                             *)
(***************************************************************************)
Ended == {"COMPLETED", "FAILED", "CANCELLED"}
CommandRow ==
  [action : {"execute_task", "cancel_task"}, run : Run, conn : Nat, live : BOOLEAN,
   state : {"queued", "delivered", "interrupted", "completed", "failed"}]
    \cup [action : {"manage"}, run : {None}, conn : Nat, live : BOOLEAN,
          state : {"queued", "delivered", "interrupted", "completed", "failed"}]
Message ==
  [type : {"result"}, cmd : Nat, run : Run \cup {None}, state : {"completed", "failed"}]
    \cup [type : {"task_result"}, cmd : Nat, run : Run, state : Ended]
Job == [cmd : Nat, conn : Nat, cancelled : BOOLEAN]

\* What an instance must give the constants: finitely many runs, and a None that
\* is no outcome, message or job.
DeviceConstants == IsFiniteSet(Run) /\ None \notin Ended \cup Message \cup Job

TypeOK ==
  /\ run \in [Run -> [state : DelegationState, session : BOOLEAN]]
  /\ sched \in [Run -> {"PLACED", "RUNNING", "CANCELLING", "FAILED"}]
  /\ outbox \subseteq Run
  /\ result \in [Run -> {None} \cup Ended]
  /\ cmd \in Seq(CommandRow)
  /\ server \in [conn : Nat, lease : BOOLEAN, ready : BOOLEAN]
  /\ opened \in Nat
  /\ link \in [conn : Nat, down : Seq(Nat), up : Seq(Message)]
  /\ disk \in [journal : SUBSET Nat, inbox : [Run -> Nat], receipt : [Run -> {None} \cup Ended]]
  /\ agent \in [conn : Nat, reply : {None} \cup Message]
  /\ job \in [Run -> {None} \cup Job]

\* The task ledger is backed by the machine's disk: a run that is RUNNING is in
\* its inbox, and an outcome other than a refusal is the one in its receipt
\* (connect: "the assignment must be durable before it is acknowledged",
\* finishDeviceTask: "the receipt is persisted before anything is reported").
LedgerIsBackedByTheMachine ==
  \A r \in Run :
    /\ run[r].state = "RUNNING" => disk.inbox[r] # 0
    /\ result[r] # None => \/ disk.receipt[r] = result[r]
                           \/ result[r] = "FAILED" /\ \E i \in DOMAIN cmd :
                                cmd[i].action = "execute_task" /\ cmd[i].run = r /\ cmd[i].state = "failed"

\* A placement whose command was interrupted by a lost connection is handed
\* over again once the machine is back (dispatchDeviceTask: "expiry or a
\* reconnect never loses an accepted Scheduler placement").
ReopenedIsHandedOver ==
  \A r \in Run : (r \in outbox /\ server.ready /\ server.lease) ~>
    (r \notin outbox \/ ~(server.ready /\ server.lease) \/ sched[r] # "PLACED")
===============================================================================
