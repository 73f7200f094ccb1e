--------------------------- MODULE DeviceTasks_proofs ---------------------------
(***************************************************************************)
(* Proofs about DeviceTasks: whatever connections, leases, commands and    *)
(* processes are lost between a machine and the gateway, a run that the    *)
(* task ledger calls RUNNING is in the machine's inbox, and an outcome in  *)
(* the ledger is the one in the machine's receipt.                         *)
(***************************************************************************)
EXTENDS DeviceTasks, FiniteSetTheorems, TLAPS

-----------------------------------------------------------------------------
(* The inductive invariant *)

\* What a message of the machine says, given the commands and the machine's
\* files: an acceptance is backed by the inbox, an outcome by the receipt.
Sound(m, cs, d) ==
  /\ m.cmd \in 1..Len(cs)
  /\ m.type = "result" =>
       /\ m.run = cs[m.cmd].run
       /\ m.state = "completed" /\ cs[m.cmd].action = "execute_task" => d.inbox[m.run] # 0
  /\ m.type = "task_result" => d.receipt[m.run] = m.state

\* Every message on its way, and the one the agent is about to send.
MessagesAreSound ==
  /\ \A k \in 1..Len(link.up) : Sound(link.up[k], cmd, disk)
  /\ agent.reply # None => Sound(agent.reply, cmd, disk) /\ agent.reply.type = "result"

\* Commands on their way, in the inbox and at work are in the store.
CommandsAreKnown ==
  /\ \A k \in 1..Len(link.down) : link.down[k] \in 1..Len(cmd)
  /\ \A r \in Run : disk.inbox[r] \in 0..Len(cmd)
  /\ \A r \in Run : job[r] # None => job[r].cmd \in 1..Len(cmd)

IInv == TypeOK /\ MessagesAreSound /\ CommandsAreKnown /\ LedgerIsBackedByTheMachine

-----------------------------------------------------------------------------
(* Sequences that list a set, and rows that change their state *)

LEMMA Listed ==
  ASSUME NEW S, IsFiniteSet(S), NEW q \in SetToSeqs(S)
  PROVE  q \in Seq(S) /\ DOMAIN q = 1..Len(q) /\ q \in [1..Len(q) -> S]
<1>1. Cardinality(S) \in Nat
  BY FS_CardinalityType
<1>2. q \in [1..Cardinality(S) -> S]
  BY DEF SetToSeqs
<1>. QED BY <1>1, <1>2

\* What no step changes of a command.
Same(c, d) == d.action = c.action /\ d.run = c.run /\ (c.state = "failed" => d.state = "failed")
Grows(cs) ==
  /\ cs \in Seq(CommandRow) /\ Len(cmd) <= Len(cs)
  /\ \A i \in 1..Len(cmd) : Same(cmd[i], cs[i])

LEMMA RowWith ==
  ASSUME NEW c \in CommandRow
  PROVE  /\ Same(c, c)
         /\ \A state \in {"queued", "delivered", "interrupted", "completed", "failed"} :
              /\ [c EXCEPT !.state = state] \in CommandRow
              /\ c.state \in {state, "queued", "delivered"} => Same(c, [c EXCEPT !.state = state])
         /\ [c EXCEPT !.live = FALSE] \in CommandRow /\ Same(c, [c EXCEPT !.live = FALSE])
         /\ \A n \in Nat : [c EXCEPT !.conn = n] \in CommandRow
BY DEF CommandRow, Same

LEMMA Rewritten ==
  ASSUME TypeOK, NEW cs, DOMAIN cs = 1..Len(cmd), cs = [i \in 1..Len(cmd) |-> cs[i]],
         \A i \in 1..Len(cmd) : cs[i] \in CommandRow /\ Same(cmd[i], cs[i])
  PROVE  Grows(cs) /\ Len(cs) = Len(cmd)
<1>1. Len(cmd) \in Nat
  BY DEF TypeOK
<1>2. cs \in [1..Len(cmd) -> CommandRow]
  OBVIOUS
<1>3. cs \in Seq(CommandRow) /\ Len(cs) = Len(cmd)
  BY <1>1, <1>2
<1>. QED BY <1>1, <1>3 DEF Grows

LEMMA Appended ==
  ASSUME TypeOK, NEW cs, Grows(cs), NEW c \in CommandRow
  PROVE  Grows(Append(cs, c))
<1>1. Len(cmd) \in Nat /\ Len(cs) \in Nat /\ cs \in Seq(CommandRow)
  BY DEF TypeOK, Grows
<1>2. /\ Append(cs, c) \in Seq(CommandRow) /\ Len(Append(cs, c)) = Len(cs) + 1
      /\ \A i \in 1..Len(cs) : Append(cs, c)[i] = cs[i]
  BY <1>1
<1>. QED BY <1>1, <1>2 DEF Grows

LEMMA NoRowChanges ==
  ASSUME TypeOK
  PROVE  Grows(cmd)
<1>1. cmd \in Seq(CommandRow) /\ Len(cmd) \in Nat /\ \A i \in 1..Len(cmd) : cmd[i] \in CommandRow
  BY DEF TypeOK
<1>. QED BY <1>1 DEF Grows, Same

LEMMA Interrupted ==
  ASSUME TypeOK, NEW hit
  PROVE  Grows(Interrupt(cmd, hit))
<1>. DEFINE cs == Interrupt(cmd, hit)
<1>1. cmd \in Seq(CommandRow) /\ DOMAIN cmd = 1..Len(cmd)
  BY DEF TypeOK
<1>2. cs = [i \in 1..Len(cmd) |-> IF Pending(cmd[i]) /\ i \in hit
                                THEN [cmd[i] EXCEPT !.state = "interrupted"] ELSE cmd[i]]
  BY <1>1 DEF Interrupt
<1>3. ASSUME NEW i \in 1..Len(cmd) PROVE cs[i] \in CommandRow /\ Same(cmd[i], cs[i])
  <2>1. cmd[i] \in CommandRow
    BY <1>1
  <2>2. CASE Pending(cmd[i]) /\ i \in hit
    BY <1>2, <2>1, <2>2, RowWith DEF Pending
  <2>3. CASE ~(Pending(cmd[i]) /\ i \in hit)
    BY <1>2, <2>1, <2>3, RowWith
  <2>. QED BY <2>2, <2>3
<1>4. DOMAIN cs = 1..Len(cmd) /\ cs = [i \in 1..Len(cmd) |-> cs[i]]
  BY <1>2
<1>. HIDE DEF cs
<1>. QED BY <1>3, <1>4, Rewritten DEF cs

\* A new command.
LEMMA NewCommand ==
  ASSUME TypeOK
  PROVE  /\ Command("manage", None) \in CommandRow
         /\ \A r \in Run : /\ Command("execute_task", r) \in CommandRow
                           /\ \A n \in Nat : [Command("cancel_task", r) EXCEPT !.conn = n] \in CommandRow
BY DEF Command, CommandRow, TypeOK

-----------------------------------------------------------------------------
(* What the state says of messages, commands and slots *)

\* The message the gateway reads next.
LEMMA MessageShape ==
  ASSUME IInv, NEW m \in Message, Sound(m, cmd, disk)
  PROVE  /\ m.cmd \in 1..Len(cmd) /\ m.cmd \in DOMAIN cmd /\ cmd[m.cmd] \in CommandRow
         /\ m.type = "result" => m.state \in {"completed", "failed"}
         /\ m.type = "result" /\ cmd[m.cmd].action = "execute_task" => m.run \in Run
         /\ m.type = "task_result" => m.run \in Run /\ m.state \in Ended
         /\ m.type \in {"result", "task_result"}
<1>1. cmd \in Seq(CommandRow) /\ m.cmd \in 1..Len(cmd)
  BY DEF IInv, TypeOK, Sound
<1>2. cmd[m.cmd] \in CommandRow /\ m.cmd \in DOMAIN cmd
  BY <1>1
<1>. QED BY <1>1, <1>2 DEF Message, CommandRow, Sound

LEMMA UpShape ==
  ASSUME IInv, link.up # <<>>
  PROVE  /\ Head(link.up) \in Message /\ Sound(Head(link.up), cmd, disk)
         /\ Tail(link.up) \in Seq(Message)
         /\ \A k \in 1..Len(Tail(link.up)) : Sound(Tail(link.up)[k], cmd, disk)
<1>1. link.up \in Seq(Message) /\ \A k \in 1..Len(link.up) : Sound(link.up[k], cmd, disk)
  BY DEF IInv, TypeOK, MessagesAreSound
<1>2. /\ Head(link.up) = link.up[1] /\ 1 \in 1..Len(link.up) /\ Tail(link.up) \in Seq(Message)
      /\ \A k \in 1..Len(Tail(link.up)) : k + 1 \in 1..Len(link.up) /\ Tail(link.up)[k] = link.up[k + 1]
  BY <1>1
<1>. QED BY <1>1, <1>2

LEMMA DownShape ==
  ASSUME IInv, link.down # <<>>
  PROVE  /\ Head(link.down) \in 1..Len(cmd) /\ Head(link.down) \in Nat /\ Head(link.down) # 0
         /\ cmd[Head(link.down)] \in CommandRow
         /\ Tail(link.down) \in Seq(Nat)
         /\ \A k \in 1..Len(Tail(link.down)) : Tail(link.down)[k] \in 1..Len(cmd)
<1>1. /\ link.down \in Seq(Nat) /\ \A k \in 1..Len(link.down) : link.down[k] \in 1..Len(cmd)
      /\ cmd \in Seq(CommandRow)
  BY DEF IInv, TypeOK, CommandsAreKnown
<1>2. /\ Head(link.down) = link.down[1] /\ 1 \in 1..Len(link.down) /\ Tail(link.down) \in Seq(Nat)
      /\ \A k \in 1..Len(Tail(link.down)) : k + 1 \in 1..Len(link.down) /\ Tail(link.down)[k] = link.down[k + 1]
  BY <1>1
<1>3. Head(link.down) \in 1..Len(cmd)
  BY <1>1, <1>2
<1>. QED BY <1>1, <1>2, <1>3

-----------------------------------------------------------------------------
(* Commands are added and settled, never rewritten *)

LEMMA CmdStays ==
  ASSUME IInv, [Next]_vars
  PROVE  Grows(cmd')
<1>. DEFINE Goal == Grows(cmd')
<1>0. TypeOK /\ cmd \in Seq(CommandRow) /\ DOMAIN cmd = 1..Len(cmd) /\ Len(cmd) \in Nat
      /\ \A i \in 1..Len(cmd) : cmd[i] \in CommandRow
  BY DEF IInv, TypeOK
<1>1. ASSUME cmd' = cmd PROVE Goal
  BY <1>0, <1>1, NoRowChanges
<1>2. ASSUME NEW conn, InterruptDeviceCommands(conn) PROVE Goal
  BY <1>0, <1>2, Interrupted DEF InterruptDeviceCommands
<1>3. ASSUME ConnectDevice \/ DisconnectDevice PROVE Goal
  BY <1>2, <1>3 DEF ConnectDevice, DisconnectDevice
<1>4. ASSUME DispatchDeviceTask PROVE Goal
  <2>. DEFINE expired == {i \in DOMAIN cmd : cmd[i].action = "execute_task" /\ ~cmd[i].live}
              cs == Interrupt(cmd, expired)
  <2>1. cmd' = cs \/ \E r \in Run : cmd' = Append(cs, Command("execute_task", r))
    BY <1>4 DEF DispatchDeviceTask
  <2>2. Grows(cs)
    BY <1>0, Interrupted
  <2>. HIDE DEF cs
  <2>. QED BY <1>0, <2>1, <2>2, Appended, NewCommand
<1>5. ASSUME NEW r \in Run, DispatchDeviceCancellation(r) PROVE Goal
  <2>. DEFINE i == CHOOSE i \in DOMAIN cmd : cmd[i].action = "execute_task" /\ cmd[i].run = r
                                              /\ Pending(cmd[i]) /\ cmd[i].live
  <2>1. cmd' = Append(cmd, [Command("cancel_task", r) EXCEPT !.conn = cmd[i].conn])
    BY <1>5 DEF DispatchDeviceCancellation
  <2>2. i \in DOMAIN cmd
    BY <1>5 DEF DispatchDeviceCancellation, LiveFor
  <2>. HIDE DEF i
  <2>3. cmd[i].conn \in Nat
    BY <1>0, <2>2 DEF CommandRow
  <2>. QED BY <1>0, <2>1, <2>3, Appended, NewCommand, NoRowChanges
<1>6. ASSUME QueueDeviceCommand PROVE Goal
  BY <1>0, <1>6, Appended, NewCommand, NoRowChanges DEF QueueDeviceCommand
<1>7. ASSUME NEW i \in DOMAIN cmd, CommandEnds(i) PROVE Goal
  <2>1. cmd' = [cmd EXCEPT ![i] = [cmd[i] EXCEPT !.live = FALSE]]
    BY <1>0, <1>7 DEF CommandEnds
  <2>2. \A k \in 1..Len(cmd) : cmd'[k] \in CommandRow /\ Same(cmd[k], cmd'[k])
    BY <1>0, <2>1, RowWith
  <2>3. DOMAIN cmd' = 1..Len(cmd) /\ cmd' = [k \in 1..Len(cmd) |-> cmd'[k]]
    BY <1>0, <2>1
  <2>. QED BY <1>0, <2>2, <2>3, Rewritten
<1>8. ASSUME ClaimDeviceCommands PROVE Goal
  <2>. DEFINE mine == {i \in DOMAIN cmd : cmd[i].state = "queued" /\ cmd[i].live /\ cmd[i].conn = link.conn}
  <2>1. cmd' = [i \in DOMAIN cmd |-> IF i \in mine THEN [cmd[i] EXCEPT !.state = "delivered"] ELSE cmd[i]]
    BY <1>8 DEF ClaimDeviceCommands
  <2>2. \A k \in 1..Len(cmd) : cmd'[k] \in CommandRow /\ Same(cmd[k], cmd'[k])
    BY <1>0, <2>1, RowWith
  <2>3. DOMAIN cmd' = 1..Len(cmd) /\ cmd' = [k \in 1..Len(cmd) |-> cmd'[k]]
    BY <1>0, <2>1
  <2>. QED BY <1>0, <2>2, <2>3, Rewritten
<1>9. ASSUME NEW m \in Message, Sound(m, cmd, disk), CompleteDeviceCommand(m), m.type = "result" PROVE Goal
  <2>1. m.cmd \in 1..Len(cmd) /\ m.state \in {"completed", "failed"}
    BY <1>9, MessageShape
  <2>2. /\ cmd' = [cmd EXCEPT ![m.cmd] = [cmd[m.cmd] EXCEPT !.state = m.state]]
        /\ cmd[m.cmd].state \in {m.state, "delivered"}
    BY <1>0, <1>9, <2>1 DEF CompleteDeviceCommand, TakesAnswer
  <2>3. \A k \in 1..Len(cmd) : cmd'[k] \in CommandRow /\ Same(cmd[k], cmd'[k])
    BY <1>0, <2>1, <2>2, RowWith
  <2>4. DOMAIN cmd' = 1..Len(cmd) /\ cmd' = [k \in 1..Len(cmd) |-> cmd'[k]]
    BY <1>0, <2>2
  <2>. QED BY <1>0, <2>3, <2>4, Rewritten
<1>. HIDE DEF Goal
<1>10. ASSUME Receive PROVE Goal
  BY <1>1, <1>9, <1>10, UpShape DEF Receive, RecordDeviceTaskResult
<1>11. ASSUME NEW r \in Run, NEW state, SchedulerCancels(r) \/ TaskCancels(r) \/ Finish(r, state) PROVE Goal
  BY <1>1, <1>11 DEF SchedulerCancels, TaskCancels, Finish
<1>12. ASSUME DeviceHeartbeat \/ TakeCommand \/ Answer \/ LeaseEnds \/ Break \/ Die \/ UNCHANGED vars PROVE Goal
  BY <1>1, <1>12 DEF DeviceHeartbeat, TakeCommand, Answer, LeaseEnds, Break, Die, vars
<1>13. Goal
  BY <1>3, <1>4, <1>5, <1>6, <1>7, <1>8, <1>10, <1>11, <1>12 DEF Next, Requester, Gateway, Machine, Clock
<1>. QED BY <1>13 DEF Goal

-----------------------------------------------------------------------------
(* The machine's files only gain                                          *)

Files == [journal : SUBSET Nat, inbox : [Run -> Nat], receipt : [Run -> {None} \cup Ended]]
Gains(d) ==
  /\ d \in Files
  /\ \A r \in Run : /\ disk.inbox[r] # 0 => d.inbox[r] # 0
                    /\ d.inbox[r] \in {disk.inbox[r]} \cup 1..Len(cmd)
                    /\ disk.receipt[r] # None => d.receipt[r] = disk.receipt[r]

LEMMA DiskStays ==
  ASSUME DeviceConstants, IInv, [Next]_vars
  PROVE  Gains(disk')
<1>. DEFINE Goal == Gains(disk')
<1>0. TypeOK /\ disk \in Files
  BY DEF IInv, TypeOK, Files
<1>1. ASSUME disk' = disk PROVE Goal
  BY <1>0, <1>1 DEF Gains, Files
<1>2. ASSUME ConnectDevice PROVE Goal
  <2>1. disk' = [disk EXCEPT !.receipt = [r \in Run |-> IF r \in Unfinished THEN "FAILED" ELSE disk.receipt[r]]]
    BY <1>0, <1>2 DEF ConnectDevice, RecoverTaskInbox, Files
  <2>2. \A r \in Unfinished : disk.receipt[r] = None
    BY DEF Unfinished
  <2>. QED BY <1>0, <2>1, <2>2 DEF Gains, Files, Ended
<1>3. ASSUME NEW i \in Nat, disk' = [disk EXCEPT !.journal = @ \cup {i}] PROVE Goal
  BY <1>0, <1>3 DEF Gains, Files
<1>4. ASSUME TakeCommand PROVE Goal
  <2>. DEFINE i == Head(link.down)
              r == cmd[i].run
  <2>1. i \in Nat /\ i # 0 /\ i \in 1..Len(cmd) /\ cmd[i] \in CommandRow
    BY <1>4, DownShape DEF TakeCommand
  <2>2. CASE disk' = [disk EXCEPT !.journal = @ \cup {i}]
    BY <1>3, <2>1, <2>2
  <2>3. CASE disk' = [disk EXCEPT !.journal = @ \cup {i}, !.inbox[r] = i] /\ r \in Run
    BY <1>0, <2>1, <2>3 DEF Gains, Files
  <2>4. cmd[i].action = "execute_task" => r \in Run
    BY <2>1 DEF CommandRow
  <2>. HIDE DEF i, r
  <2>. QED BY <1>4, <2>2, <2>3, <2>4 DEF TakeCommand, Accept, i, r
<1>5. ASSUME NEW r \in Run, NEW state \in Ended, Finish(r, state) PROVE Goal
  <2>1. CASE disk.receipt[r] = None
    <3>1. disk' = [disk EXCEPT !.receipt[r] = state]
      BY <1>5, <2>1 DEF Finish
    <3>. QED BY <1>0, <2>1, <3>1 DEF Gains, Files
  <2>2. CASE disk.receipt[r] # None
    BY <1>1, <1>5, <2>2 DEF Finish
  <2>. QED BY <2>1, <2>2
<1>. HIDE DEF Goal
<1>6. ASSUME NEW r \in Run, SchedulerCancels(r) \/ TaskCancels(r) \/ DispatchDeviceCancellation(r) PROVE Goal
  BY <1>1, <1>6 DEF SchedulerCancels, TaskCancels, DispatchDeviceCancellation
<1>7. ASSUME \/ DispatchDeviceTask \/ ClaimDeviceCommands \/ Receive \/ DisconnectDevice \/ QueueDeviceCommand
             \/ DeviceHeartbeat \/ Answer \/ LeaseEnds \/ Break \/ Die \/ UNCHANGED vars
             \/ \E i \in DOMAIN cmd : CommandEnds(i)
      PROVE  Goal
  BY <1>1, <1>7 DEF DispatchDeviceTask, ClaimDeviceCommands, Receive, DisconnectDevice, QueueDeviceCommand,
     DeviceHeartbeat, Answer, LeaseEnds, Break, Die, vars, CommandEnds
<1>8. Goal
  BY <1>2, <1>4, <1>5, <1>6, <1>7 DEF Next, Requester, Gateway, Machine, Clock, Ended
<1>. QED BY <1>8 DEF Goal

\* What a message says stays true.
LEMMA SoundStays ==
  ASSUME IInv, NEW cs, Grows(cs), NEW d, Gains(d), NEW m \in Message, Sound(m, cmd, disk), DeviceConstants
  PROVE  Sound(m, cs, d)
<1>1. /\ m.cmd \in 1..Len(cmd) /\ Len(cmd) \in Nat /\ Len(cs) \in Nat /\ m.cmd \in 1..Len(cs)
      /\ Same(cmd[m.cmd], cs[m.cmd])
  BY DEF IInv, TypeOK, Grows, Sound
<1>2. ASSUME m.type = "result"
      PROVE  /\ m.run = cs[m.cmd].run
             /\ m.state = "completed" /\ cs[m.cmd].action = "execute_task" => d.inbox[m.run] # 0
  <2>1. m.run = cmd[m.cmd].run /\ cmd[m.cmd].action = cs[m.cmd].action
    BY <1>1, <1>2 DEF Sound, Same
  <2>2. cmd[m.cmd].action = "execute_task" => m.run \in Run
    BY <1>2, MessageShape
  <2>. QED BY <1>1, <1>2, <2>1, <2>2 DEF Sound, Same, Gains
<1>3. ASSUME m.type = "task_result" PROVE d.receipt[m.run] = m.state
  BY <1>3, MessageShape DEF Sound, Gains, DeviceConstants
<1>. QED BY <1>1, <1>2, <1>3 DEF Sound

-----------------------------------------------------------------------------
(* What is on its way                                                      *)

Links == [conn : Nat, down : Seq(Nat), up : Seq(Message)]
Carries(l) ==
  /\ l \in Links
  /\ \A k \in 1..Len(l.up) : Sound(l.up[k], cmd', disk')
  /\ \A k \in 1..Len(l.down) : l.down[k] \in 1..Len(cmd')

\* The channel as it is, and without what is on its way, under the new
\* commands and files.
LEMMA LinkStays ==
  ASSUME DeviceConstants, IInv, [Next]_vars
  PROVE  Carries(link) /\ Carries(NoLink) /\ Grows(cmd') /\ Gains(disk')
<1>1. Grows(cmd') /\ Gains(disk') /\ link \in Links /\ Len(cmd) \in Nat /\ Len(cmd') \in Nat
  BY CmdStays, DiskStays DEF IInv, TypeOK, Links, Grows
<1>2. \A k \in 1..Len(link.up) : link.up[k] \in Message /\ Sound(link.up[k], cmd, disk)
  BY <1>1 DEF IInv, MessagesAreSound, Links
<1>3. \A k \in 1..Len(link.up) : Sound(link.up[k], cmd', disk')
  BY <1>1, <1>2, SoundStays
<1>4. \A k \in 1..Len(link.down) : link.down[k] \in 1..Len(cmd')
  BY <1>1 DEF IInv, CommandsAreKnown, Grows
<1>. QED BY <1>1, <1>3, <1>4 DEF Carries, NoLink, Links

\* One message more from the machine.
LEMMA Sent ==
  ASSUME DeviceConstants, IInv, [Next]_vars, NEW m \in Message, Sound(m, cmd', disk'),
         link' = [link EXCEPT !.up = Append(@, m)]
  PROVE  Carries(link')
<1>1. link \in Links /\ Carries(link)
  BY LinkStays DEF Carries
<1>2. /\ Append(link.up, m) \in Seq(Message) /\ Len(Append(link.up, m)) = Len(link.up) + 1
      /\ Append(link.up, m)[Len(link.up) + 1] = m
      /\ \A k \in 1..Len(link.up) : Append(link.up, m)[k] = link.up[k]
  BY <1>1 DEF Links
<1>3. link' \in Links /\ link'.up = Append(link.up, m) /\ link'.down = link.down
  BY <1>1, <1>2 DEF Links
<1>4. \A k \in 1..Len(link'.up) : Sound(link'.up[k], cmd', disk')
  <2>1. Len(link.up) \in Nat
    BY <1>1 DEF Links
  <2>. QED BY <1>1, <1>2, <1>3, <2>1 DEF Carries
<1>. QED BY <1>1, <1>3, <1>4 DEF Carries

LEMMA LinkStep ==
  ASSUME DeviceConstants, IInv, [Next]_vars
  PROVE  Carries(link')
<1>. DEFINE Goal == Carries(link')
<1>0. /\ TypeOK /\ link \in Links /\ Carries(link) /\ Carries(NoLink) /\ Grows(cmd') /\ Gains(disk')
      /\ Len(cmd) \in Nat /\ Len(cmd') \in Nat /\ Len(cmd) <= Len(cmd')
  BY LinkStays DEF IInv, TypeOK, Links, Grows
<1>1. ASSUME link' \in {link, NoLink} PROVE Goal
  BY <1>0, <1>1
<1>2. ASSUME ConnectDevice PROVE Goal
  <2>1. PICK q \in SetToSeqs(Unfinished) :
          link' = [conn |-> opened + 1, down |-> <<>>,
                   up |-> [i \in DOMAIN q |-> [type |-> "task_result", cmd |-> disk.inbox[q[i]],
                                              run |-> q[i], state |-> "FAILED"]]]
    BY <1>2 DEF ConnectDevice, RecoverTaskInbox
  <2>. DEFINE u == [i \in DOMAIN q |-> [type |-> "task_result", cmd |-> disk.inbox[q[i]],
                                        run |-> q[i], state |-> "FAILED"]]
  <2>2. q \in Seq(Unfinished) /\ DOMAIN q = 1..Len(q)
    <3>1. IsFiniteSet(Unfinished)
      BY FS_Subset DEF Unfinished, DeviceConstants
    <3>. QED BY <2>1, <3>1, Listed
  <2>3. ASSUME NEW i \in 1..Len(q) PROVE u[i] \in Message /\ Sound(u[i], cmd', disk')
    <3>1. q[i] \in Run /\ disk.inbox[q[i]] # 0 /\ q[i] \in Unfinished
      BY <2>2 DEF Unfinished
    <3>2. disk'.receipt[q[i]] = "FAILED"
      BY <1>0, <1>2, <3>1 DEF ConnectDevice, RecoverTaskInbox, TypeOK
    <3>3. disk.inbox[q[i]] \in 1..Len(cmd) /\ disk.inbox[q[i]] \in Nat
      BY <1>0, <3>1 DEF IInv, CommandsAreKnown, TypeOK
    <3>4. u[i] = [type |-> "task_result", cmd |-> disk.inbox[q[i]], run |-> q[i], state |-> "FAILED"]
      BY <2>2
    <3>5. u[i] \in Message
      BY <3>1, <3>3, <3>4 DEF Message, Ended
    <3>6. disk.inbox[q[i]] \in 1..Len(cmd')
      BY <1>0, <3>3
    <3>. QED BY <3>2, <3>4, <3>5, <3>6 DEF Sound
  <2>4. u \in [1..Len(q) -> Message]
    BY <2>2, <2>3
  <2>5. u \in Seq(Message) /\ Len(u) = Len(q)
    <3>1. Len(q) \in Nat
      BY <2>2
    <3>. QED BY <2>4, <3>1
  <2>6. link' = [conn |-> opened + 1, down |-> <<>>, up |-> u]
    BY <2>1
  <2>7. link' \in Links
    <3>1. opened + 1 \in Nat
      BY <1>0 DEF TypeOK
    <3>. HIDE DEF u
    <3>. QED BY <2>5, <2>6, <3>1 DEF Links
  <2>8. link'.up = u /\ link'.down = <<>>
    BY <2>6
  <2>. HIDE DEF u
  <2>. QED BY <2>3, <2>5, <2>7, <2>8 DEF Carries
<1>3. ASSUME Cut PROVE Goal
  BY <1>1, <1>3 DEF Cut
<1>4. ASSUME ClaimDeviceCommands PROVE Goal
  <2>. DEFINE mine == {i \in DOMAIN cmd : cmd[i].state = "queued" /\ cmd[i].live /\ cmd[i].conn = link.conn}
  <2>1. PICK q \in SetToSeqs(mine) : link' = [link EXCEPT !.down = @ \o q]
    BY <1>4 DEF ClaimDeviceCommands
  <2>2. DOMAIN cmd = 1..Len(cmd) /\ mine \subseteq 1..Len(cmd)
    BY <1>0 DEF TypeOK
  <2>. HIDE DEF mine
  <2>3. IsFiniteSet(mine)
    <3>1. IsFiniteSet(1..Len(cmd))
      BY <1>0, FS_Interval
    <3>. QED BY <2>2, <3>1, FS_Subset
  <2>4. q \in Seq(mine) /\ q \in [1..Len(q) -> mine] /\ \A k \in 1..Len(q) : q[k] \in mine
    BY <2>1, <2>3, Listed
  <2>5. q \in Seq(Nat) /\ \A k \in 1..Len(q) : q[k] \in 1..Len(cmd')
    <3>1. mine \subseteq Nat /\ \A i \in mine : i \in 1..Len(cmd')
      BY <1>0, <2>2
    <3>2. Len(q) \in Nat
      BY <2>4
    <3>3. q \in [1..Len(q) -> Nat]
      BY <2>4, <3>1, Zenon
    <3>4. q \in Seq(Nat)
      BY <3>2, <3>3
    <3>. QED BY <2>4, <3>1, <3>4
  <2>. DEFINE d == link.down \o q
  <2>6. d \in Seq(Nat) /\ \A k \in 1..Len(d) : d[k] \in 1..Len(cmd')
    <3>1. link.down \in Seq(Nat) /\ \A k \in 1..Len(link.down) : link.down[k] \in 1..Len(cmd')
      BY <1>0 DEF Carries, Links
    <3>. QED BY <2>5, <3>1
  <2>7. link' = [link EXCEPT !.down = d]
    BY <2>1
  <2>. HIDE DEF d
  <2>8. link' \in Links /\ link'.up = link.up /\ link'.down = d
    BY <1>0, <2>6, <2>7 DEF Links
  <2>. QED BY <1>0, <2>6, <2>8 DEF Carries
<1>5. ASSUME TakeCommand PROVE Goal
  <2>. DEFINE d == Tail(link.down)
  <2>1. link' = [link EXCEPT !.down = d] /\ link.down # <<>>
    BY <1>5 DEF TakeCommand
  <2>2. d \in Seq(Nat) /\ \A k \in 1..Len(d) : d[k] \in 1..Len(cmd')
    <3>1. d \in Seq(Nat) /\ \A k \in 1..Len(d) : d[k] \in 1..Len(cmd)
      BY <2>1, DownShape
    <3>. QED BY <1>0, <3>1
  <2>. HIDE DEF d
  <2>3. link' \in Links /\ link'.up = link.up /\ link'.down = d
    BY <1>0, <2>1, <2>2 DEF Links
  <2>. QED BY <1>0, <2>2, <2>3 DEF Carries
<1>6. ASSUME Answer PROVE Goal
  <2>1. agent.reply \in Message /\ Sound(agent.reply, cmd, disk)
    BY <1>0, <1>6 DEF Answer, TypeOK, IInv, MessagesAreSound
  <2>2. Sound(agent.reply, cmd', disk')
    BY <1>0, <2>1, SoundStays
  <2>. QED BY <1>6, <2>1, <2>2, Sent DEF Answer
<1>7. ASSUME NEW r \in Run, NEW state \in Ended, Finish(r, state) PROVE Goal
  <2>. DEFINE m == [type |-> "task_result", cmd |-> job[r].cmd, run |-> r, state |-> state]
  <2>1. CASE link' = link
    BY <1>1, <2>1
  <2>2. CASE link' # link
    <3>1. disk.receipt[r] = None /\ disk' = [disk EXCEPT !.receipt[r] = state] /\ job[r] # None
          /\ link' = [link EXCEPT !.up = Append(@, m)]
      BY <1>7, <2>2 DEF Finish, Report
    <3>2. disk'.receipt[r] = state
      BY <1>0, <3>1 DEF TypeOK
    <3>3. job[r].cmd \in Nat /\ job[r].cmd \in 1..Len(cmd')
      BY <1>0, <3>1 DEF IInv, CommandsAreKnown
    <3>4. m \in Message
      BY <3>3 DEF Message
    <3>5. Sound(m, cmd', disk')
      BY <3>2, <3>3 DEF Sound
    <3>. HIDE DEF m
    <3>. QED BY <3>1, <3>4, <3>5, Sent
  <2>. QED BY <2>1, <2>2
<1>8. ASSUME Receive PROVE Goal
  <2>. DEFINE u == Tail(link.up)
  <2>1. CASE link' = [link EXCEPT !.up = u] /\ link.up # <<>>
    <3>1. u \in Seq(Message) /\ \A k \in 1..Len(u) : Sound(u[k], cmd, disk)
      BY <2>1, UpShape
    <3>2. \A k \in 1..Len(u) : Sound(u[k], cmd', disk')
      <4>1. \A k \in 1..Len(u) : u[k] \in Message
        BY <3>1
      <4>. QED BY <1>0, <3>1, <4>1, SoundStays
    <3>. HIDE DEF u
    <3>3. link' \in Links /\ link'.up = u /\ link'.down = link.down
      BY <1>0, <2>1, <3>1 DEF Links
    <3>. QED BY <1>0, <3>2, <3>3 DEF Carries
  <2>. QED BY <1>3, <1>8, <2>1 DEF Receive
<1>. HIDE DEF Goal
<1>9. ASSUME NEW r \in Run, SchedulerCancels(r) \/ TaskCancels(r) \/ DispatchDeviceCancellation(r) PROVE Goal
  BY <1>1, <1>9 DEF SchedulerCancels, TaskCancels, DispatchDeviceCancellation
<1>10. ASSUME \/ DispatchDeviceTask \/ DisconnectDevice \/ QueueDeviceCommand \/ DeviceHeartbeat
              \/ LeaseEnds \/ Die \/ UNCHANGED vars \/ \E i \in DOMAIN cmd : CommandEnds(i)
       PROVE  Goal
  BY <1>1, <1>10 DEF DispatchDeviceTask, DisconnectDevice, QueueDeviceCommand, DeviceHeartbeat, LeaseEnds, Die,
     vars, CommandEnds
<1>11. Goal
  BY <1>2, <1>3, <1>4, <1>5, <1>6, <1>7, <1>8, <1>9, <1>10
     DEF Next, Requester, Gateway, Machine, Clock, Break, Ended
<1>. QED BY <1>11 DEF Goal

-----------------------------------------------------------------------------
(* The agent, the jobs, and the tables                                     *)

LEMMA AgentStep ==
  ASSUME DeviceConstants, IInv, [Next]_vars
  PROVE  /\ agent' \in [conn : Nat, reply : {None} \cup Message]
         /\ agent'.reply # None => Sound(agent'.reply, cmd', disk') /\ agent'.reply.type = "result"
<1>. DEFINE Says(a) == /\ a \in [conn : Nat, reply : {None} \cup Message]
                       /\ a.reply # None => Sound(a.reply, cmd', disk') /\ a.reply.type = "result"
            Goal == Says(agent')
<1>0. TypeOK /\ Grows(cmd') /\ Gains(disk') /\ cmd \in Seq(CommandRow) /\ Len(cmd) \in Nat
  BY LinkStays DEF IInv, TypeOK
<1>1. Says(agent) /\ Says(Asleep)
  <2>1. agent.reply # None => /\ agent.reply \in Message /\ Sound(agent.reply, cmd, disk)
                              /\ agent.reply.type = "result"
    BY <1>0 DEF TypeOK, IInv, MessagesAreSound
  <2>. QED BY <1>0, <2>1, SoundStays DEF TypeOK, Asleep
<1>2. ASSUME agent' \in {agent, Asleep} PROVE Goal
  BY <1>1, <1>2
<1>3. ASSUME NEW n \in Nat, agent' = [conn |-> n, reply |-> None] PROVE Goal
  BY <1>3
<1>4. ASSUME agent' = [agent EXCEPT !.reply = None] PROVE Goal
  BY <1>0, <1>4 DEF TypeOK
<1>5. ASSUME NEW m \in Message, agent' = [agent EXCEPT !.reply = m], Sound(m, cmd', disk'), m.type = "result" PROVE Goal
  BY <1>0, <1>5 DEF TypeOK
<1>. HIDE DEF Goal
<1>6. ASSUME TakeCommand PROVE Goal
  <2>. DEFINE i == Head(link.down)
              r == cmd[i].run
              m(state) == [type |-> "result", cmd |-> i, run |-> r, state |-> state]
  <2>1. i \in Nat /\ i # 0 /\ i \in 1..Len(cmd) /\ cmd[i] \in CommandRow /\ cmd' = cmd
    BY <1>6, DownShape DEF TakeCommand
  <2>2. r \in Run \cup {None} /\ (cmd[i].action = "execute_task" => r \in Run)
    BY <2>1 DEF CommandRow
  <2>. HIDE DEF i, r
  <2>3. m("completed") \in Message /\ m("failed") \in Message
    BY <2>1, <2>2 DEF Message
  <2>4. Sound(m("failed"), cmd', disk')
    BY <2>1 DEF Sound, r
  <2>5. ASSUME cmd[i].action = "execute_task" => disk'.inbox[r] # 0
        PROVE  Sound(m("completed"), cmd', disk')
    BY <2>1, <2>5 DEF Sound, r
  <2>6. agent' = [agent EXCEPT !.reply = m("failed")] \/ agent' = [agent EXCEPT !.reply = m("completed")]
    BY <1>6 DEF TakeCommand, Accept, Reply, i, r
  <2>7. CASE agent' = [agent EXCEPT !.reply = m("failed")]
    <3>. DEFINE f == m("failed")
    <3>1. f \in Message /\ Sound(f, cmd', disk') /\ f.type = "result"
      BY <2>3, <2>4
    <3>2. agent' = [agent EXCEPT !.reply = f]
      BY <2>7
    <3>. HIDE DEF f
    <3>. QED BY <1>5, <3>1, <3>2
  <2>8. CASE agent' = [agent EXCEPT !.reply = m("completed")] /\ agent' # [agent EXCEPT !.reply = m("failed")]
    <3>1. cmd[i].action = "execute_task" => disk' = [disk EXCEPT !.journal = @ \cup {i}, !.inbox[r] = i]
      BY <1>6, <2>8 DEF TakeCommand, Accept, Reply, i, r
    <3>2. ASSUME cmd[i].action = "execute_task" PROVE disk'.inbox[r] # 0
      <4>1. disk' = [disk EXCEPT !.journal = disk.journal \cup {i}, !.inbox = [disk.inbox EXCEPT ![r] = i]]
        BY <3>1, <3>2
      <4>2. r \in Run /\ disk \in Files
        BY <1>0, <2>2, <3>2 DEF TypeOK, Files
      <4>3. disk'.inbox = [disk.inbox EXCEPT ![r] = i]
        BY <4>1, <4>2 DEF Files
      <4>. QED BY <2>1, <4>2, <4>3 DEF Files
    <3>. DEFINE f == m("completed")
    <3>3. f \in Message /\ Sound(f, cmd', disk') /\ f.type = "result"
      BY <2>3, <2>5, <3>2
    <3>4. agent' = [agent EXCEPT !.reply = f]
      BY <2>8
    <3>. HIDE DEF f
    <3>. QED BY <1>5, <3>3, <3>4
  <2>. QED BY <2>6, <2>7, <2>8
<1>7. ASSUME ConnectDevice PROVE Goal
  BY <1>0, <1>3, <1>7 DEF ConnectDevice, TypeOK
<1>8. ASSUME NEW r \in Run, NEW state,
             SchedulerCancels(r) \/ TaskCancels(r) \/ DispatchDeviceCancellation(r) \/ Finish(r, state)
      PROVE  Goal
  BY <1>2, <1>8 DEF SchedulerCancels, TaskCancels, DispatchDeviceCancellation, Finish
<1>9. ASSUME \/ DispatchDeviceTask \/ DisconnectDevice \/ QueueDeviceCommand \/ DeviceHeartbeat \/ ClaimDeviceCommands
             \/ LeaseEnds \/ Break \/ Die \/ Receive \/ UNCHANGED vars \/ \E i \in DOMAIN cmd : CommandEnds(i)
      PROVE  Goal
  BY <1>2, <1>9 DEF DispatchDeviceTask, DisconnectDevice, QueueDeviceCommand, DeviceHeartbeat, ClaimDeviceCommands,
     LeaseEnds, Break, Die, Receive, Cut, vars, CommandEnds
<1>10. Goal
  BY <1>4, <1>6, <1>7, <1>8, <1>9 DEF Next, Requester, Gateway, Machine, Clock, Answer
<1>. QED BY <1>10 DEF Goal

LEMMA JobStep ==
  ASSUME DeviceConstants, IInv, [Next]_vars
  PROVE  /\ job' \in [Run -> {None} \cup Job]
         /\ \A r \in Run : job'[r] # None => job'[r].cmd \in 1..Len(cmd')
<1>. DEFINE Works(j) == /\ j \in [Run -> {None} \cup Job]
                        /\ \A r \in Run : j[r] # None => j[r].cmd \in 1..Len(cmd')
            Goal == Works(job')
<1>0. /\ TypeOK /\ Grows(cmd') /\ Len(cmd) \in Nat /\ Len(cmd') \in Nat /\ Len(cmd) <= Len(cmd')
      /\ job \in [Run -> {None} \cup Job]
      /\ \A r \in Run : job[r] # None => job[r].cmd \in 1..Len(cmd')
  BY LinkStays DEF IInv, TypeOK, Grows, CommandsAreKnown
<1>1. ASSUME job' = job PROVE Goal
  BY <1>0, <1>1
<1>2. ASSUME job' = [r \in Run |-> None] PROVE Goal
  BY <1>2
<1>3. ASSUME NEW r \in Run, NEW j \in {None} \cup Job, j # None => j.cmd \in 1..Len(cmd'), job' = [job EXCEPT ![r] = j]
      PROVE  Goal
  BY <1>0, <1>3
<1>4. ASSUME NEW j \in Job PROVE [j EXCEPT !.cancelled = TRUE] \in Job /\ [j EXCEPT !.cancelled = TRUE].cmd = j.cmd
  BY <1>4 DEF Job
<1>5. ASSUME Cut PROVE Goal
  <2>1. job' = [r \in Run |-> IF job[r] = None THEN None ELSE [job[r] EXCEPT !.cancelled = TRUE]]
    BY <1>5 DEF Cut
  <2>. QED BY <1>0, <1>4, <2>1
<1>. HIDE DEF Goal
<1>6. ASSUME TakeCommand PROVE Goal
  <2>1. CASE job' # job
    <3>. DEFINE r == cmd[Head(link.down)].run
    <3>1. r \in Run
      BY <1>6, <2>1, DownShape DEF TakeCommand, CommandRow
    <3>2. job[r] # None /\ job' = [job EXCEPT ![r] = [job[r] EXCEPT !.cancelled = TRUE]]
      BY <1>6, <2>1 DEF TakeCommand, Stop
    <3>. HIDE DEF r
    <3>. DEFINE j == [job[r] EXCEPT !.cancelled = TRUE]
    <3>3. j \in Job /\ j.cmd \in 1..Len(cmd')
      BY <1>0, <1>4, <3>1, <3>2
    <3>. HIDE DEF j
    <3>. QED BY <1>3, <3>1, <3>2, <3>3 DEF j
  <2>. QED BY <1>1, <2>1
<1>7. ASSUME Answer PROVE Goal
  <2>. DEFINE m == agent.reply
              j == [cmd |-> m.cmd, conn |-> agent.conn, cancelled |-> FALSE]
  <2>1. m \in Message /\ Sound(m, cmd, disk) /\ m.type = "result"
    BY <1>0, <1>7 DEF Answer, TypeOK, IInv, MessagesAreSound
  <2>2. CASE m.state = "completed" /\ cmd[m.cmd].action = "execute_task"
    <3>1. m.run \in Run /\ m.cmd \in 1..Len(cmd)
      BY <2>1, <2>2, MessageShape
    <3>2. j \in Job /\ j.cmd \in 1..Len(cmd')
      BY <1>0, <3>1 DEF Job, TypeOK
    <3>3. job' = [job EXCEPT ![m.run] = j]
      BY <1>7, <2>2 DEF Answer
    <3>. HIDE DEF m, j
    <3>. QED BY <1>3, <3>1, <3>2, <3>3
  <2>. QED BY <1>1, <1>7, <2>2 DEF Answer
<1>8. ASSUME NEW r \in Run, NEW state, Finish(r, state) PROVE Goal
  BY <1>3, <1>8 DEF Finish
<1>9. ASSUME NEW r \in Run, SchedulerCancels(r) \/ TaskCancels(r) \/ DispatchDeviceCancellation(r) PROVE Goal
  BY <1>1, <1>9 DEF SchedulerCancels, TaskCancels, DispatchDeviceCancellation
<1>10. ASSUME \/ DispatchDeviceTask \/ DisconnectDevice \/ QueueDeviceCommand \/ DeviceHeartbeat \/ ClaimDeviceCommands
             \/ LeaseEnds \/ ConnectDevice \/ UNCHANGED vars \/ \E i \in DOMAIN cmd : CommandEnds(i)
      PROVE  Goal
  BY <1>1, <1>10 DEF DispatchDeviceTask, DisconnectDevice, QueueDeviceCommand, DeviceHeartbeat, ClaimDeviceCommands,
     LeaseEnds, ConnectDevice, vars, CommandEnds
<1>11. ASSUME Break \/ Die \/ Receive PROVE Goal
  BY <1>1, <1>2, <1>5, <1>11 DEF Break, Die, Receive
<1>12. Goal
  BY <1>6, <1>7, <1>8, <1>9, <1>10, <1>11 DEF Next, Requester, Gateway, Machine, Clock
<1>. QED BY <1>12 DEF Goal

Runs == [Run -> [state : DelegationState, session : BOOLEAN]]
Places == [Run -> {"PLACED", "RUNNING", "CANCELLING", "FAILED"}]
Results == [Run -> {None} \cup Ended]
Leases == [conn : Nat, lease : BOOLEAN, ready : BOOLEAN]

LEMMA TablesStep ==
  ASSUME DeviceConstants, IInv, [Next]_vars
  PROVE  /\ run' \in Runs /\ sched' \in Places /\ outbox' \subseteq Run /\ result' \in Results
         /\ server' \in Leases /\ opened' \in Nat
<1>. DEFINE Goal == /\ run' \in Runs /\ sched' \in Places /\ outbox' \subseteq Run /\ result' \in Results
                    /\ server' \in Leases /\ opened' \in Nat
<1>0. /\ run \in Runs /\ sched \in Places /\ outbox \subseteq Run /\ result \in Results
      /\ server \in Leases /\ opened \in Nat
  BY DEF IInv, TypeOK, Runs, Places, Results, Leases
<1>1. ASSUME UNCHANGED <<run, sched, outbox, result, server, opened>> PROVE Goal
  BY <1>0, <1>1
<1>2. \A cs : Reopened(cs) \subseteq Run
  BY <1>0 DEF Reopened
<1>3. ASSUME ConnectDevice \/ DisconnectDevice PROVE Goal
  <2>1. outbox' \subseteq Run /\ UNCHANGED <<run, sched, result>>
    BY <1>2, <1>3 DEF ConnectDevice, DisconnectDevice, InterruptDeviceCommands
  <2>2. server' \in Leases /\ opened' \in Nat
    <3>1. \A n \in Nat : [conn |-> n, lease |-> TRUE, ready |-> FALSE] \in Leases
                       /\ [conn |-> n, lease |-> FALSE, ready |-> FALSE] \in Leases
      BY DEF Leases
    <3>2. CASE ConnectDevice
      <4>1. server' = [conn |-> opened + 1, lease |-> TRUE, ready |-> FALSE] /\ opened' = opened + 1
        BY <3>2 DEF ConnectDevice
      <4>2. opened + 1 \in Nat
        BY <1>0
      <4>. QED BY <3>1, <4>1, <4>2
    <3>3. CASE DisconnectDevice
      BY <1>0, <3>1, <3>3 DEF DisconnectDevice
    <3>. QED BY <1>3, <3>2, <3>3
  <2>. QED BY <1>0, <2>1, <2>2
<1>4. ASSUME DispatchDeviceTask PROVE Goal
  <2>. DEFINE expired == {i \in DOMAIN cmd : cmd[i].action = "execute_task" /\ ~cmd[i].live}
              open == Reopened(Interrupt(cmd, expired))
  <2>1. UNCHANGED <<sched, result, server, opened>>
        /\ \/ outbox' = open /\ run' = run
           \/ \E r \in Run : outbox' = open \ {r} /\ run' = [run EXCEPT ![r].session = TRUE]
    BY <1>4 DEF DispatchDeviceTask
  <2>2. open \subseteq Run
    BY <1>2
  <2>. HIDE DEF open
  <2>3. run' \in Runs
    BY <1>0, <2>1 DEF Runs
  <2>. QED BY <1>0, <2>1, <2>2, <2>3
<1>5. ASSUME DeviceHeartbeat \/ LeaseEnds PROVE Goal
  BY <1>0, <1>5 DEF DeviceHeartbeat, LeaseEnds, Leases
<1>6. ASSUME NEW r \in Run, SchedulerCancels(r) \/ TaskCancels(r) PROVE Goal
  <2>1. run' \in Runs /\ sched' \in Places
    BY <1>0, <1>6 DEF SchedulerCancels, TaskCancels, Runs, Places, DelegationState
  <2>. QED BY <1>0, <1>6, <2>1 DEF SchedulerCancels, TaskCancels
<1>7. ASSUME Receive PROVE Goal
  <2>. DEFINE m == Head(link.up)
  <2>1. UNCHANGED <<outbox, server, opened>> /\ link.up # <<>>
    BY <1>7 DEF Receive
  <2>2. m \in Message /\ Sound(m, cmd, disk)
    BY <2>1, UpShape
  <2>3. CASE UNCHANGED <<run, sched, result>>
    BY <1>1, <2>1, <2>3
  <2>4. CASE m.type = "result" /\ CompleteDeviceCommand(m) /\ ~UNCHANGED <<run, sched, result>>
    <3>1. cmd[m.cmd].action = "execute_task" /\ (Accepted(m.run) \/ Refused(m.run))
      BY <2>4 DEF CompleteDeviceCommand
    <3>2. m.run \in Run
      BY <2>2, <2>4, <3>1, MessageShape
    <3>. HIDE DEF m
    <3>3. run' \in Runs
      BY <1>0, <3>1, <3>2 DEF Accepted, Refused, Runs, DelegationState
    <3>4. sched' \in Places
      BY <1>0, <3>1, <3>2 DEF Accepted, Refused, Places
    <3>5. result' \in Results
      BY <1>0, <3>1, <3>2 DEF Accepted, Refused, Results, Ended
    <3>. QED BY <1>0, <2>1, <3>3, <3>4, <3>5
  <2>5. CASE m.type = "task_result" /\ RecordDeviceTaskResult(m)
    <3>1. m.run \in Run /\ m.state \in Ended
      BY <2>2, <2>5, MessageShape
    <3>. HIDE DEF m
    <3>2. run' \in Runs
      BY <1>0, <2>5, <3>1 DEF RecordDeviceTaskResult, Runs, DelegationState, Ended
    <3>3. result' \in Results
      BY <1>0, <2>5, <3>1 DEF RecordDeviceTaskResult, Results
    <3>. QED BY <1>0, <2>1, <2>5, <3>2, <3>3 DEF RecordDeviceTaskResult
  <2>. QED BY <1>7, <2>3, <2>4, <2>5 DEF Receive
<1>. HIDE DEF Goal
<1>8. ASSUME NEW r \in Run, NEW state, DispatchDeviceCancellation(r) \/ Finish(r, state) PROVE Goal
  BY <1>1, <1>8 DEF DispatchDeviceCancellation, Finish
<1>9. ASSUME \/ QueueDeviceCommand \/ ClaimDeviceCommands \/ TakeCommand \/ Answer \/ Break \/ Die
             \/ UNCHANGED vars \/ \E i \in DOMAIN cmd : CommandEnds(i)
      PROVE  Goal
  BY <1>1, <1>9 DEF QueueDeviceCommand, ClaimDeviceCommands, TakeCommand, Answer, Break, Die, vars, CommandEnds
<1>10. Goal
  BY <1>3, <1>4, <1>5, <1>6, <1>7, <1>8, <1>9 DEF Next, Requester, Gateway, Machine, Clock
<1>. QED BY <1>10 DEF Goal

-----------------------------------------------------------------------------
(* The ledger                                                              *)

Failed(r, cs) ==
  \E i \in DOMAIN cs : cs[i].action = "execute_task" /\ cs[i].run = r /\ cs[i].state = "failed"

\* What a step may make of a run: it starts it with the inbox written, and ends
\* it with the receipt's outcome, or with a refusal.
RunMoves(r) ==
  /\ run'[r].state = "RUNNING" => run[r].state = "RUNNING" \/ disk'.inbox[r] # 0
  /\ result'[r] # None => \/ result'[r] = result[r]
                          \/ disk'.receipt[r] = result'[r]
                          \/ (result'[r] = "FAILED" /\ Failed(r, cmd'))

LEMMA LedgerStep ==
  ASSUME DeviceConstants, IInv, [Next]_vars
  PROVE  \A r \in Run : RunMoves(r)
<1>. DEFINE Goal == \A r \in Run : RunMoves(r)
<1>0. TypeOK /\ Grows(cmd') /\ Gains(disk')
  BY LinkStays DEF IInv
<1>1. ASSUME UNCHANGED <<run, result>> PROVE Goal
  BY <1>1 DEF RunMoves
<1>2. ASSUME DispatchDeviceTask PROVE Goal
  <2>1. result' = result /\ (run' = run \/ \E r \in Run : run' = [run EXCEPT ![r].session = TRUE])
    BY <1>2 DEF DispatchDeviceTask
  <2>2. run \in Runs
    BY <1>0 DEF TypeOK, Runs
  <2>3. \A r \in Run : run'[r].state = run[r].state
    BY <2>1, <2>2 DEF Runs
  <2>. QED BY <2>1, <2>3 DEF RunMoves
<1>3. ASSUME NEW r \in Run, TaskCancels(r) PROVE Goal
  BY <1>0, <1>3 DEF TaskCancels, RunMoves, TypeOK
<1>4. ASSUME Receive PROVE Goal
  <2>. DEFINE m == Head(link.up)
  <2>1. link.up # <<>> /\ disk' = disk
    BY <1>4 DEF Receive
  <2>2. m \in Message /\ Sound(m, cmd, disk)
    BY <2>1, UpShape
  <2>3. CASE UNCHANGED <<run, result>>
    BY <1>1, <2>3
  <2>4. CASE m.type = "result" /\ CompleteDeviceCommand(m) /\ ~UNCHANGED <<run, result>>
    <3>1. /\ cmd[m.cmd].action = "execute_task"
          /\ \/ m.state = "completed" /\ Accepted(m.run)
             \/ m.state # "completed" /\ Refused(m.run)
          /\ cmd' = [cmd EXCEPT ![m.cmd].state = m.state]
      BY <2>4 DEF CompleteDeviceCommand
    <3>2. m.run \in Run /\ m.state \in {"completed", "failed"} /\ m.cmd \in DOMAIN cmd
          /\ m.run = cmd[m.cmd].run /\ cmd[m.cmd] \in CommandRow
          /\ (m.state = "completed" => disk.inbox[m.run] # 0)
      BY <2>2, <2>4, <3>1, MessageShape DEF Sound
    <3>. HIDE DEF m
    <3>3. CASE m.state = "completed"
      BY <1>0, <2>1, <3>1, <3>2, <3>3 DEF Accepted, RunMoves, TypeOK
    <3>4. CASE m.state = "failed"
      <4>1. Refused(m.run)
        BY <3>1, <3>4
      <4>2. cmd'[m.cmd] = [cmd[m.cmd] EXCEPT !.state = "failed"] /\ DOMAIN cmd' = DOMAIN cmd
        BY <3>1, <3>2, <3>4
      <4>3. Failed(m.run, cmd')
        BY <3>1, <3>2, <4>2 DEF Failed, CommandRow
      <4>. QED BY <1>0, <2>1, <3>2, <4>1, <4>3 DEF Refused, RunMoves, TypeOK
    <3>. QED BY <3>2, <3>3, <3>4
  <2>5. CASE m.type = "task_result" /\ RecordDeviceTaskResult(m)
    <3>1. m.run \in Run /\ m.state \in Ended /\ disk.receipt[m.run] = m.state
      BY <2>2, <2>5, MessageShape DEF Sound
    <3>. HIDE DEF m
    <3>. QED BY <1>0, <2>1, <2>5, <3>1 DEF RecordDeviceTaskResult, RunMoves, TypeOK, Ended
  <2>. QED BY <1>4, <2>3, <2>4, <2>5 DEF Receive
<1>. HIDE DEF Goal
<1>5. ASSUME NEW r \in Run, NEW state,
             SchedulerCancels(r) \/ DispatchDeviceCancellation(r) \/ Finish(r, state)
      PROVE  Goal
  BY <1>1, <1>5 DEF SchedulerCancels, DispatchDeviceCancellation, Finish
<1>6. ASSUME \/ QueueDeviceCommand \/ ClaimDeviceCommands \/ TakeCommand \/ Answer \/ Break \/ Die
             \/ ConnectDevice \/ DisconnectDevice \/ DeviceHeartbeat \/ LeaseEnds
             \/ UNCHANGED vars \/ \E i \in DOMAIN cmd : CommandEnds(i)
      PROVE  Goal
  BY <1>1, <1>6 DEF QueueDeviceCommand, ClaimDeviceCommands, TakeCommand, Answer, Break, Die, ConnectDevice,
     DisconnectDevice, DeviceHeartbeat, LeaseEnds, vars, CommandEnds
<1>7. Goal
  BY <1>2, <1>3, <1>4, <1>5, <1>6 DEF Next, Requester, Gateway, Machine, Clock
<1>. QED BY <1>7 DEF Goal

LEMMA NextLedger ==
  ASSUME DeviceConstants, IInv, [Next]_vars
  PROVE  LedgerIsBackedByTheMachine'
<1>. SUFFICES ASSUME NEW r \in Run
              PROVE  /\ run'[r].state = "RUNNING" => disk'.inbox[r] # 0
                     /\ result'[r] # None => disk'.receipt[r] = result'[r] \/ (result'[r] = "FAILED" /\ Failed(r, cmd'))
  BY DEF LedgerIsBackedByTheMachine, Failed
<1>1. TypeOK /\ Grows(cmd') /\ Gains(disk') /\ RunMoves(r)
  BY LinkStays, LedgerStep DEF IInv
<1>2. /\ run[r].state = "RUNNING" => disk.inbox[r] # 0
      /\ result[r] # None => disk.receipt[r] = result[r] \/ (result[r] = "FAILED" /\ Failed(r, cmd))
  BY DEF IInv, LedgerIsBackedByTheMachine, Failed
<1>3. Failed(r, cmd) => Failed(r, cmd')
  <2>1. ASSUME NEW i \in DOMAIN cmd, cmd[i].action = "execute_task", cmd[i].run = r, cmd[i].state = "failed"
        PROVE  Failed(r, cmd')
    <3>1. i \in 1..Len(cmd) /\ i \in 1..Len(cmd') /\ i \in DOMAIN cmd'
      BY <1>1 DEF TypeOK, Grows
    <3>2. Same(cmd[i], cmd'[i])
      BY <1>1, <3>1 DEF Grows
    <3>. QED BY <2>1, <3>1, <3>2 DEF Failed, Same
  <2>. QED BY <2>1 DEF Failed
<1>4. ASSUME result'[r] = result[r], result[r] # None
      PROVE  disk'.receipt[r] = result'[r] \/ (result'[r] = "FAILED" /\ Failed(r, cmd'))
  BY <1>1, <1>2, <1>3, <1>4 DEF Gains
<1>. QED BY <1>1, <1>2, <1>4 DEF RunMoves, Gains

-----------------------------------------------------------------------------
(* The invariant, and what it says *)

LEMMA InitIInv ==
  ASSUME DeviceConstants, Init
  PROVE  IInv
<1>1. /\ run = [r \in Run |-> [state |-> "QUEUED", session |-> FALSE]]
      /\ sched = [r \in Run |-> "PLACED"] /\ outbox = Run /\ result = [r \in Run |-> None]
      /\ cmd = <<>> /\ server = [conn |-> 0, lease |-> FALSE, ready |-> FALSE] /\ opened = 0
      /\ link = [conn |-> 0, down |-> <<>>, up |-> <<>>]
      /\ disk = [journal |-> {}, inbox |-> [r \in Run |-> 0], receipt |-> [r \in Run |-> None]]
      /\ agent = [conn |-> 0, reply |-> None] /\ job = [r \in Run |-> None]
  BY DEF Init, NoLink, Asleep
<1>2. TypeOK
  <2>1. run \in Runs /\ sched \in Places /\ result \in Results
    BY <1>1 DEF Runs, Places, Results, DelegationState
  <2>2. server \in Leases /\ disk \in Files /\ link \in Links
    BY <1>1 DEF Leases, Files, Links
  <2>3. agent \in [conn : Nat, reply : {None} \cup Message] /\ job \in [Run -> {None} \cup Job]
    BY <1>1
  <2>. QED BY <1>1, <2>1, <2>2, <2>3 DEF TypeOK, Runs, Places, Results, Leases, Files, Links
<1>3. MessagesAreSound /\ CommandsAreKnown
  BY <1>1 DEF MessagesAreSound, CommandsAreKnown
<1>4. LedgerIsBackedByTheMachine
  BY <1>1 DEF LedgerIsBackedByTheMachine
<1>. QED BY <1>2, <1>3, <1>4 DEF IInv

LEMMA NextIInv ==
  ASSUME DeviceConstants, IInv, [Next]_vars
  PROVE  IInv'
<1>1. Grows(cmd') /\ Gains(disk') /\ Carries(link')
  BY LinkStays, LinkStep
<1>2. TypeOK'
  BY <1>1, TablesStep, AgentStep, JobStep DEF TypeOK, Runs, Places, Results, Leases, Grows, Gains, Files, Carries, Links
<1>3. MessagesAreSound'
  BY <1>1, AgentStep DEF MessagesAreSound, Carries
<1>4. CommandsAreKnown'
  <2>1. \A r \in Run : disk'.inbox[r] \in 0..Len(cmd')
    <3>1. Len(cmd) \in Nat /\ Len(cmd') \in Nat /\ Len(cmd) <= Len(cmd')
      BY <1>1 DEF Grows, IInv, TypeOK
    <3>. QED BY <1>1, <3>1 DEF Gains, IInv, CommandsAreKnown
  <2>. QED BY <1>1, <2>1, JobStep DEF CommandsAreKnown, Carries
<1>. QED BY <1>2, <1>3, <1>4, NextLedger DEF IInv

\* The tables, the channel and the machine's files are well formed, every
\* message on its way is backed by the files, and so is the ledger.
THEOREM Invariance ==
  ASSUME DeviceConstants
  PROVE  Spec => []IInv
<1>1. Init => IInv
  BY InitIInv
<1>2. IInv /\ [Next]_vars => IInv'
  BY NextIInv
<1>. QED BY <1>1, <1>2, PTL DEF Spec

\* A RUNNING run is in the machine's inbox, and an outcome that is no refusal
\* is the one in its receipt, for any number of runs, connections and commands
\* and whatever is lost between the machine and the gateway.
THEOREM LedgerIsBacked ==
  ASSUME DeviceConstants
  PROVE  Spec => []LedgerIsBackedByTheMachine
<1>1. IInv => LedgerIsBackedByTheMachine
  BY DEF IInv
<1>. QED BY <1>1, Invariance, PTL
===============================================================================
