----------------------------- MODULE JobControl -----------------------------
(* Control of the jobs that run on a node.  A command is decided in the        *)
(* database and left there for the node of the job; the node's executor takes  *)
(* what is left for it in batches, for thirty seconds each, and acts on its    *)
(* own handles.  The node writes what becomes of its jobs into the same        *)
(* database, without waiting from one record to the next, with a stream of     *)
(* events that others follow.                                                  *)
EXTENDS Naturals, Sequences, SequencesExt

CONSTANTS
    Job,        \* jobs, all of one session and one node
    Command,    \* commands, each with its correlation id
    MaxFailure, \* bound: statements that fail or lose their answers
    MaxRestart, \* bound: restarts of the node
    None

VARIABLES
    job,       \* per job, in the node: "unborn", "running", "stopping", "ended"; "gone" after a restart
    known,     \* the jobs the executor has a handle of
    execution, \* job_execution: per job [status, finished], or None
    stream,    \* job_result_event, in the order of seq
    record,    \* the records under way: [job, status, first]
    command,   \* job_control_command: per command [job, effect, locked, delivered], or None
    batch,     \* the commands the executor has taken and not yet acted on
    killed,    \* history: the commands that were carried out
    count      \* [failures, restarts]

jobVars == <<job, known, execution, stream, record, command, batch, killed, count>>

JobInit ==
    /\ job = [j \in Job |-> "unborn"] /\ known = {}
    /\ execution = [j \in Job |-> None] /\ stream = <<>> /\ record = {}
    /\ command = [c \in Command |-> None] /\ batch = <<>> /\ killed = {}
    /\ count = [failures |-> 0, restarts |-> 0]

Terminal(status) == status = "ended"
Failing == count.failures < MaxFailure /\ count' = [count EXCEPT !.failures = @ + 1]

-----------------------------------------------------------------------------
(* The node's jobs and the record of them.                                   *)

\* Mutant: the handle is noted when the job ends.
NotedAtEnd(j) == IF job[j] = "unborn" THEN known ELSE known \cup {j}

Noted(j) == known \cup {j}
\* done: the handle is noted, the record sent on its way
Told(j, status) ==
    /\ known' = Noted(j)
    /\ record' = record \cup {[job |-> j, status |-> status, first |-> FALSE]}

Begin(j) ==
    /\ job[j] = "unborn"
    /\ job' = [job EXCEPT ![j] = "running"]
    /\ Told(j, "running")
    /\ UNCHANGED <<execution, stream, command, batch, killed, count>>

End(j) ==
    /\ job[j] \in {"running", "stopping"}
    /\ job' = [job EXCEPT ![j] = "ended"]
    /\ Told(j, "ended")
    /\ UNCHANGED <<execution, stream, command, batch, killed, count>>

\* the record finds no row and so locks nothing
Look(r) ==
    /\ r \in record /\ ~r.first /\ execution[r.job] = None
    /\ record' = (record \ {r}) \cup {[r EXCEPT !.first = TRUE]}
    /\ UNCHANGED <<job, known, execution, stream, command, batch, killed, count>>

Tell(type, j) == <<[type |-> type, job |-> j]>>
\* Mutant: the end is told as often as it is recorded.
EndedAnyway(j, status) == IF Terminal(status) THEN Tell("finished", j) ELSE <<>>

EndOf(j, status) ==
    IF Terminal(status) /\ ~(execution[j] # None /\ execution[j].finished) THEN Tell("finished", j) ELSE <<>>
Saved(j, status) ==
    [status |-> status, finished |-> Terminal(status) \/ (execution[j] # None /\ execution[j].finished)]

\* record: the row and its events in one transaction; a second first record is refused by the key
Record(r) ==
    /\ r \in record /\ (r.first \/ execution[r.job] # None)
    /\ record' = record \ {r}
    /\ IF r.first /\ execution[r.job] # None THEN UNCHANGED <<execution, stream>>
       ELSE /\ execution' = [execution EXCEPT ![r.job] = Saved(r.job, r.status)]
            /\ stream' = stream \o (IF r.first THEN Tell("started", r.job) ELSE <<>>) \o EndOf(r.job, r.status)
    /\ UNCHANGED <<job, known, command, batch, killed, count>>

\* a record that fails is only logged
RecordFails(r) ==
    /\ r \in record /\ Failing
    /\ record' = record \ {r}
    /\ UNCHANGED <<job, known, execution, stream, command, batch, killed>>

-----------------------------------------------------------------------------
(* Commands.                                                                 *)

\* dispatch: an id that was decided keeps its decision; a job nobody knows of is not controlled
Effect(j) == IF execution[j] = None THEN "unknown" ELSE IF Terminal(execution[j].status) THEN "terminal" ELSE "requested"
Dispatch(c, j) ==
    /\ command[c] = None
    /\ command' = [command EXCEPT ![c] = [job |-> j, effect |-> Effect(j), locked |-> FALSE, delivered |-> FALSE]]
    /\ UNCHANGED <<job, known, execution, stream, record, batch, killed, count>>

Open(c) == command[c] # None /\ command[c].effect \in {"requested", "terminal"} /\ ~command[c].delivered /\ ~command[c].locked
\* take, in any order of equal times; drainOnce does not enter twice
Take ==
    /\ batch = <<>>
    /\ \E order \in SetToSeqs({c \in Command : Open(c)}) :
         /\ order # <<>>
         /\ batch' = order
    /\ command' = [c \in Command |-> IF Open(c) THEN [command[c] EXCEPT !.locked = TRUE] ELSE command[c]]
    /\ UNCHANGED <<job, known, execution, stream, record, killed, count>>

\* Mutant: what has not been acknowledged is not looked at again.
StaysTaken(c) == FALSE

\* thirty seconds later it may be taken again
MayReturn(c) == ~command[c].delivered
ClaimExpires(c) ==
    /\ command[c] # None /\ command[c].locked /\ MayReturn(c)
    /\ command' = [command EXCEPT ![c].locked = FALSE]
    /\ UNCHANGED <<job, known, execution, stream, record, batch, killed, count>>

Delivered(c) == command' = [command EXCEPT ![c].delivered = TRUE]
First == Head(batch)
\* kill: of a job that runs, the handle decides, not the row
CarriedOut(c) == IF command[c].job \in known THEN {c} ELSE {}
Stopped(j) == IF j \in known /\ job[j] = "running" THEN [job EXCEPT ![j] = "stopping"] ELSE job
\* observe: what the registry now says of the owner's jobs
Seen(jobs) == record \cup [job : {j \in Job : jobs[j] = "running"}, status : {"running"}, first : {FALSE}]
                     \cup [job : {j \in Job : jobs[j] = "stopping"}, status : {"stopping"}, first : {FALSE}]
                     \cup [job : {j \in Job : jobs[j] = "ended"}, status : {"ended"}, first : {FALSE}]
\* apply: the job is told to stop, and the jobs recorded; without a handle there is nothing to do
Apply ==
    /\ batch # <<>>
    /\ killed' = killed \cup CarriedOut(First)
    /\ LET j == command[First].job IN
         /\ job' = Stopped(j)
         /\ record' = IF j \in known THEN Seen(job') ELSE record
    /\ Delivered(First)
    /\ batch' = Tail(batch)
    /\ UNCHANGED <<known, execution, stream, count>>

\* something of it fails, after the job was told: the rest of the batch waits for its time to be taken again
ApplyFails ==
    /\ batch # <<>> /\ Failing
    /\ killed' = killed \cup CarriedOut(First)
    /\ job' = Stopped(command[First].job)
    /\ batch' = <<>>
    /\ UNCHANGED <<known, execution, stream, record, command>>

\* the node starts again: its jobs, handles and records under way are gone
Restart ==
    /\ count.restarts < MaxRestart
    /\ count' = [count EXCEPT !.restarts = @ + 1]
    /\ job' = [j \in Job |-> IF job[j] = "unborn" THEN "unborn" ELSE "gone"]
    /\ known' = {} /\ record' = {} /\ batch' = <<>>
    /\ UNCHANGED <<execution, stream, command, killed>>

Drain == Take \/ Apply
Write == \E r \in record : Look(r) \/ Record(r)

JobNext ==
    \/ \E j \in Job : Begin(j) \/ End(j) \/ \E c \in Command : Dispatch(c, j)
    \/ \E r \in record : Look(r) \/ Record(r) \/ RecordFails(r)
    \/ \E c \in Command : ClaimExpires(c)
    \/ Drain \/ ApplyFails \/ Restart

JobSpec == JobInit /\ [][JobNext]_jobVars

-----------------------------------------------------------------------------
(* Properties.                                                               *)

\* The stream tells of the beginning of a job once and first, and of its end at most once, though records overtake one
\* another (record, started_recorded, finished_recorded).
StreamIsWellFormed ==
    \A j \in Job :
      /\ execution[j] # None => \E i \in DOMAIN stream :
           stream[i] = [type |-> "started", job |-> j] /\ \A k \in DOMAIN stream : stream[k].job = j => i <= k
      /\ \A i, k \in DOMAIN stream : stream[i] = stream[k] => i = k

\* A command that is done with was carried out, unless the node has lost the job: a job whose row can be seen has its handle
\* in the executor before, and what fails on the way is taken again (apply, ack, locked_at).
DoneIsCarriedOut ==
    \A c \in Command :
      command[c] # None /\ command[c].delivered /\ c \notin killed => job[command[c].job] = "gone"

JobsHold == StreamIsWellFormed /\ DoneIsCarriedOut

\* What was asked for is done with, and no job that was told to stop is forgotten, for a node that goes on polling.
Settled == \A c \in Command : command[c] # None /\ command[c].effect \in {"requested", "terminal"} => command[c].delivered

\* Stated and not kept: a job whose end was told stays ended. A record of its beginning that commits later overwrites it.
EndedStays == \A j \in Job : execution[j] # None /\ execution[j].finished => Terminal(execution[j].status)
=============================================================================
