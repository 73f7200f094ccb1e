------------------------------- MODULE Readiness -------------------------------
(***************************************************************************)
(* Whether the cluster is ready (platform/control-plane/heartbeat          *)
(* heartbeat.go, readiness.go, watcher.go; governance internal/readiness,  *)
(* internal/domain ResolveGate, internal/server requireCluster): each      *)
(* service reports to a table at intervals, governance reads the table now *)
(* and then, and its management calls are served according to what it last *)
(* read.                                                                   *)
(*                                                                         *)
(* Time is discrete; the reports' ages are measured by the database.  A    *)
(* publisher that runs keeps its intervals; the reader may be arbitrarily  *)
(* late.                                                                   *)
(***************************************************************************)
EXTENDS Naturals, FiniteSets

CONSTANTS
  Instance, ServiceOf,          \* the instances, and the service each belongs to
  Required,                     \* the services that must be serving
  Reader,                       \* the replicas of governance
  Interval, Timeout,            \* of a report, and of a statement
  MaxAge,                       \* the age of a report that still counts
  StaleAfter,                   \* the age of a reading that still counts
  PruneAfter,                   \* the age of reports that are dropped
  Declared,                     \* LUMO_CLUSTER_STATUS
  MaxFailures, MaxEvents,       \* bounds: failed reports counted, starts, ends and failures in all
  None

VARIABLES
  row,       \* lumo_service_heartbeats: per instance None or [status, ok, age]; ok: no dependency fails
  publisher, \* per instance [pc, since, waited, ok, failures]: its loop; failures in a row, MaxFailures if none went well
  late,      \* per instance the reports it has given up that may still be written
  reading,   \* per reader [pc, waited, ready]: its query
  snapshot,  \* per reader None or [ready, age]: what it keeps
  dark,      \* history: how long ago the table last showed every required service serving
  events     \* bound

readinessVars == <<row, publisher, late, reading, snapshot, dark, events>>

Down == [pc |-> "down", since |-> 0, waited |-> 0, ok |-> FALSE, failures |-> MaxFailures]
NoReading == [pc |-> "none", waited |-> 0, ready |-> FALSE]
Forgotten == PruneAfter + 1     \* ages beyond it are alike
LongDark == Timeout + StaleAfter + 1

ReadinessInit ==
  /\ row = [i \in Instance |-> None]
  /\ publisher = [i \in Instance |-> Down]
  /\ late = [i \in Instance |-> {}]
  /\ reading = [g \in Reader |-> NoReading] /\ snapshot = [g \in Reader |-> None] /\ events = 0
  /\ dark = LongDark

Happens == events < MaxEvents /\ events' = events + 1

AtMost(n, bound) == IF n > bound THEN bound ELSE n

-----------------------------------------------------------------------------
(* The publisher of a service.                                             *)

Written(i, report) == row' = [row EXCEPT ![i] = [status |-> report.status, ok |-> report.ok, age |-> 0]]

\* The process starts; an instance that comes back has the name it had.
Run(i) ==
  /\ publisher[i].pc = "down" /\ Happens
  /\ publisher' = [publisher EXCEPT ![i] = [Down EXCEPT !.pc = "due"]]
  /\ UNCHANGED <<row, late, reading, snapshot>>

\* PublishOnce: the dependencies are probed, and the report sent.
Publish(i, ok) ==
  /\ \/ publisher[i].pc = "due"
     \/ publisher[i].pc = "idle" /\ publisher[i].since = Interval
  /\ publisher' = [publisher EXCEPT ![i] = [@ EXCEPT !.pc = "writing", !.since = 0, !.waited = 0, !.ok = ok]]
  /\ UNCHANGED <<row, late, reading, snapshot, events>>

Report(i) ==
  [status |-> IF publisher[i].pc = "stopping" THEN "stopping" ELSE "ready", ok |-> publisher[i].ok]

\* The next step of the loop, or its end.
Resume(i, failures) ==
  publisher' = [publisher EXCEPT ![i] = IF @.pc = "stopping" THEN Down ELSE [@ EXCEPT !.pc = "idle", !.waited = 0, !.failures = failures]]

Write(i) ==
  /\ publisher[i].pc \in {"writing", "stopping"}
  /\ Written(i, Report(i)) /\ Resume(i, 0)
  /\ UNCHANGED <<late, reading, snapshot, events>>

\* The report fails, or its time runs out; a statement that was given up may take effect later.
WriteFails(i, lands) ==
  /\ Happens
  /\ publisher[i].pc \in {"writing", "stopping"}
  /\ late' = IF lands THEN [late EXCEPT ![i] = @ \cup {Report(i)}] ELSE late
  /\ Resume(i, AtMost(publisher[i].failures + 1, MaxFailures))
  /\ UNCHANGED <<row, reading, snapshot>>

\* It does.
Lands(i, report) ==
  /\ report \in late[i]
  /\ Written(i, report)
  /\ late' = [late EXCEPT ![i] = @ \ {report}]
  /\ UNCHANGED <<publisher, reading, snapshot, events>>

\* The context of the loop is done: a report under way is given up, and the end is reported.
Stop(i) ==
  /\ Happens
  /\ publisher[i].pc \in {"due", "idle", "writing"}
  /\ late' = IF publisher[i].pc = "writing" THEN [late EXCEPT ![i] = @ \cup {Report(i)}] ELSE late
  /\ publisher' = [publisher EXCEPT ![i] = [@ EXCEPT !.pc = "stopping", !.waited = 0]]
  /\ UNCHANGED <<row, reading, snapshot>>

Crash(i) ==
  /\ Happens
  /\ publisher[i].pc # "down"
  /\ publisher' = [publisher EXCEPT ![i] = Down]
  /\ UNCHANGED <<row, late, reading, snapshot>>

-----------------------------------------------------------------------------
(* The reader.                                                             *)

\* Mutant: a report is not looked at for its age.
ServingHowever(r) == r # None /\ r.status = "ready" /\ r.ok

Serving(r) == r # None /\ r.age <= MaxAge /\ r.status = "ready" /\ r.ok

\* Mutant: what counts is the services that report.
EvaluateReported(rows) ==
  \A s \in {ServiceOf[i] : i \in {i \in Instance : rows[i] # None}} : \E i \in Instance : ServiceOf[i] = s /\ Serving(rows[i])

\* Every required service has an instance that serves; one that never reported has none.
Evaluate(rows) == \A s \in Required : \E i \in Instance : ServiceOf[i] = s /\ Serving(rows[i])

BeginRefresh(g) ==
  /\ reading[g] = NoReading
  /\ reading' = [reading EXCEPT ![g].pc = "asked"]
  /\ UNCHANGED <<row, publisher, late, snapshot, events>>

ReadAll(g) ==
  /\ reading[g].pc = "asked"
  /\ reading' = [reading EXCEPT ![g] = [@ EXCEPT !.pc = "read", !.ready = Evaluate(row)]]
  /\ UNCHANGED <<row, publisher, late, snapshot, events>>

Store(g, ready) ==
  /\ snapshot' = [snapshot EXCEPT ![g] = [ready |-> ready, age |-> 0]]
  /\ reading' = [reading EXCEPT ![g] = NoReading]
  /\ UNCHANGED <<row, publisher, late>>

Refresh(g) == reading[g].pc = "read" /\ Store(g, reading[g].ready) /\ UNCHANGED events

\* Mutant: the last good reading is kept for an unreadable table.
FailedReadingKeeps(g) == snapshot[g] # None /\ snapshot[g].ready

\* What could not be read is not ready.
FailedReading(g) == FALSE

RefreshFails(g) == reading[g] # NoReading /\ Happens /\ Store(g, FailedReading(g))

\* Governance restarts, with nothing read.
Restart(g) ==
  /\ Happens
  /\ snapshot[g] # None
  /\ snapshot' = [snapshot EXCEPT ![g] = None]
  /\ reading' = [reading EXCEPT ![g] = NoReading]
  /\ UNCHANGED <<row, publisher, late>>

\* Mutant: a reading is good until the next one.
FreshAlways(s) == TRUE

Fresh(s) == s.age <= StaleAfter

\* SnapshotAt and Health
Health(g) == [known |-> snapshot[g] # None, ready |-> snapshot[g] # None /\ snapshot[g].ready /\ Fresh(snapshot[g])]

\* ResolveGate
Gate(g) ==
  IF Declared # "ready" THEN "not_ready"
  ELSE IF Health(g).known /\ Health(g).ready THEN "ready" ELSE "degraded"

\* Mutant: every management call is served that the configuration admits.
ServesDeclared(g) == Declared = "ready"

\* requireCluster
Serves(g) == Gate(g) = "ready"

\* Mutant: whoever missed one report is dropped.
GoneSoon(i) == row[i] # None /\ row[i].age > Interval

Gone(i) == row[i] # None /\ row[i].age > PruneAfter

Prune ==
  /\ \E i \in Instance : Gone(i)
  /\ row' = [i \in Instance |-> IF Gone(i) THEN None ELSE row[i]]
  /\ UNCHANGED <<publisher, late, reading, snapshot, events>>

-----------------------------------------------------------------------------
\* Time passes, unless a publisher is due or its report or the reader's query out of time.
Tick ==
  /\ \A i \in Instance :
       /\ publisher[i].pc # "due"
       /\ publisher[i].pc = "idle" => publisher[i].since < Interval
       /\ publisher[i].pc \in {"writing", "stopping"} => publisher[i].waited < Timeout
  /\ \A g \in Reader : reading[g].waited < Timeout
  /\ row' = [i \in Instance |-> IF row[i] = None THEN None ELSE [row[i] EXCEPT !.age = AtMost(@ + 1, Forgotten)]]
  /\ publisher' = [i \in Instance |->
       CASE publisher[i].pc = "idle" -> [publisher[i] EXCEPT !.since = @ + 1]
         [] publisher[i].pc = "writing" -> [publisher[i] EXCEPT !.since = @ + 1, !.waited = @ + 1]
         [] publisher[i].pc = "stopping" -> [publisher[i] EXCEPT !.waited = @ + 1]
         [] OTHER -> publisher[i]]
  /\ reading' = [g \in Reader |-> IF reading[g] = NoReading THEN NoReading ELSE [reading[g] EXCEPT !.waited = @ + 1]]
  /\ snapshot' = [g \in Reader |-> IF snapshot[g] = None THEN None ELSE [snapshot[g] EXCEPT !.age = AtMost(@ + 1, StaleAfter + 1)]]
  /\ UNCHANGED <<late, events>>

\* The table serves, taken by its meaning: every required service has an instance that reported in time that it is ready.
Serviceable ==
  \A s \in Required : \E i \in Instance :
    ServiceOf[i] = s /\ row[i] # None /\ row[i].age <= MaxAge /\ row[i].status = "ready" /\ row[i].ok

\* What the table shows is noted whenever something happens.
Watch(passed) == dark' = IF Serviceable THEN passed ELSE AtMost(dark + passed, LongDark)

ReadinessNext ==
  \/ Tick /\ Watch(1)
  \/ /\ Watch(0)
     /\ \/ Prune
        \/ \E g \in Reader : BeginRefresh(g) \/ ReadAll(g) \/ Refresh(g) \/ RefreshFails(g) \/ Restart(g)
        \/ \E i \in Instance :
             \/ Run(i) \/ Write(i) \/ Stop(i) \/ Crash(i)
             \/ \E ok \in BOOLEAN : Publish(i, ok) \/ WriteFails(i, ok)
             \/ \E report \in late[i] : Lands(i, report)

ReadinessSpec == ReadinessInit /\ [][ReadinessNext]_readinessVars

-----------------------------------------------------------------------------
(* Properties.                                                             *)

\* The gate fails closed (watcher.go:37-39): management calls are served only if, at most the time of a query and of a
\* stale reading ago, the table showed every required service serving; whoever reports, whatever fails, and however late
\* the reader is.
GateFailsClosed == \A g \in Reader : Serves(g) => dark <= Timeout + StaleAfter

\* "Three consecutive failures must not be enough to declare a service unhealthy" (heartbeat.go:108-109): a report of an
\* instance whose loop runs stays fresh through three failed successors, and is not dropped.
ThreeFailuresAreBorne ==
  \A i \in Instance : publisher[i].pc \in {"idle", "writing"} /\ publisher[i].failures <= 3 =>
    row[i] # None /\ row[i].age <= MaxAge

\* Readiness together.
ReadinessHolds == GateFailsClosed /\ ThreeFailuresAreBorne
===============================================================================
