----------------------------- MODULE CronCursors -----------------------------
(***************************************************************************)
(* The producer of cron triggers that every flows replica runs             *)
(* (platform/control-plane/flows: internal/schedule/producer.go, internal/ *)
(* store/schedule.go): a cycle reads the automations, brings the cursors   *)
(* into line with them, and fires the cursors that are due.  A cursor is   *)
(* advanced and its trigger queued in one statement.                       *)
(*                                                                         *)
(* An expression is the set of instants at which it fires; the empty set   *)
(* stands for one that cannot be read or never fires.  A cursor whose      *)
(* expression could be read when it was made can be read again, so firing  *)
(* never stalls it.                                                        *)
(***************************************************************************)
EXTENDS Naturals, FiniteSets

CONSTANTS
  Automation, Producer,
  Expression, \* the expressions, sets of instants
  Existing,   \* the expression of the automations whose cursors exist at first
  MaxTime,    \* bound: instants
  MaxEdit,    \* bound: changes of automations
  None

VARIABLES
  clock,
  wanted,   \* project_automations: the expression of each enabled automation of a published flow
  cursor,   \* flow_cron_cursors: [spec, last, next, stalled], or None
  fired,    \* history: how often each occurrence was queued, by automation and instant
  cycle,    \* each producer's cycle
  edits

cronVars == <<clock, wanted, cursor, fired, cycle, edits>>

Time == 1 .. MaxTime
Resting == [pc |-> "rest", now |-> 0, wanted |-> None, known |-> None, todo |-> {}]

Earliest(S) == CHOOSE t \in S : \A u \in S : t <= u
Latest(S) == CHOOSE t \in S : \A u \in S : t >= u

\* Schedule.Next; MaxTime + 1 stands for every instant beyond the bound.
NextFire(spec, t) == Earliest({o \in spec : o > t} \cup {MaxTime + 1})

\* Schedule.Due: the latest occurrence missed, if there is one.
Missed(spec, last, now) == {o \in spec : last < o /\ o <= now}

Fresh(spec, now) == [spec |-> spec, last |-> now, next |-> IF spec = {} THEN now ELSE NextFire(spec, now), stalled |-> spec = {}]

CronInit ==
  /\ clock = 0 /\ edits = 0
  /\ wanted = [a \in Automation |-> Existing]
  /\ cursor = [a \in Automation |-> IF Existing = None THEN None ELSE Fresh(Existing, 0)]
  /\ fired = [a \in Automation |-> [t \in Time |-> 0]]
  /\ cycle = [p \in Producer |-> Resting]

-----------------------------------------------------------------------------
Tick == clock < MaxTime /\ clock' = clock + 1 /\ UNCHANGED <<wanted, cursor, fired, cycle, edits>>

\* An automation is created, edited, switched off or on, or its flow published or withdrawn.
Edit(a, spec) ==
  /\ edits < MaxEdit /\ spec # wanted[a]
  /\ wanted' = [wanted EXCEPT ![a] = spec] /\ edits' = edits + 1
  /\ UNCHANGED <<clock, cursor, fired, cycle>>

\* Cycle, ListCronAutomations
ListCronAutomations(p) ==
  /\ cycle[p].pc = "rest"
  /\ cycle' = [cycle EXCEPT ![p] = [Resting EXCEPT !.pc = "load", !.now = clock, !.wanted = wanted]]
  /\ UNCHANGED <<clock, wanted, cursor, fired, edits>>

\* A cursor is left alone as long as its expression stays the same.
Stale(p, a, c) == cycle[p].wanted[a] # None /\ (c = None \/ c.spec # cycle[p].wanted[a])

LoadCronCursors(p) ==
  /\ cycle[p].pc = "load"
  /\ cycle' = [cycle EXCEPT ![p].pc = "reconcile", ![p].known = cursor,
                            ![p].todo = {a \in Automation : Stale(p, a, cursor[a])}]
  /\ UNCHANGED <<clock, wanted, cursor, fired, edits>>

\* Mutant: a new cursor starts from the beginning, and catches up on what is past.
Backdated(spec, now) == [Fresh(spec, now) EXCEPT !.last = 0, !.next = NextFire(spec, 0)]

\* A new or changed automation starts now.
Start(spec, now) == Fresh(spec, now)

UpsertCronCursor(p, a) ==
  /\ cycle[p].pc = "reconcile" /\ a \in cycle[p].todo
  /\ cursor' = [cursor EXCEPT ![a] = Start(cycle[p].wanted[a], cycle[p].now)]
  /\ cycle' = [cycle EXCEPT ![p].todo = @ \ {a}]
  /\ UNCHANGED <<clock, wanted, fired, edits>>

DeleteCronCursors(p) ==
  /\ cycle[p].pc = "reconcile" /\ cycle[p].todo = {}
  /\ cursor' = [a \in Automation |-> IF cycle[p].known[a] # None /\ cycle[p].wanted[a] = None THEN None ELSE cursor[a]]
  /\ cycle' = [cycle EXCEPT ![p].pc = "due"]
  /\ UNCHANGED <<clock, wanted, fired, edits>>

Due(a, now) == cursor[a] # None /\ ~cursor[a].stalled /\ cursor[a].next <= now

DueCronCursors(p) ==
  LET due == {a \in Automation : Due(a, cycle[p].now)} IN
  /\ cycle[p].pc = "due"
  /\ cycle' = [cycle EXCEPT ![p] = IF due = {} THEN Resting ELSE [@ EXCEPT !.pc = "fire", !.known = cursor, !.todo = due]]
  /\ UNCHANGED <<clock, wanted, cursor, fired, edits>>

\* Mutant: the cursor is not compared with the instant of the cycle.
UnmovedAny(p, a) == cursor[a] # None /\ cursor[a].spec = cycle[p].known[a].spec

\* The comparison of FireCronCursor.
Unmoved(p, a) == Due(a, cycle[p].now) /\ cursor[a].spec = cycle[p].known[a].spec

\* fire, FireCronCursor: of the missed occurrences only the latest is caught up.
FireCronCursor(p, a) ==
  LET seen == cycle[p].known[a]  now == cycle[p].now  o == Latest(Missed(seen.spec, seen.last, now)) IN
  /\ cycle[p].pc = "fire" /\ a \in cycle[p].todo
  /\ IF Unmoved(p, a)
     THEN /\ cursor' = [cursor EXCEPT ![a].last = o, ![a].next = NextFire(seen.spec, now)]
          /\ fired' = [fired EXCEPT ![a][o] = @ + 1]
     ELSE UNCHANGED <<cursor, fired>>
  /\ cycle' = [cycle EXCEPT ![p] = IF @.todo = {a} THEN Resting ELSE [@ EXCEPT !.todo = @ \ {a}]]
  /\ UNCHANGED <<clock, wanted, edits>>

\* A statement fails, or the replica stops.
Stop(p) ==
  /\ cycle[p] # Resting /\ cycle' = [cycle EXCEPT ![p] = Resting]
  /\ UNCHANGED <<clock, wanted, cursor, fired, edits>>

CronNext ==
  \/ Tick
  \/ \E a \in Automation, spec \in Expression \cup {None} : Edit(a, spec)
  \/ \E p \in Producer :
       \/ ListCronAutomations(p) \/ LoadCronCursors(p) \/ DeleteCronCursors(p) \/ DueCronCursors(p) \/ Stop(p)
       \/ \E a \in Automation : UpsertCronCursor(p, a) \/ FireCronCursor(p, a)

CronSpec == CronInit /\ [][CronNext]_cronVars

-----------------------------------------------------------------------------
(* Properties.                                                             *)

\* "Firing is exactly once, without a claim" (ErrCursorAdvanced): no occurrence is queued twice.  This holds
\* of one replica, and of several while no automation is edited.  Where a replica acts on an older list of
\* automations and an older instant than another, its upsert sets a cursor back or makes a deleted one anew.
FiresOnce == \A a \in Automation, t \in Time : fired[a][t] <= 1

\* What stays of it then: an occurrence that is queued is later than what its cursor has fired, or where it
\* started, so none is queued twice between two upserts of the cursor (the comparison of FireCronCursor).
FiresForward == \A a \in Automation, t \in Time : fired'[a][t] # fired[a][t] => cursor[a] # None /\ cursor[a].last < t

\* Nothing that a cursor should fire lies between what it has fired, or where it started, and what
\* it waits for: of several occurrences missed the latest is caught up, and none is left behind.
NothingBetween ==
  \A a \in Automation : cursor[a] # None =>
    {o \in cursor[a].spec : cursor[a].last < o /\ o < cursor[a].next} = {}

\* The properties of the cursors of one replica, or of several while no automation is edited.
CursorsHold == FiresOnce /\ NothingBetween
===============================================================================
