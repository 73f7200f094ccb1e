------------------------------ MODULE Migration ------------------------------
(***************************************************************************)
(* Work that is taken away from where it was placed (platform/             *)
(* control-plane/scheduler): clusters report themselves to the federation  *)
(* registry, every replica keeps a snapshot of the node directory, and     *)
(* judges from the two which attempts to move back to the global queue     *)
(* (migration.go) and which to give up (stall.go).  Meanwhile nodes claim  *)
(* their dispatches, report ends, and come back with lists of what they    *)
(* ran (Reconcile).                                                        *)
(*                                                                         *)
(* Fencing, slots and the statements within a placement are Scheduler's;   *)
(* a placement is one step here.  A replica tests its leadership only at   *)
(* the start of a round, so every replica may be in one.                   *)
(***************************************************************************)
EXTENDS Naturals, FiniteSets

CONSTANTS
  Task, Node, Cluster,
  NodeCluster,  \* [Node -> Cluster]
  Binding,      \* [Task -> Cluster \cup {None}]: the cluster_id a task is submitted with
  Registered,   \* the clusters that report themselves
  Unsteady,     \* bound: the nodes that leave the directory and return
  Replica,      \* the scheduler processes
  Ends,         \* bound: the ends that nodes report
  MaxAttempt,   \* bound: attempts of a task
  None

Terminal == {"COMPLETED", "FAILED"}
Active == {"PLACED", "RUNNING"}

VARIABLES
  row,      \* scheduler_tasks
  ledger,   \* scheduler_task_attempts: [Task -> [attempts -> [state, node]]]
  outbox,   \* scheduler_dispatch_outbox: [Task -> [attempts -> [node, status]]]
  ran,      \* what nodes have claimed: set of [task, attempt, node]
  age,      \* how long ago each cluster reported itself
  listed,   \* the nodes the directory lists
  snap,     \* each replica's nodeSnapshot: [ids, fresh]
  round,    \* each replica's migration or reaping round: [kind, down, todo]
  quiet,    \* the tasks whose current attempt was not touched for the whole maxStall
  lost,     \* history: the tasks whose placement outlived its cluster's or its node's presence
  moved     \* history: attempts <<t, a>> taken back to the queue, and not reclaimed since

tables == <<row, ledger, outbox, ran>>
places == <<age, listed, snap>>
vars == <<tables, places, round, quiet, lost, moved>>

NoRow == [state |-> "NONE", attempt |-> 0, node |-> None, cluster |-> None, avoid |-> {}]
Resting == [kind |-> "none", down |-> {}, todo |-> {}]
NothingLost == [cluster |-> FALSE, node |-> FALSE]

Init ==
  /\ row = [t \in Task |-> NoRow]
  /\ ledger = [t \in Task |-> <<>>]
  /\ outbox = [t \in Task |-> <<>>]
  /\ ran = {}
  /\ age = [c \in Cluster |-> IF c \in Registered THEN "reporting" ELSE "unregistered"]
  /\ listed = Node
  /\ snap = [r \in Replica |-> [ids |-> {}, fresh |-> FALSE]]
  /\ round = [r \in Replica |-> Resting]
  /\ quiet = {}
  /\ lost = [t \in Task |-> NothingLost]
  /\ moved = {}

Put(f, k, v) == [x \in DOMAIN f \cup {k} |-> IF x = k THEN v ELSE f[x]]
Rank(state) ==
  CASE state \in {"NONE", "PENDING"} -> 0 [] state = "PLACED" -> 1 [] state = "RUNNING" -> 2 [] OTHER -> 4

-----------------------------------------------------------------------------
(* The federation registry and the directory.                              *)

\* RegisterCluster, for the reporter of the cluster.
Report(c) ==
  /\ c \in Registered /\ age[c] # "reporting"
  /\ age' = [age EXCEPT ![c] = "reporting"]
  /\ UNCHANGED <<tables, listed, snap, round, quiet, lost, moved>>

\* Time passes without a report: up to suspect, then up to down and the grace period.
Silent(c) ==
  /\ age[c] \in {"reporting", "suspect"}
  /\ age' = [age EXCEPT ![c] = IF @ = "reporting" THEN "suspect" ELSE "lost"]
  /\ lost' = [t \in Task |->
       [lost[t] EXCEPT !.cluster = @ \/ (age'[c] = "lost" /\ row[t].cluster = c)]]
  /\ UNCHANGED <<tables, listed, snap, round, quiet, moved>>

\* BlocksPlacement; an unregistered cluster is not judged.
BlocksPlacement(c) == age[c] \in {"suspect", "lost"}

Site(t) == IF row[t].attempt \in DOMAIN ledger[t] THEN ledger[t][row[t].attempt].node ELSE None

\* Nacos lists the healthy instances only.
List(n) ==
  /\ listed' = IF n \in listed THEN listed \ {n} ELSE listed \cup {n}
  /\ lost' = [t \in Task |-> [lost[t] EXCEPT !.node = @ \/ Site(t) \notin listed']]
  /\ UNCHANGED <<tables, age, snap, round, quiet, moved>>

RefreshNodeSnapshot(r) ==
  /\ snap' = [snap EXCEPT ![r] = [ids |-> listed, fresh |-> TRUE]]
  /\ UNCHANGED <<tables, age, listed, round, quiet, lost, moved>>

\* The directory cannot be read, or the snapshot grows older than three refreshes: it is kept.
RefreshFails(r) ==
  /\ snap[r].fresh
  /\ snap' = [snap EXCEPT ![r].fresh = FALSE]
  /\ UNCHANGED <<tables, age, listed, round, quiet, lost, moved>>

-----------------------------------------------------------------------------
(* Placement and the nodes.                                                *)

\* A round has read the registry when the cluster was silent, and has not read its tasks yet;
\* or one that starts now would.
UnderJudgement(c) ==
  c # None /\ (age[c] = "lost" \/ \E r \in Replica : round[r].kind = "judged" /\ c \in round[r].down)

\* QueueTask: an ended task is reset with what the request says, and keeps its attempt.
QueueTask(t) ==
  /\ row[t].state \in {"NONE"} \cup Terminal
  /\ row' = [row EXCEPT ![t] = [NoRow EXCEPT !.state = "PENDING", !.attempt = row[t].attempt, !.cluster = Binding[t]]]
  /\ lost' = [lost EXCEPT ![t].cluster = @ \/ UnderJudgement(Binding[t])]
  /\ UNCHANGED <<ledger, outbox, ran, places, round, quiet, moved>>

EligibleNodes(cluster, avoid) ==
  {n \in listed : cluster \in {None, NodeCluster[n]} /\ ~BlocksPlacement(NodeCluster[n]) /\ n \notin avoid}

\* PlaceTask, from the drain loop with the row's own constraints or from a call with the call's.
PlaceTask(t, cluster, avoid, n) ==
  LET a == row[t].attempt + 1 IN
  /\ row[t].state \notin Active /\ a <= MaxAttempt
  /\ n \in EligibleNodes(cluster, avoid)
  /\ row' = [row EXCEPT ![t] = [state |-> "PLACED", attempt |-> a, node |-> n, cluster |-> cluster, avoid |-> avoid]]
  /\ ledger' = [ledger EXCEPT ![t] = Put(@, a, [state |-> "PLACED", node |-> n])]
  /\ outbox' = [outbox EXCEPT ![t] = Put(@, a, [node |-> n, status |-> "new"])]
  /\ lost' = [lost EXCEPT ![t] = [cluster |-> UnderJudgement(cluster), node |-> FALSE]]
  /\ quiet' = quiet \ {t}
  /\ UNCHANGED <<ran, places, round, moved>>

Place(t, n) ==
  \/ row[t].state = "PENDING" /\ PlaceTask(t, row[t].cluster, row[t].avoid, n)
  \/ PlaceTask(t, Binding[t], {}, n)

ClaimDispatch(t, a) ==
  /\ outbox[t][a].status = "new"
  /\ outbox' = [outbox EXCEPT ![t][a].status = "claimed"]
  /\ ran' = ran \cup {[task |-> t, attempt |-> a, node |-> outbox[t][a].node]}
  /\ UNCHANGED <<row, ledger, places, round, quiet, lost, moved>>

\* A claim that was not acknowledged in time, of an attempt that is current.
RequeueStaleDispatch(t, a) ==
  /\ outbox[t][a].status = "claimed"
  /\ row[t].attempt = a /\ row[t].state \in Active
  /\ outbox' = [outbox EXCEPT ![t][a].status = "new"]
  /\ UNCHANGED <<row, ledger, ran, places, round, quiet, lost, moved>>

\* CompleteTaskAttempt, and the acknowledgement of the dispatch of that attempt.
Complete(t, a, final) ==
  /\ \E e \in ran : e.task = t /\ e.attempt = a
  /\ row[t].attempt = a
  /\ IF row[t].state \in Active
     THEN row' = [row EXCEPT ![t].state = final] /\ ledger' = [ledger EXCEPT ![t][a].state = final]
     ELSE UNCHANGED <<row, ledger>>
  /\ outbox' = [outbox EXCEPT ![t] =
       [k \in DOMAIN @ |-> IF k = a /\ @[k].status # "gone" THEN [@[k] EXCEPT !.status = "delivered"] ELSE @[k]]]
  /\ UNCHANGED <<ran, places, round, quiet, lost, moved>>

-----------------------------------------------------------------------------
(* Reconciliation: one entry of a list of what nodes ran.                  *)

\* Mutant: a report of equal rank replaces the state.
MergesAny(t, e, state) ==
  e.attempt > row[t].attempt \/ (e.attempt = row[t].attempt /\ Rank(state) >= Rank(row[t].state))

\* A higher attempt wins; within the attempt the state only goes forward.
Merges(t, e, state) ==
  e.attempt > row[t].attempt \/ (e.attempt = row[t].attempt /\ Rank(state) > Rank(row[t].state))

\* The ledger takes the entry whatever it says; the task's cluster is left as it is.
Reconcile(e, state) ==
  LET t == e.task  a == e.attempt IN
  /\ ledger' = [ledger EXCEPT ![t] = Put(@, a, [state |-> state, node |-> e.node])]
  /\ row' = IF Merges(t, e, state)
            THEN [row EXCEPT ![t].state = state, ![t].attempt = a, ![t].node = e.node] ELSE row
  /\ moved' = IF Merges(t, e, state) THEN moved \ {<<t, a>>} ELSE moved
  /\ quiet' = IF a = row'[t].attempt THEN quiet \ {t} ELSE quiet
  /\ UNCHANGED <<outbox, ran, places, round, lost>>

-----------------------------------------------------------------------------
(* The migration round.                                                    *)

\* The ages are read; nothing to do unless a cluster has passed the line.
JudgeClusters(r) ==
  LET down == {c \in Cluster : age[c] = "lost"} IN
  /\ round[r].kind = "none" /\ down # {}
  /\ round' = [round EXCEPT ![r] = [kind |-> "judged", down |-> down, todo |-> {}]]
  /\ UNCHANGED <<tables, places, quiet, lost, moved>>

Observed(t) == [task |-> t, attempt |-> row[t].attempt, node |-> row[t].node, cluster |-> row[t].cluster]
Unlisted(r, t) == row[t].node # None /\ row[t].node \notin snap[r].ids

\* The snapshot must be fresh; then the tasks of those clusters are read.
ListMigratable(r) ==
  LET todo == {Observed(t) : t \in {u \in Task :
                 row[u].state \in Active /\ row[u].cluster \in round[r].down /\ Unlisted(r, u)}} IN
  /\ round[r].kind = "judged"
  /\ round' = [round EXCEPT ![r] = IF snap[r].fresh /\ todo # {} THEN [@ EXCEPT !.kind = "migrate", !.todo = todo]
                                   ELSE Resting]
  /\ UNCHANGED <<tables, places, quiet, lost, moved>>

Left(r, o) == IF round[r].todo = {o} THEN Resting ELSE [round[r] EXCEPT !.todo = @ \ {o}]

\* Mutant: the cluster and the state are compared, the attempt is not.
SameState(o) == row[o.task].state \in Active /\ row[o.task].cluster = o.cluster

\* The row is still the placement that was observed.
StillThere(o) ==
  row[o.task].state \in Active /\ row[o.task].attempt = o.attempt /\ row[o.task].cluster = o.cluster

\* Mutant: the dispatch is left in the outbox.
NotVoided(entry) == entry

\* A dispatch that nobody claimed is withdrawn.
Voided(entry) == IF entry.status = "new" THEN [entry EXCEPT !.status = "gone"] ELSE entry

\* MigrateTask: the attempt and its ledger entry stay as they are.
MigrateTask(r, o) ==
  LET t == o.task  a == row[o.task].attempt IN
  /\ round[r].kind = "migrate" /\ o \in round[r].todo
  /\ round' = [round EXCEPT ![r] = Left(r, o)]
  /\ IF StillThere(o)
     THEN /\ row' = [row EXCEPT ![t] = [@ EXCEPT !.state = "PENDING", !.node = None, !.cluster = None,
                                                  !.avoid = @ \cup {o.node}]]
          /\ outbox' = [outbox EXCEPT ![t] =
               [k \in DOMAIN @ |-> IF k = o.attempt THEN Voided(@[k]) ELSE @[k]]]
          /\ moved' = moved \cup {<<t, a>>}
     ELSE UNCHANGED <<row, outbox, moved>>
  /\ UNCHANGED <<ledger, ran, places, quiet, lost>>

-----------------------------------------------------------------------------
(* The reaping round.                                                      *)

\* maxStall passes without an update of the attempt; every snapshot is older by then.
Stall(t) ==
  /\ row[t].state \in Active /\ t \notin quiet
  /\ quiet' = quiet \cup {t}
  /\ snap' = [r \in Replica |-> [snap[r] EXCEPT !.fresh = FALSE]]
  /\ UNCHANGED <<tables, age, listed, round, lost, moved>>

ReapStalled(r) ==
  LET todo == {Observed(t) : t \in {u \in quiet : row[u].state \in Active /\ Unlisted(r, u)}} IN
  /\ round[r].kind = "none" /\ snap[r].fresh /\ todo # {}
  /\ round' = [round EXCEPT ![r] = [kind |-> "reap", down |-> {}, todo |-> todo]]
  /\ UNCHANGED <<tables, places, quiet, lost, moved>>

\* What was dispatched and not claimed stays in the outbox.
DeadLetter(r, o) ==
  LET t == o.task IN
  /\ round[r].kind = "reap" /\ o \in round[r].todo
  /\ round' = [round EXCEPT ![r] = Left(r, o)]
  /\ IF row[t].state \in Active /\ row[t].attempt = o.attempt
     THEN row' = [row EXCEPT ![t].state = "FAILED"] /\ ledger' = [ledger EXCEPT ![t][o.attempt].state = "FAILED"]
     ELSE UNCHANGED <<row, ledger>>
  /\ UNCHANGED <<outbox, ran, places, quiet, lost, moved>>

-----------------------------------------------------------------------------
Next ==
  \/ \E c \in Cluster : Report(c) \/ Silent(c)
  \/ \E n \in Unsteady : List(n)
  \/ \E r \in Replica :
       \/ RefreshNodeSnapshot(r) \/ RefreshFails(r) \/ JudgeClusters(r) \/ ListMigratable(r) \/ ReapStalled(r)
       \/ \E o \in round[r].todo : MigrateTask(r, o) \/ DeadLetter(r, o)
  \/ \E t \in Task :
       \/ QueueTask(t) \/ Stall(t)
       \/ \E n \in Node : Place(t, n)
       \/ \E a \in DOMAIN outbox[t] :
            ClaimDispatch(t, a) \/ RequeueStaleDispatch(t, a) \/ \E final \in Ends : Complete(t, a, final)
  \/ \E e \in ran, state \in {"RUNNING"} \cup Ends : Reconcile(e, state)

Spec == Init /\ [][Next]_vars

-----------------------------------------------------------------------------
(* Properties.                                                             *)

\* Only a placement whose cluster went silent while it stood (or was being judged when it was made:
\* the tasks are read after the ages) is moved, and only one whose node left the directory while it
\* stood is given up, however the rounds of several replicas, new placements and reports interleave
\* with the judging ("what was just observed is not what now holds", DeadLetter's and MigrateTask's
\* conditions).
OnlyLostWorkIsGivenUp ==
  \A t \in Task, r \in Replica : row[t].state \in Active /\ round'[r] # round[r] =>
       /\ row'[t].state = "PENDING" => lost[t].cluster
       /\ row'[t].state = "FAILED" => lost[t].node

\* An attempt that was moved back to the queue is not handed to a node any more, unless its node
\* reclaimed it in a reconciliation (the withdrawal in MigrateTask, RequeueStaleDispatch).
MovedIsNotDelivered ==
  \A t \in Task : \A a \in DOMAIN outbox[t] :
       outbox[t][a].status = "new" /\ outbox'[t][a].status = "claimed" => <<t, a>> \notin moved

\* How an attempt ended is not changed by what nodes or reapers report later ("a final state does
\* not go back", Reconcile): only a new request touches an ended row.
EndsAreKept ==
  \A t \in Task : row[t].state \in Terminal /\ row'[t] # row[t] =>
       row'[t].state = "PENDING" \/ row'[t].attempt > row[t].attempt

\* The three together.
MovesAreSafe == OnlyLostWorkIsGivenUp /\ MovedIsNotDelivered /\ EndsAreKept

\* Reconcile's comment: "within an attempt the state only moves forward, final states do not go
\* back": an attempt that the ledger has as ended is not in execution again.
EndedAttemptsStayEnded ==
  \A t \in Task : LET a == row'[t].attempt IN
       row'[t].state = "RUNNING" /\ a \in DOMAIN ledger[t] => ledger[t][a].state \notin Terminal
=============================================================================
