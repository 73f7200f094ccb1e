------------------------------- MODULE NodeLoss -------------------------------
(***************************************************************************)
(* Threads and the nodes that host them (platform/control-plane:           *)
(* collaborator/internal/store/threads.go, domain/thread.go, and the       *)
(* observer of heartbeat/nacos.go and nodeloss.go that every collaborator  *)
(* replica runs).  A node that stays out of the registry for the grace is  *)
(* reported; its threads fail, their coordinators get a notice and may     *)
(* create a replacement on another node.                                   *)
(*                                                                         *)
(* One realm.  An age is counted in periods: Down of them are the grace.   *)
(***************************************************************************)
EXTENDS Naturals, FiniteSets

CONSTANTS
  Thread, Node, \* numbers of threads, in the order of their creation; nodes
  Observer,     \* the replicas that watch the nodes
  Down,         \* periods without evidence after which a node is down
  MaxOutage,    \* bound: registrations lost and reads that fail
  None

Terminal == {"stopped", "done", "failed"}
Live == {"idle", "running", "awaiting"}

VARIABLES
  thread,    \* the threads table
  notice,    \* thread_node_loss_notices: [thread, seq], committed
  seq,       \* the BIGSERIAL sequence of the notices
  tx,        \* each observer's report being applied: [node, lost], lost being the notices drawn
  cursor,    \* how far a coordinator has read, and what it read
  listed,    \* the nodes the registry lists as healthy
  missing,   \* each observer's memory: periods since a node was first found missing
  judged,    \* each observer's nodes to report in this round
  reported,  \* each observer's nodes reported since they went down
  absent,    \* history: periods every node has been without evidence, in each observer's reads
  outages

rows == <<thread, notice, seq, cursor>>
watch == <<missing, judged, reported, absent>>
vars == <<rows, tx, listed, watch, outages>>

Unused == [state |-> "none", node |-> None, replaces |-> None]
NoTx == [node |-> None, lost |-> {}]
Never == Down + 1

Init ==
  /\ thread = [t \in Thread |-> Unused]
  /\ notice = {} /\ seq = 0
  /\ tx = [o \in Observer |-> NoTx]
  /\ cursor = [last |-> 0, seen |-> {}]
  /\ listed = Node
  /\ missing = [o \in Observer |-> [n \in Node |-> Never]]
  /\ judged = [o \in Observer |-> {}]
  /\ reported = [o \in Observer |-> {}]
  /\ absent = [o \in Observer |-> [n \in Node |-> 0]]
  /\ outages = 0

-----------------------------------------------------------------------------
(* The threads.                                                            *)

\* Mutant: any failed thread may be replaced, whoever replaced it already.
ReplaceableAgain(p, n) == thread[p].state = "failed" /\ thread[p].node # n

\* The unique index threads_replacement, and the comparison with the thread replaced.
Replaceable(p, n) ==
  thread[p].state = "failed" /\ thread[p].node # n /\ \A t \in Thread : thread[t].replaces # p

\* A row that a report has locked waits for its commit.
Locked(t) == \E o \in Observer : tx[o].node # None /\ tx[o].node = thread[t].node

CreateThread(t, n, p) ==
  /\ thread[t].state = "none" /\ \A u \in Thread : u < t => thread[u].state # "none"
  /\ p # None => Replaceable(p, n)
  /\ thread' = [thread EXCEPT ![t] = [state |-> "idle", node |-> n, replaces |-> p]]
  /\ UNCHANGED <<notice, seq, cursor, tx, listed, watch, outages>>

\* Mutant: a failed thread may be taken up again.
CanBeRevived(from, to) ==
  \/ from \in Live /\ to \in {"running", "awaiting", "done"} /\ from # to
  \/ from = "failed" /\ to = "running"

\* threadTransitions
CanThreadTransition(from, to) ==
  \/ from = "idle" /\ to \in {"running", "stopped", "failed"}
  \/ from = "running" /\ to \in {"awaiting", "done", "stopped", "failed"}
  \/ from = "awaiting" /\ to \in {"running", "stopped", "failed"}

TransitionThread(t, to) ==
  /\ ~Locked(t) /\ CanThreadTransition(thread[t].state, to)
  /\ thread' = [thread EXCEPT ![t].state = to]
  /\ UNCHANGED <<notice, seq, cursor, tx, listed, watch, outages>>

-----------------------------------------------------------------------------
(* The registry and the observers.                                         *)

\* A node's registration expires, or it registers again.
Register(n) ==
  /\ listed' = IF n \in listed THEN listed \ {n} ELSE listed \cup {n}
  /\ outages' = IF n \in listed THEN outages + 1 ELSE outages
  /\ outages' <= MaxOutage
  /\ UNCHANGED <<rows, tx, watch>>

Older(k) == IF k < Down THEN k + 1 ELSE k

\* A period passes.
Tick ==
  /\ missing' = [o \in Observer |-> [n \in Node |-> Older(missing[o][n])]]
  /\ absent' = [o \in Observer |-> [n \in Node |-> IF missing[o][n] = Never THEN absent[o][n] ELSE Older(absent[o][n])]]
  /\ <<missing', absent'>> # <<missing, absent>>
  /\ UNCHANGED <<rows, tx, listed, judged, reported, outages>>

Candidates == {thread[t].node : t \in {u \in Thread : thread[u].state \in Live}}

\* What ReadNodes remembers of a node: found missing now, still missing, or not missing.
Missing(o, n) ==
  CASE n \notin Candidates \/ n \in listed -> Never
    [] missing[o][n] = Never -> 0
    [] OTHER -> missing[o][n]

\* One round of the loop: ReadNodes, EvaluateNode, and the marks of the nodes that are not down.
ReadNodes(o) ==
  LET down == {n \in Candidates : Missing(o, n) = Down} IN
  /\ judged[o] = {} /\ tx[o] = NoTx
  /\ missing' = [missing EXCEPT ![o] = [n \in Node |-> Missing(o, n)]]
  /\ reported' = [reported EXCEPT ![o] = @ \cap down]
  /\ judged' = [judged EXCEPT ![o] = down \ reported[o]]
  /\ absent' = [absent EXCEPT ![o] = [n \in Node |-> IF n \in Candidates \ listed THEN @[n] ELSE 0]]
  /\ UNCHANGED <<rows, tx, listed, outages>>

\* Mutant: what was found missing before the read failed is kept.
Kept(o) == missing[o]

\* An unavailable registry is not evidence, and its outage does not count.
Forgotten(o) == [n \in Node |-> Never]

ReadFails(o) ==
  /\ judged[o] = {} /\ tx[o] = NoTx /\ outages < MaxOutage
  /\ missing' = [missing EXCEPT ![o] = Forgotten(o)]
  /\ absent' = [absent EXCEPT ![o] = [n \in Node |-> 0]]
  /\ outages' = outages + 1
  /\ UNCHANGED <<rows, tx, listed, judged, reported>>

-----------------------------------------------------------------------------
(* A report.                                                               *)

Hosted(n) == {t \in Thread : thread[t].node = n /\ thread[t].state \in Live}

\* FailThreadsOnNodeLoss, up to its inserts: the rows of the node are locked, numbers drawn.
ReportNodeLoss(o, n) ==
  /\ n \in judged[o] /\ tx[o] = NoTx
  /\ \A p \in Observer : tx[p].node # n
  /\ \E number \in [Hosted(n) -> seq + 1 .. seq + Cardinality(Hosted(n))] :
       /\ \A a, b \in Hosted(n) : a # b => number[a] # number[b]
       /\ tx' = [tx EXCEPT ![o] = [node |-> n, lost |-> {[thread |-> t, seq |-> number[t]] : t \in Hosted(n)}]]
  /\ seq' = seq + Cardinality(Hosted(n))
  /\ UNCHANGED <<thread, notice, cursor, listed, watch, outages>>

\* A row was reported before, or the unique index (realm, thread_id) has its notice.
Announced(lost) == {x \in lost : \A y \in notice : y.thread # x.thread}

\* The commit; the mark is set only when the answer arrives.
CommitNodeLoss(o, answered) ==
  LET lost == tx[o].lost  n == tx[o].node IN
  /\ n # None /\ (answered \/ outages < MaxOutage)
  /\ thread' = [t \in Thread |-> IF \E x \in lost : x.thread = t THEN [thread[t] EXCEPT !.state = "failed"] ELSE thread[t]]
  /\ notice' = notice \cup Announced(lost)
  /\ tx' = [tx EXCEPT ![o] = NoTx]
  /\ reported' = [reported EXCEPT ![o] = IF answered THEN @ \cup {n} ELSE @]
  /\ judged' = [judged EXCEPT ![o] = @ \ {n}]
  /\ outages' = IF answered THEN outages ELSE outages + 1
  /\ UNCHANGED <<seq, cursor, listed, missing, absent>>

\* The service is not reached, or the transaction is rolled back: the next round tries again.
AbortNodeLoss(o, n) ==
  /\ n \in judged[o] /\ outages < MaxOutage
  /\ tx[o].node \in {None, n}
  /\ tx' = [tx EXCEPT ![o] = NoTx]
  /\ judged' = [judged EXCEPT ![o] = @ \ {n}]
  /\ outages' = outages + 1
  /\ UNCHANGED <<rows, listed, missing, reported, absent>>

\* ListNodeLossNotices: everything after the cursor.
PollNotices ==
  LET new == {x \in notice : x.seq > cursor.last} IN
  /\ new # {}
  /\ cursor' = [last |-> CHOOSE k \in {x.seq : x \in new} : \A x \in new : x.seq <= k, seen |-> cursor.seen \cup new]
  /\ UNCHANGED <<thread, notice, seq, tx, listed, watch, outages>>

-----------------------------------------------------------------------------
Next ==
  \/ \E t \in Thread, n \in Node, p \in Thread \cup {None} : CreateThread(t, n, p)
  \/ \E t \in Thread, to \in Live \cup Terminal : TransitionThread(t, to)
  \/ \E n \in Node : Register(n)
  \/ Tick \/ PollNotices
  \/ \E o \in Observer :
       \/ ReadNodes(o) \/ ReadFails(o)
       \/ \E n \in Node : ReportNodeLoss(o, n) \/ AbortNodeLoss(o, n)
       \/ \E answered \in BOOLEAN : CommitNodeLoss(o, answered)

Spec == Init /\ [][Next]_vars

-----------------------------------------------------------------------------
(* Properties.                                                             *)

\* A node is reported only after this observer found it missing throughout the grace: no read
\* failed, and no read found it, in between ("an outage must not count toward the grace", nacos.go).
LossIsEvident == \A o \in Observer : \A n \in judged[o] : absent[o][n] = Down

\* The work of a lost thread has one live successor at most, however many observers report the
\* node, answers are lost and replacements are lost in turn (threads_replacement, CreateThread).
Heirs(S) == {t \in Thread : thread[t].replaces \in S}
OneHeir ==
  \A p \in Thread : LET first == Heirs({p})  later == Heirs(first) IN
    thread[p].state # "none" =>
      Cardinality({t \in {p} \cup first \cup later \cup Heirs(later) : thread[t].state \in Live}) <= 1

\* Failing a thread for its node and telling its coordinator are one fact: a notice is about a
\* failed thread, one each, and the outcome of an ended thread is never rewritten (failThreadRow).
NoticesTellOfFailures ==
  /\ \A x \in notice : thread[x.thread].state = "failed"
  /\ \A x, y \in notice : x.thread = y.thread \/ x.seq = y.seq => x = y

\* The three together.
NodeLossHolds == LossIsEvident /\ OneHeir /\ NoticesTellOfFailures

\* "A notice that is in this table is not lost" (NodeLossNotice, ListNodeLossNotices): what a cursor
\* has passed, its reader has read.
NoNoticeIsSkipped == \A x \in notice : x.seq <= cursor.last => x \in cursor.seen
=============================================================================
