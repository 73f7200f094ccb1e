----------------------------- MODULE SessionLog -----------------------------
(* The replicated log of one agent session.  The node that runs the session   *)
(* copies its events, in their order, into PostgreSQL, under a writer's lease *)
(* with a fencing token; another node resumes the session from the log.       *)
(* Every node has one queue of writes for the session; a write is three       *)
(* statements, with anything in between: the lease (or the token remembered), *)
(* the head, the record.  An event is told apart by its position and by the   *)
(* incarnation of the session that produced it.                               *)
EXTENDS Naturals, Sequences, SequencesExt

CONSTANTS
    Node,           \* nodes; a process that starts again is another node
    MaxSeq,         \* bound: events of the session
    MaxIncarnation, \* bound: times the session is created or resumed
    MaxFailure,     \* bound: statements that fail or lose their answers
    MaxLate,        \* bound: leases that run out while somebody runs the session
    None

VARIABLES
    lease,    \* session_writer_lease: [holder, token, state], or None
    log,      \* session_log: per position a record [event, token, by], or None
    head,     \* session_log_heads: seq
    session,  \* per node: [tag, events, seen, observed, stage], or None
    tail,     \* per node: tails, the writes still to be done; the first is under way
    write,    \* per node: the write under way [at, seq, token]
    token,    \* per node: tokens, or None
    fenced,   \* the nodes that have stopped
    renewal,  \* per node: the renewal under way [at, token], 0 without the lease, or None
    up,       \* the nodes that run
    past      \* [tag, failures, late], and smooth: nothing failed, no lease ran out and nobody resumed the session while
              \* somebody ran it

logVars == <<lease, log, head, session, tail, write, token, fenced, renewal, up, past>>

Idle == [at |-> "idle", seq |-> 0, token |-> 0]
Live(n) == session[n] # None /\ session[n].stage = "live"
Events(n) == session[n].events
Position == 1 .. MaxSeq

SessionLogInit ==
    /\ lease = None /\ head = 0
    /\ log = [s \in Position |-> None]
    /\ session = [n \in Node |-> None]
    /\ tail = [n \in Node |-> <<>>] /\ write = [n \in Node |-> Idle]
    /\ token = [n \in Node |-> None] /\ fenced = {}
    /\ renewal = [n \in Node |-> None] /\ up = Node
    /\ past = [tag |-> 0, failures |-> 0, late |-> 0, smooth |-> TRUE]

-----------------------------------------------------------------------------
(* The session and what is queued for it.                                    *)

Backfill(n, k) == [kind |-> "backfill", seq |-> k]
Queued(n, tasks) == tail' = [tail EXCEPT ![n] = @ \o tasks]

\* session/created: the events there are, unless this node has stopped
Begin(n, events, smooth) ==
    /\ n \in up /\ session[n] = None /\ tail[n] = <<>>
    /\ past.tag < MaxIncarnation /\ Len(events) <= MaxSeq
    /\ past' = [past EXCEPT !.tag = @ + 1, !.smooth = @ /\ smooth]
    /\ session' = [session EXCEPT ![n] = [tag |-> past.tag + 1, events |-> events, seen |-> FALSE,
                                          observed |-> IF n \in fenced THEN 0 ELSE Len(events), stage |-> "live"]]
    /\ IF n \in fenced THEN UNCHANGED tail ELSE Queued(n, <<Backfill(n, Len(events))>>)

Create(n) ==
    /\ past.tag = 0
    /\ Begin(n, <<1>>, TRUE)
    /\ UNCHANGED <<lease, log, head, write, token, fenced, renewal, up>>

\* restoreSession refuses a log with a gap; dsh adds a mark to what it adopts
Stored == {s \in Position : log[s] # None}
Restore(n) ==
    /\ Stored # {} /\ \A s \in Stored : \A r \in 1 .. s : r \in Stored
    /\ \E k \in Position :
         /\ Stored = 1 .. k
         /\ Begin(n, [s \in 1 .. k + 1 |-> IF s <= k THEN log[s].event ELSE past.tag + 1],
                  \A m \in up : session[m] = None)
    /\ UNCHANGED <<lease, log, head, write, token, fenced, renewal, up>>

Grown(n) == Append(Events(n), session[n].tag)

\* an event of the construction, which nobody is told of
Construct(n) ==
    /\ Live(n) /\ ~session[n].seen /\ n \notin fenced /\ Len(Events(n)) < MaxSeq
    /\ session' = [session EXCEPT ![n].events = Grown(n)]
    /\ UNCHANGED <<lease, log, head, tail, write, token, fenced, renewal, up, past>>

\* Mutant: the first event does not bring those before it along.
NoSight(n, k) == <<>>

\* on the first event the whole of the events is queued once more
Sight(n, k) == IF session[n].seen THEN <<>> ELSE <<Backfill(n, k)>>
\* session/event; what a node does that has stopped is not written
Emit(n) ==
    /\ Live(n) /\ n \notin fenced /\ Len(Events(n)) < MaxSeq
    /\ LET k == Len(Events(n)) + 1 IN
         /\ session' = [session EXCEPT ![n].events = Grown(n), ![n].seen = TRUE, ![n].observed = k]
         /\ Queued(n, Sight(n, k) \o <<[kind |-> "event", seq |-> k]>>)
    /\ UNCHANGED <<lease, log, head, write, token, fenced, renewal, up, past>>

-----------------------------------------------------------------------------
(* The lease.                                                                *)

\* Mutant: whoever takes over goes on with the token there is.
Succeeding(n) == IF lease = None THEN 1 ELSE lease.token
TokenFor(n) == IF lease = None THEN 1 ELSE IF lease.holder = n THEN lease.token ELSE lease.token + 1
Obtains(n) == lease = None \/ lease.holder = n \/ lease.state # "live"
\* acquire: one statement that makes, renews or takes over the lease
Acquired(n) == lease' = [holder |-> n, token |-> TokenFor(n), state |-> "live"]

Fence(n) == fenced' = fenced \cup {n} /\ token' = [token EXCEPT ![n] = None]
Going == UNCHANGED <<fenced, token>>

\* expires_at passes, by the clock of the database
Expire ==
    /\ lease # None /\ lease.state = "live"
    /\ lease' = [lease EXCEPT !.state = "late"]
    /\ IF \E n \in up : session[n] # None
       THEN /\ past.late < MaxLate
            /\ past' = [past EXCEPT !.late = @ + 1, !.smooth = FALSE]
       ELSE UNCHANGED past
    /\ UNCHANGED <<log, head, session, tail, write, token, fenced, renewal, up>>

\* the timer: for every token a renewal, not waited for
Renew(n) ==
    /\ n \in up /\ token[n] # None /\ renewal[n] = None
    /\ renewal' = [renewal EXCEPT ![n] = [at |-> "sent", token |-> 0]]
    /\ UNCHANGED <<lease, log, head, session, tail, write, token, fenced, up, past>>

Renewing(n, at) == renewal[n] # None /\ renewal[n].at = at
Got(n, t) == renewal' = [renewal EXCEPT ![n] = [at |-> "answered", token |-> t]]

RenewRuns(n) ==
    /\ n \in up /\ Renewing(n, "sent")
    /\ IF Obtains(n) THEN Acquired(n) /\ Got(n, TokenFor(n)) ELSE UNCHANGED lease /\ Got(n, 0)
    /\ UNCHANGED <<log, head, session, tail, write, token, fenced, up, past>>

\* Mutant: a token that has changed is taken for the new one.
IsMineAnyway(n) == renewal[n].token # 0

\* a token that has changed means that another node had the lease
IsMine(n) == token[n] # None /\ renewal[n].token = token[n]
RenewAnswered(n) ==
    /\ n \in up /\ Renewing(n, "answered")
    /\ IF IsMine(n) THEN Going ELSE Fence(n)
    /\ renewal' = [renewal EXCEPT ![n] = None]
    /\ UNCHANGED <<lease, log, head, session, tail, write, up, past>>

Failing == past.failures < MaxFailure /\ past' = [past EXCEPT !.failures = @ + 1, !.smooth = FALSE]

\* an error is only logged
RenewFails(n) ==
    /\ n \in up /\ renewal[n] # None /\ Failing
    /\ renewal' = [renewal EXCEPT ![n] = None]
    /\ UNCHANGED <<lease, log, head, session, tail, write, token, fenced, up>>

-----------------------------------------------------------------------------
(* One write after another.                                                  *)

Task(n) == Head(tail[n])
IsEvent(n) == Task(n).kind = "event"
Ended(n) == tail' = [tail EXCEPT ![n] = Tail(@)] /\ write' = [write EXCEPT ![n] = Idle]
At(n, at, seq, t) == write' = [write EXCEPT ![n] = [at |-> at, seq |-> seq, token |-> t]] /\ UNCHANGED tail
First(n) == IF IsEvent(n) THEN Task(n).seq ELSE 1

\* the next write, with the token there is; behind a promise that was rejected an event is left out
Start(n) ==
    /\ n \in up /\ tail[n] # <<>> /\ write[n].at \in {"idle", "rejected"}
    /\ IF write[n].at = "rejected" /\ IsEvent(n) THEN tail' = [tail EXCEPT ![n] = Tail(@)] /\ UNCHANGED write
       ELSE IF n \in fenced THEN Ended(n)
       ELSE IF token[n] # None THEN At(n, "head", First(n), token[n]) ELSE At(n, "lease", First(n), 0)
    /\ UNCHANGED <<lease, log, head, session, token, fenced, renewal, up, past>>

\* ensureToken; without the lease a backfill is left out, an event makes the node stop
EnsureToken(n) ==
    /\ n \in up /\ write[n].at = "lease"
    /\ IF Obtains(n)
       THEN /\ Acquired(n)
            /\ token' = [token EXCEPT ![n] = TokenFor(n)]
            /\ At(n, "head", write[n].seq, TokenFor(n))
            /\ UNCHANGED fenced
       ELSE Ended(n) /\ UNCHANGED lease /\ IF IsEvent(n) THEN Fence(n) ELSE Going
    /\ UNCHANGED <<log, head, session, renewal, up, past>>

\* FencedOutError and LogForkError: an event makes the node stop, a backfill is given up
Refused(n) == Ended(n) /\ IF IsEvent(n) THEN Fence(n) ELSE Going

Largest(a, b) == IF a > b THEN a ELSE b
Observed(n) == IF session[n] = None \/ session[n].observed = 0 THEN write[n].seq ELSE session[n].observed
\* Mutant: the head is that of the record.
RecordOnly(n) == head
Announced(n) == Largest(head, Observed(n))
\* publishHead: under the lease only, before the record
PublishHead(n) ==
    /\ n \in up /\ write[n].at = "head"
    /\ IF lease.token = write[n].token /\ lease.state = "live"
       THEN head' = Announced(n) /\ At(n, "record", write[n].seq, write[n].token) /\ Going
       ELSE Refused(n) /\ UNCHANGED head
    /\ UNCHANGED <<lease, log, session, renewal, up, past>>

Proceed(n) ==
    IF IsEvent(n) \/ write[n].seq = Task(n).seq THEN Ended(n) ELSE At(n, "head", write[n].seq + 1, write[n].token)

\* Mutant: it is enough that the lease has not run out.
MayWriteAnyway(n) == lease.state = "live"

\* the token decides; a lease that has run out is refused by the clock of the node, which may be behind
MayWrite(n) == lease.token = write[n].token /\ lease.state # "given"
MustWrite(n) == MayWrite(n) /\ lease.state = "live"

\* what the queue still knows of the session that queued it
Event(n, s) == Events(n)[s]
Store(n) ==
    LET s == write[n].seq IN
      IF log[s] = None
      THEN log' = [log EXCEPT ![s] = [event |-> Event(n, s), token |-> write[n].token, by |-> n]] /\ Proceed(n) /\ Going
      ELSE UNCHANGED log /\ IF log[s].event = Event(n, s) THEN Proceed(n) /\ Going ELSE Refused(n)

\* append: a transaction that locks the lease
AppendRecord(n) ==
    /\ n \in up /\ write[n].at = "record"
    /\ \/ MayWrite(n) /\ Store(n)
       \/ ~MustWrite(n) /\ Refused(n) /\ UNCHANGED log
    /\ UNCHANGED <<lease, head, session, renewal, up, past>>

\* a statement fails: logged, and the next; an event that could not ask for the lease breaks the chain of promises, until a
\* backfill mends it
WriteFails(n) ==
    /\ n \in up /\ write[n].at \in {"lease", "head", "record"} /\ Failing
    /\ IF write[n].at = "lease" /\ IsEvent(n)
       THEN tail' = [tail EXCEPT ![n] = Tail(@)] /\ write' = [write EXCEPT ![n] = [Idle EXCEPT !.at = "rejected"]]
       ELSE IF write[n].at = "lease" THEN Ended(n) ELSE Proceed(n)
    /\ UNCHANGED <<lease, log, head, session, token, fenced, renewal, up>>

-----------------------------------------------------------------------------
(* The end of the session on a node.                                         *)

Dispose(n) ==
    /\ n \in up /\ Live(n)
    /\ session' = [session EXCEPT ![n].stage = "draining"]
    /\ UNCHANGED <<lease, log, head, tail, write, token, fenced, renewal, up, past>>

\* Mutant: the lease is given back before the last events are written.
DrainedAnyway(n) == TRUE

\* the writes queued come first
Drained(n) == tail[n] = <<>>
\* release: the row stays, and with it the token; it is left out behind a promise that was rejected
Release(n) ==
    /\ n \in up /\ session[n] # None /\ session[n].stage = "draining" /\ Drained(n) /\ write[n].at # "rejected"
    /\ lease' = IF lease # None /\ lease.holder = n THEN [lease EXCEPT !.state = "given"] ELSE lease
    /\ session' = [session EXCEPT ![n].stage = "released"]
    /\ UNCHANGED <<log, head, tail, write, token, fenced, renewal, up, past>>

\* ... and everything remembered of the session goes, the failure of the release notwithstanding
Forget(n) ==
    /\ n \in up /\ session[n] # None /\ tail[n] = <<>>
    /\ \/ session[n].stage = "released" /\ UNCHANGED past
       \/ session[n].stage = "draining" /\ write[n].at = "rejected" /\ UNCHANGED past
       \/ session[n].stage = "draining" /\ write[n].at # "rejected" /\ Failing
    /\ session' = [session EXCEPT ![n] = None] /\ write' = [write EXCEPT ![n] = Idle]
    /\ token' = [token EXCEPT ![n] = None] /\ fenced' = fenced \ {n}
    /\ UNCHANGED <<lease, log, head, tail, renewal, up>>

\* the process ends, in order or not: nothing is released
Crash(n) ==
    /\ n \in up
    /\ up' = up \ {n}
    /\ session' = [session EXCEPT ![n] = None]
    /\ tail' = [tail EXCEPT ![n] = <<>>] /\ write' = [write EXCEPT ![n] = Idle]
    /\ token' = [token EXCEPT ![n] = None] /\ fenced' = fenced \ {n} /\ renewal' = [renewal EXCEPT ![n] = None]
    /\ UNCHANGED <<lease, log, head, past>>

Write(n) == Start(n) \/ EnsureToken(n) \/ PublishHead(n) \/ AppendRecord(n)
Leave(n) == Release(n) \/ Forget(n)
Renewal(n) == Renew(n) \/ RenewRuns(n) \/ RenewAnswered(n)

SessionLogNext ==
    \/ Expire
    \/ \E n \in Node :
         \/ Create(n) \/ Restore(n) \/ Construct(n) \/ Emit(n) \/ Dispose(n) \/ Crash(n)
         \/ Write(n) \/ WriteFails(n) \/ Leave(n) \/ Renewal(n) \/ RenewFails(n)

SessionLogSpec == SessionLogInit /\ [][SessionLogNext]_logVars

-----------------------------------------------------------------------------
(* Properties.                                                               *)

\* A token belongs to one holder, whoever wrote under the newest one holds the lease, and the head is announced before
\* the record: what makes the token in append enough to keep two writers apart (acquire, release, publishHead).
TokensTellWritersApart ==
    \A s \in Stored :
      /\ log[s].token <= lease.token /\ head >= s
      /\ log[s].token = lease.token => log[s].by = lease.holder
      /\ \A r \in Stored : log[r].token = log[s].token => log[r].by = log[s].by

\* A lease is given back when what was queued under it is written: the next writer starts behind the last event
\* (session/disposed).
GivenIsDone ==
    lease # None /\ lease.state = "given" => token[lease.holder] = None \/ tail[lease.holder] = <<>>

\* As long as nothing fails, no lease runs out under a running session and nobody resumes a session that still runs, the
\* log has no gap and is the history of whoever runs the session: through crashes, hand-overs, renewals that come late,
\* events of the construction that nobody is told of and the copies of what was written before (queueBackfill).
SmoothIsOneHistory ==
    past.smooth =>
      \A s \in Stored :
        /\ 1 .. s \subseteq Stored
        /\ \A n \in Node : session[n] # None /\ s <= Len(Events(n)) => log[s].event = Events(n)[s]

SessionLogHolds == TokensTellWritersApart /\ GivenIsDone /\ SmoothIsOneHistory

\* A record, once written, stays, and is written by the holder of a lease that was not given back (append, FencedOutError).
WritersHoldTheLease ==
    \A s \in Position :
      log'[s] # log[s] => log[s] = None /\ lease.holder = log'[s].by /\ lease.state # "given"

\* Nothing is left to write, and whoever lost the lease knows it: the node where another one runs the session stops.
Settled ==
    \A n \in up :
      /\ tail[n] = <<>>
      /\ token[n] # None => lease.holder = n /\ lease.token = token[n]

\* Stated and not kept: a log without gap. A backfill that finds the lease taken is left out, and when the lease has run out
\* before the event behind it is written, that event is written alone.
LogHasNoGap == \A s \in Stored : 1 .. s \subseteq Stored

\* Stated and not kept: whoever has stopped has lost the lease, or another wrote what it would write. A renewal that is
\* answered when the session is gone makes the node stop for the next time it runs the session.
StoppedHasReason ==
    \A n \in fenced : past.smooth => lease.holder # n
=============================================================================
