----------------------------- MODULE ControlQueue -----------------------------
(***************************************************************************)
(* The queue of control pulses of one session in one instance of           *)
(* session-control (internal/queue).  Every critical section of its mutex  *)
(* is a step; what happens between two of them -- the clock read before    *)
(* the lock is taken, the wait for a grant, a timer or a cancellation, the *)
(* grant found on giving up and returned after the lock was let go -- is   *)
(* open to the other pulses.                                               *)
(*                                                                         *)
(* A pulse goes by the correlation id its caller chose.                    *)
(***************************************************************************)
EXTENDS Naturals, Sequences

CONSTANTS
  Pulse, NoPulse,
  CorrelationOf,  \* CorrelationOf[p]: the id the request of p carries
  MaxHold,        \* a turn held longer than this can be taken over
  WaitLimit,      \* how long a pulse waits for its turn
  LastArrival,    \* bound: no pulse arrives later
  MaxClock        \* bound: the clock stops here

ASSUME QueueAssumption ==
  /\ NoPulse \notin Pulse
  /\ MaxHold \in Nat /\ WaitLimit \in Nat
  /\ LastArrival \in Nat /\ MaxClock \in Nat

VARIABLES
  clock,
  inflight,   \* the pulse in effect, or NoPulse
  startedAt,  \* when it came into effect
  waiting,    \* the waiters, first come first
  granted,    \* the waiters that were handed the turn
  pc,         \* pc[p]: where the caller p is
  now,        \* now[p]: the clock reading the call of p works with
  enqueuedAt, \* enqueuedAt[p]: since when p waits
  waited,     \* waited[p]: the wait reported to the refused p
  entered     \* history: the pulses in the order they got at the queue

queue == <<inflight, startedAt, waiting, granted>>
vars  == <<clock, queue, pc, now, enqueuedAt, waited, entered>>

\* Refused: not granted in time, told who is in the way.  Lost: granted as it
\* gave up, so that the turn was returned unused.
Places == {"idle", "arrived", "waiting", "timedOut", "cancelled", "holding",
           "returning", "done", "refused", "lost"}

Goto(p, place) == pc' = [pc EXCEPT ![p] = place]

Init ==
  /\ clock = 0
  /\ inflight = NoPulse
  /\ startedAt = 0
  /\ waiting = <<>>
  /\ granted = {}
  /\ pc = [p \in Pulse |-> "idle"]
  /\ now = [p \in Pulse |-> 0]
  /\ enqueuedAt = [p \in Pulse |-> 0]
  /\ waited = [p \in Pulse |-> 0]
  /\ entered = <<>>

\* The queue, as a value: in effect, since when, waiters, waiters granted.
Queue == [inflight |-> inflight, startedAt |-> startedAt,
          waiting |-> waiting, granted |-> granted]

\* Faulty variant: the instant the turn ends is stored as the one it began.
PromoteWithDeadline(q, t) ==
  IF q.inflight # NoPulse \/ q.waiting = <<>> THEN q
  ELSE [inflight |-> Head(q.waiting), startedAt |-> t + MaxHold, waiting |-> Tail(q.waiting),
        granted |-> q.granted \cup {Head(q.waiting)}]

\* promoteLocked: the turn, if free, goes to the first waiter.
Promote(q, t) ==
  IF q.inflight # NoPulse \/ q.waiting = <<>> THEN q
  ELSE [inflight |-> Head(q.waiting), startedAt |-> t, waiting |-> Tail(q.waiting),
        granted |-> q.granted \cup {Head(q.waiting)}]

\* Faulty variant: no turn is taken over.
NeverSwept(q, t) == q

\* sweepLocked: a turn held for longer than MaxHold at t is taken over.
Swept(q, t) ==
  IF q.inflight # NoPulse /\ t > q.startedAt + MaxHold
  THEN Promote([q EXCEPT !.inflight = NoPulse], t)
  ELSE q

\* Faulty variants: the turn is not handed on; anybody's Release clears it.
ReleasedToNobody(q, p, t) ==
  IF q.inflight = p THEN [q EXCEPT !.inflight = NoPulse] ELSE q
ReleasedByAnyone(q, p, t) == Promote([q EXCEPT !.inflight = NoPulse], t)

\* release: by whoever presents the id of the pulse in effect.
Released(q, p, t) ==
  IF q.inflight # NoPulse /\ CorrelationOf[q.inflight] = CorrelationOf[p]
  THEN Promote([q EXCEPT !.inflight = NoPulse], t)
  ELSE q

\* Faulty variant: last come, first served.
JoinedInFront(q, p) == [q EXCEPT !.waiting = <<p>> \o @]

\* A waiter joins the others.
Joined(q, p) == [q EXCEPT !.waiting = Append(@, p)]

\* The waiters w without the one at p's place, if p has one.
Unlinked(w, p) ==
  IF \E i \in DOMAIN w : w[i] = p
  THEN LET i == CHOOSE i \in DOMAIN w : w[i] = p
       IN  SubSeq(w, 1, i - 1) \o SubSeq(w, i + 1, Len(w))
  ELSE w

Update(q) ==
  /\ inflight' = q.inflight
  /\ startedAt' = q.startedAt
  /\ waiting' = q.waiting
  /\ granted' = q.granted

-----------------------------------------------------------------------------
\* Acquire, before the lock: the clock is read.
Arrive(p) ==
  /\ pc[p] = "idle" /\ clock <= LastArrival
  /\ now' = [now EXCEPT ![p] = clock]
  /\ Goto(p, "arrived")
  /\ UNCHANGED <<clock, queue, enqueuedAt, waited, entered>>

\* Acquire, under the lock: sweep, then take the turn or join the waiters.
Enter(p) ==
  /\ pc[p] = "arrived"
  /\ LET q == Swept(Queue, now[p])
     IN  IF q.inflight = NoPulse
         THEN /\ Update([q EXCEPT !.inflight = p, !.startedAt = now[p]])
              /\ Goto(p, "holding")
         ELSE /\ Update(Joined(q, p))
              /\ Goto(p, "waiting")
  /\ enqueuedAt' = [enqueuedAt EXCEPT ![p] = now[p]]
  /\ entered' = Append(entered, p)
  /\ UNCHANGED <<clock, now, waited>>

\* The select of Acquire: a grant, the timer or the caller's cancellation; of
\* those that are ready any one is taken.
Select(p, place) ==
  /\ pc[p] = "waiting"
  /\ Goto(p, place)
  /\ UNCHANGED <<clock, queue, now, enqueuedAt, waited, entered>>

\* Faulty variant: a wait without a timer.
NoTimer(p) == FALSE

Wake(p)    == p \in granted /\ Select(p, "holding")
TimeOut(p) == clock >= enqueuedAt[p] + WaitLimit /\ Select(p, "timedOut")
Cancel(p)  == Select(p, "cancelled")

\* abandon, under the lock: leave the waiters and report the wait by the clock
\* reading of the arrival, or find that the grant came first.
GivingUp(p) == pc[p] \in {"timedOut", "cancelled"}

Abandon(p) ==
  /\ GivingUp(p) /\ p \notin granted
  /\ waiting' = Unlinked(waiting, p)
  /\ waited' = [waited EXCEPT ![p] = now[p] - enqueuedAt[p]]
  /\ Goto(p, "refused")
  /\ UNCHANGED <<clock, inflight, startedAt, granted, now, enqueuedAt, entered>>

\* Faulty variant: the grant that came first is dropped.
AbandonDroppingGrant(p) ==
  /\ GivingUp(p) /\ p \in granted
  /\ Goto(p, "refused")
  /\ UNCHANGED <<clock, queue, now, enqueuedAt, waited, entered>>

AbandonGranted(p) ==
  /\ GivingUp(p) /\ p \in granted
  /\ Goto(p, "returning")
  /\ UNCHANGED <<clock, queue, now, enqueuedAt, waited, entered>>

\* Both ways of giving a turn back.  Here and in Sweep the clock is read in
\* the step itself; Arrive and Enter show what an older reading does.
Leave(p, place) ==
  /\ Update(Released(Queue, p, clock))
  /\ Goto(p, place)
  /\ UNCHANGED <<clock, now, enqueuedAt, waited, entered>>

Return(p)  == pc[p] = "returning" /\ Leave(p, "lost")
Release(p) == pc[p] = "holding" /\ Leave(p, "done")

\* The background ticker and the console's Snapshot sweep alike.
Sweep ==
  /\ Update(Swept(Queue, clock))
  /\ UNCHANGED <<clock, pc, now, enqueuedAt, waited, entered>>

Tick ==
  /\ clock < MaxClock
  /\ clock' = clock + 1
  /\ UNCHANGED <<queue, pc, now, enqueuedAt, waited, entered>>

\* What the goroutine of a call does by itself.
Call(p) ==
  \/ Enter(p) \/ Wake(p) \/ TimeOut(p) \/ Abandon(p) \/ AbandonGranted(p) \/ Return(p)

Next ==
  \/ \E p \in Pulse : Arrive(p) \/ Call(p) \/ Cancel(p) \/ Release(p)
  \/ Sweep \/ Tick

Spec == Init /\ [][Next]_vars

\* A call that has begun goes on, time passes and the ticker runs.  Nothing is
\* assumed of a holder: it may never release.
FairSpec ==
  Spec /\ WF_vars(Tick) /\ WF_vars(Sweep) /\ \A p \in Pulse : WF_vars(Call(p))

-----------------------------------------------------------------------------
(* Properties *)

\* Every variable has its type.
TypeOK ==
  /\ clock \in 0..MaxClock
  /\ inflight \in Pulse \cup {NoPulse}
  /\ startedAt \in 0..clock
  /\ waiting \in Seq(Pulse)
  /\ granted \subseteq Pulse
  /\ pc \in [Pulse -> Places]
  /\ now \in [Pulse -> 0..clock]
  /\ enqueuedAt \in [Pulse -> 0..clock]
  /\ waited \in [Pulse -> Nat]
  /\ entered \in Seq(Pulse)

\* p was handed the turn and still acts on it: it will give it back.
ActsOnGrant(p) ==
  \/ pc[p] \in {"holding", "returning"}
  \/ p \in granted /\ (pc[p] = "waiting" \/ GivingUp(p))

\* The turn always belongs to a call that is still going to give it back; a
\* grant that crosses a time-out is not left with a caller gone home.
TurnIsCared == inflight # NoPulse => ActsOnGrant(inflight)

\* The turn is never free while somebody waits for it, whoever left it and how.
NoFreeTurnWhileWaiting == waiting # <<>> => inflight # NoPulse

\* What holds of the queue after every step.
QueueIsSound == TypeOK /\ TurnIsCared /\ NoFreeTurnWhileWaiting

\* p had the turn, and p gave up without it.
Served(p) == p \in granted \/ pc[p] \in {"holding", "done"}
GaveUp(p) == GivingUp(p) \/ pc[p] = "refused"

\* First come, first served: a pulse that got at the queue earlier is served
\* earlier, unless it gave up.
FirstComeFirstServed ==
  \A j \in DOMAIN entered : \A i \in 1..(j - 1) :
    Served(entered[j]) => Served(entered[i]) \/ GaveUp(entered[i])

\* How a pulse stands to the turn: before it, acting on it, or gone home.
Status == [p \in Pulse |-> IF ActsOnGrant(p) THEN "in"
                          ELSE IF pc[p] \in {"done", "refused", "lost"} THEN "gone"
                          ELSE "out"]

\* The queue implements the lock it promises to be, provided that no two
\* pulses present the same correlation id.
Lock == INSTANCE PulseLock WITH owner <- inflight, since <- startedAt, status <- Status
LockSpec == Lock!Spec

\* Every call returns, whatever the holder of the turn does.
EveryCallReturns ==
  \A p \in Pulse : pc[p] = "arrived" ~> pc[p] \in {"holding", "done", "refused", "lost"}

\* A turn is not held for ever, even by a pulse that never gives it back (as
\* far as the bounded clock can tell).
NoTurnForEver ==
  \A p \in Pulse : inflight = p /\ startedAt + MaxHold < MaxClock ~> inflight # p

-----------------------------------------------------------------------------
(* Small instances.                                                        *)

\* Ids as the server makes them: one per request.
UniqueIds == [p \in Pulse |-> p]
===============================================================================
