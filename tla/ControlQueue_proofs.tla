--------------------------- MODULE ControlQueue_proofs -------------------------
(***************************************************************************)
(* Proofs about ControlQueue, for any pulses, limits and clock.            *)
(***************************************************************************)
EXTENDS ControlQueue, SequenceTheorems, TLAPS

-----------------------------------------------------------------------------
(* The inductive invariant *)

\* p is on its way to or from the select and nobody handed it the turn.
Hoping(p) == (pc[p] = "waiting" \/ GivingUp(p)) /\ p \notin granted

\* A call that got at the queue works with the clock reading it entered with.
EnteredOnTime ==
  \A p \in Pulse : pc[p] \notin {"idle", "arrived"} => enqueuedAt[p] = now[p]

\* The waiters are exactly the calls that still hope, each of them once.
WaitersHope == \A i \in DOMAIN waiting : Hoping(waiting[i])
HopefulWait == \A p \in Pulse : Hoping(p) => \E i \in DOMAIN waiting : waiting[i] = p
WaitOnce == \A i, j \in DOMAIN waiting : waiting[i] = waiting[j] => i = j

\* A grant is remembered, and it was given to a call that waited.
GrantedBefore ==
  \A p \in Pulse : /\ pc[p] \in {"returning", "lost"} => p \in granted
                   /\ p \in granted => pc[p] \notin {"idle", "arrived", "refused"}

\* The history holds the calls that got at the queue, each of them once, and
\* the waiters stand in its order.
HistoryIsTold ==
  /\ \A p \in Pulse : pc[p] \notin {"idle", "arrived"} => \E k \in DOMAIN entered : entered[k] = p
  /\ \A k \in DOMAIN entered : pc[entered[k]] \notin {"idle", "arrived"}
EnterOnce == \A k, l \in DOMAIN entered : entered[k] = entered[l] => k = l
WaitInOrder ==
  \A i, j \in DOMAIN waiting : \A k, l \in DOMAIN entered :
    i < j /\ entered[k] = waiting[i] /\ entered[l] = waiting[j] => k < l

IInv ==
  /\ QueueIsSound
  /\ EnteredOnTime
  /\ WaitersHope /\ HopefulWait /\ WaitOnce
  /\ GrantedBefore
  /\ HistoryIsTold /\ EnterOnce /\ WaitInOrder
  /\ FirstComeFirstServed

LEMMA InitIInv == Init => IInv
<1>. SUFFICES ASSUME Init PROVE IInv
  OBVIOUS
<1>1. TypeOK
  BY QueueAssumption DEF Init, TypeOK, Places
<1>2. DOMAIN waiting = {} /\ DOMAIN entered = {}
  BY DEF Init
<1>3. \A p \in Pulse : pc[p] = "idle"
  BY DEF Init
<1>. QED
  BY <1>1, <1>2, <1>3
  DEF Init, IInv, QueueIsSound, TurnIsCared, NoFreeTurnWhileWaiting, EnteredOnTime, WaitersHope,
      HopefulWait, WaitOnce, GrantedBefore, HistoryIsTold, EnterOnce, WaitInOrder,
      FirstComeFirstServed, Hoping, GivingUp

-----------------------------------------------------------------------------
(* The operations on the queue *)

LEMMA AppendPulse ==
  ASSUME NEW s \in Seq(Pulse), NEW p \in Pulse
  PROVE  /\ Append(s, p) \in Seq(Pulse) /\ Len(Append(s, p)) = Len(s) + 1
         /\ \A k \in 1..Len(s) : Append(s, p)[k] = s[k]
         /\ Append(s, p)[Len(s) + 1] = p
BY AppendProperties

LEMMA ConcatPulse ==
  ASSUME NEW s \in Seq(Pulse), NEW t \in Seq(Pulse)
  PROVE  /\ s \o t \in Seq(Pulse) /\ Len(s \o t) = Len(s) + Len(t)
         /\ \A j \in 1..Len(s) + Len(t) : (s \o t)[j] = IF j <= Len(s) THEN s[j] ELSE t[j - Len(s)]
BY ConcatProperties

\* The waiters without the i-th of them.
LEMMA UnlinkedProperties ==
  ASSUME NEW w \in Seq(Pulse), NEW i \in 1..Len(w), \A j \in 1..Len(w) : w[j] = w[i] => j = i
  PROVE  /\ Unlinked(w, w[i]) \in Seq(Pulse)
         /\ Len(Unlinked(w, w[i])) = Len(w) - 1
         /\ \A j \in 1..Len(w) - 1 : Unlinked(w, w[i])[j] = IF j < i THEN w[j] ELSE w[j + 1]
<1>0. i \in DOMAIN w /\ \E j \in DOMAIN w : w[j] = w[i]
  OBVIOUS
<1>1. Unlinked(w, w[i]) = SubSeq(w, 1, i - 1) \o SubSeq(w, i + 1, Len(w))
  <2>1. PICK c : c = CHOOSE j \in DOMAIN w : w[j] = w[i]
    OBVIOUS
  <2>2. c = i
    BY <1>0, <2>1
  <2>. QED BY <1>0, <2>1, <2>2 DEF Unlinked
<1>. DEFINE a == SubSeq(w, 1, i - 1)
            b == SubSeq(w, i + 1, Len(w))
<1>2. a \in Seq(Pulse) /\ Len(a) = i - 1 /\ \A j \in 1..(i - 1) : a[j] = w[j]
  OBVIOUS
<1>3. b \in Seq(Pulse) /\ Len(b) = Len(w) - i /\ \A j \in 1..(Len(w) - i) : b[j] = w[j + i]
  OBVIOUS
<1>. HIDE DEF a, b
<1>4. /\ a \o b \in Seq(Pulse) /\ Len(a \o b) = Len(w) - 1
      /\ \A j \in 1..Len(w) - 1 : (a \o b)[j] = IF j <= i - 1 THEN a[j] ELSE b[j - (i - 1)]
  <2>1. /\ a \o b \in Seq(Pulse) /\ Len(a \o b) = Len(a) + Len(b)
        /\ \A j \in 1..Len(a) + Len(b) : (a \o b)[j] = IF j <= Len(a) THEN a[j] ELSE b[j - Len(a)]
    BY <1>2, <1>3, ConcatPulse
  <2>2. Len(a) + Len(b) = Len(w) - 1
    BY <1>2, <1>3
  <2>. QED BY <1>2, <2>1, <2>2
<1>5. \A j \in 1..Len(w) - 1 : (a \o b)[j] = IF j < i THEN w[j] ELSE w[j + 1]
  <2>. SUFFICES ASSUME NEW j \in 1..Len(w) - 1
                PROVE  (a \o b)[j] = IF j < i THEN w[j] ELSE w[j + 1]
    OBVIOUS
  <2>1. CASE j < i
    BY <1>2, <1>4, <2>1
  <2>2. CASE ~(j < i)
    <3>1. j - (i - 1) \in 1..(Len(w) - i) /\ j - (i - 1) + i = j + 1
      BY <2>2
    <3>. QED BY <1>3, <1>4, <2>2, <3>1
  <2>. QED BY <2>1, <2>2
<1>. QED BY <1>1, <1>4, <1>5 DEF a, b

\* What taking the turn from its owner comes to: nobody waits and the turn is
\* free, or the first waiter has it.
Vacated(q) == waiting = <<>> /\ q = [Queue EXCEPT !.inflight = NoPulse]
HandedOn(q, t) ==
  /\ waiting # <<>>
  /\ q = [inflight |-> Head(waiting), startedAt |-> t, waiting |-> Tail(waiting),
          granted |-> granted \cup {Head(waiting)}]

LEMMA PromoteMoves ==
  ASSUME NEW t
  PROVE  LET q == Promote([Queue EXCEPT !.inflight = NoPulse], t) IN Vacated(q) \/ HandedOn(q, t)
BY DEF Promote, Queue, Vacated, HandedOn

LEMMA SweptMoves ==
  ASSUME NEW t
  PROVE  \/ Swept(Queue, t) = Queue /\ ~(inflight # NoPulse /\ t > startedAt + MaxHold)
         \/ /\ inflight # NoPulse /\ t > startedAt + MaxHold
            /\ Vacated(Swept(Queue, t)) \/ HandedOn(Swept(Queue, t), t)
BY PromoteMoves DEF Swept, Queue

LEMMA ReleasedMoves ==
  ASSUME NEW p, NEW t
  PROVE  \/ Released(Queue, p, t) = Queue /\ inflight # p
         \/ /\ inflight # NoPulse /\ CorrelationOf[inflight] = CorrelationOf[p]
            /\ Vacated(Released(Queue, p, t)) \/ HandedOn(Released(Queue, p, t), t)
         \/ Released(Queue, p, t) = Queue /\ p = NoPulse
BY PromoteMoves DEF Released, Queue

-----------------------------------------------------------------------------
(* The line of waiters *)

\* The first d waiters (none or one) are handed the turn and, if a = 1, p joins.
LineMoves(d, a, p) ==
  /\ d \in {0, 1} /\ a \in {0, 1} /\ d <= Len(waiting)
  /\ waiting' \in Seq(Pulse) /\ Len(waiting') = Len(waiting) - d + a
  /\ \A i \in 1..(Len(waiting) - d) : waiting'[i] = waiting[i + d]
  /\ a = 1 => waiting'[Len(waiting')] = p
  /\ granted' = IF d = 1 THEN granted \cup {waiting[1]} ELSE granted

\* What becomes of the callers meanwhile: p joins, or p is not about to get the
\* turn, or it enters and takes it at once.
CallersMove(a, p) ==
  /\ \A x \in Pulse : x # p => pc'[x] = pc[x]
  /\ a = 1 => /\ p \in Pulse /\ pc[p] = "arrived" /\ pc'[p] = "waiting"
              /\ entered' = Append(entered, p)
  /\ a = 0 => /\ p \in Pulse => /\ pc[p] \notin {"waiting", "timedOut", "cancelled"}
                                /\ pc'[p] \notin {"waiting", "timedOut", "cancelled"}
              /\ \/ entered' = entered
                 \/ p \in Pulse /\ pc[p] = "arrived" /\ waiting = <<>> /\ entered' = Append(entered, p)

\* The waiters stay those who hope, each of them once and in the order in which
\* they got at the queue.
LEMMA LineIsKept ==
  ASSUME IInv, NEW d, NEW a, NEW p, LineMoves(d, a, p), CallersMove(a, p)
  PROVE  (WaitersHope /\ HopefulWait /\ WaitOnce /\ WaitInOrder)'
<1>. DEFINE n == Len(waiting)
<1>1. /\ waiting \in Seq(Pulse) /\ n \in Nat /\ DOMAIN waiting = 1..n
      /\ DOMAIN waiting' = 1..(n - d + a)
      /\ \A i \in 1..n : waiting[i] \in Pulse
      /\ entered \in Seq(Pulse) /\ DOMAIN entered = 1..Len(entered) /\ Len(entered) \in Nat
      /\ pc \in [Pulse -> Places] /\ granted \subseteq Pulse
  <2>1. waiting \in Seq(Pulse) /\ entered \in Seq(Pulse) /\ pc \in [Pulse -> Places] /\ granted \subseteq Pulse
    BY DEF IInv, QueueIsSound, TypeOK
  <2>2. /\ n \in Nat /\ DOMAIN waiting = 1..n /\ (\A i \in 1..n : waiting[i] \in Pulse)
        /\ DOMAIN entered = 1..Len(entered) /\ Len(entered) \in Nat
    BY <2>1, ElementOfSeq
  <2>3. waiting' \in Seq(Pulse) /\ Len(waiting') = n - d + a
    BY DEF LineMoves
  <2>4. DOMAIN waiting' = 1..(n - d + a)
    BY <2>3
  <2>. QED BY <2>1, <2>2, <2>4
<1>2. /\ \A i \in 1..n : Hoping(waiting[i])
      /\ \A i, j \in 1..n : waiting[i] = waiting[j] => i = j
  BY <1>1 DEF IInv, WaitersHope, WaitOnce
<1>3. \A i \in 1..(n - d) : waiting'[i] = waiting[i + d] /\ i + d \in 1..n
  BY <1>1 DEF LineMoves
<1>4. \A i \in 1..n : waiting[i] # p
  BY <1>1, <1>2 DEF CallersMove, LineMoves, Hoping, GivingUp
<1>5. ASSUME a = 1
      PROVE  /\ p \in Pulse /\ p \notin granted /\ ~Hoping(p)
             /\ n - d + a = n - d + 1
             /\ waiting'[n - d + 1] = p
  BY <1>1, <1>4, <1>5 DEF IInv, GrantedBefore, CallersMove, LineMoves, Hoping, GivingUp
<1>6. ASSUME NEW i \in 1..(n - d + a)
      PROVE  \/ i \in 1..(n - d) /\ waiting'[i] = waiting[i + d] /\ i + d \in 1..n
             \/ a = 1 /\ i = n - d + 1 /\ waiting'[i] = p
  BY <1>1, <1>3, <1>5 DEF LineMoves
<1>7. \A i \in 1..(n - d) : waiting[i + d] \notin granted'
  BY <1>1, <1>2, <1>3 DEF LineMoves, Hoping
<1>8. WaitersHope'
  <2>. SUFFICES ASSUME NEW i \in DOMAIN waiting' PROVE Hoping(waiting[i])'
    BY DEF WaitersHope
  <2>1. CASE i \in 1..(n - d) /\ waiting'[i] = waiting[i + d] /\ i + d \in 1..n
    BY <1>1, <1>2, <1>4, <1>7, <2>1 DEF Hoping, GivingUp, CallersMove
  <2>2. CASE a = 1 /\ i = n - d + 1 /\ waiting'[i] = p
    <3>1. p \notin granted'
      BY <1>1, <1>4, <1>5, <2>2 DEF LineMoves
    <3>. QED BY <2>2, <3>1 DEF Hoping, CallersMove
  <2>. QED BY <1>1, <1>6, <2>1, <2>2
<1>9. HopefulWait'
  <2>. SUFFICES ASSUME NEW x \in Pulse, Hoping(x)'
                PROVE  \E i \in DOMAIN waiting' : waiting'[i] = x
    BY DEF HopefulWait
  <2>1. CASE x = p
    <3>1. a = 1
      BY <2>1 DEF CallersMove, LineMoves, Hoping, GivingUp
    <3>. QED BY <1>1, <1>5, <2>1, <3>1 DEF LineMoves
  <2>2. CASE x # p
    <3>1. Hoping(x)
      BY <2>2 DEF CallersMove, LineMoves, Hoping, GivingUp
    <3>2. PICK i \in 1..n : waiting[i] = x
      BY <1>1, <3>1 DEF IInv, HopefulWait
    <3>3. ~(d = 1 /\ i = 1)
      BY <1>1, <3>2 DEF LineMoves, Hoping
    <3>4. i - d \in 1..(n - d) /\ i - d + d = i /\ i - d \in 1..(n - d + a)
      BY <1>1, <3>3 DEF LineMoves
    <3>. QED BY <1>1, <1>3, <3>2, <3>4
  <2>. QED BY <2>1, <2>2
<1>10. WaitOnce'
  <2>. SUFFICES ASSUME NEW i \in 1..(n - d + a), NEW j \in 1..(n - d + a), waiting'[i] = waiting'[j]
                PROVE  i = j
    BY <1>1 DEF WaitOnce
  <2>1. CASE i \in 1..(n - d) /\ j \in 1..(n - d)
    <3>1. i + d = j + d
      BY <1>2, <1>3, <2>1
    <3>. QED BY <1>1, <3>1 DEF LineMoves
  <2>. QED BY <1>3, <1>4, <1>6, <2>1
<1>11. WaitInOrder'
  <2>. SUFFICES ASSUME NEW i \in 1..(n - d + a), NEW j \in 1..(n - d + a), i < j,
                       NEW k \in DOMAIN entered', NEW l \in DOMAIN entered',
                       entered'[k] = waiting'[i], entered'[l] = waiting'[j]
                PROVE  k < l
    BY <1>1 DEF WaitInOrder
  <2>1. i \in 1..(n - d) /\ waiting'[i] = waiting[i + d] /\ i + d \in 1..n
    BY <1>1, <1>3, <1>6 DEF LineMoves
  <2>2. \/ entered' = entered
        \/ p \in Pulse /\ entered' = Append(entered, p)
    BY DEF CallersMove, LineMoves
  <2>3. k \in DOMAIN entered /\ entered[k] = waiting[i + d]
    BY <1>1, <1>4, <2>1, <2>2
  <2>4. CASE j \in 1..(n - d) /\ waiting'[j] = waiting[j + d] /\ j + d \in 1..n
    <3>1. l \in DOMAIN entered /\ entered[l] = waiting[j + d]
      BY <1>1, <1>4, <2>2, <2>4
    <3>2. i + d < j + d
      BY <1>1 DEF LineMoves
    <3>. QED BY <1>1, <2>1, <2>3, <2>4, <3>1, <3>2 DEF IInv, WaitInOrder
  <2>5. CASE a = 1 /\ waiting'[j] = p
    <3>1. entered' = Append(entered, p) /\ p \in Pulse /\ pc[p] = "arrived"
      BY <2>5 DEF CallersMove
    <3>2. l \notin DOMAIN entered
      BY <1>1, <2>5, <3>1 DEF IInv, HistoryIsTold
    <3>. QED BY <1>1, <2>3, <3>1, <3>2
  <2>. QED BY <1>6, <2>4, <2>5
<1>. QED BY <1>8, <1>9, <1>10, <1>11

\* A caller that gives up without the turn leaves the line as it is.
LEMMA LineWithoutOne ==
  ASSUME IInv, NEW p \in Pulse, Abandon(p)
  PROVE  /\ waiting' \in Seq(Pulse)
         /\ (WaitersHope /\ HopefulWait /\ WaitOnce /\ WaitInOrder)'
<1>. DEFINE n == Len(waiting)
<1>1. /\ waiting \in Seq(Pulse) /\ n \in Nat /\ DOMAIN waiting = 1..n
      /\ \A i \in 1..n : waiting[i] \in Pulse
      /\ pc \in [Pulse -> Places]
  BY DEF IInv, QueueIsSound, TypeOK
<1>2. /\ \A i \in 1..n : Hoping(waiting[i])
      /\ \A i, j \in 1..n : waiting[i] = waiting[j] => i = j
  BY <1>1 DEF IInv, WaitersHope, WaitOnce
<1>3. Hoping(p)
  BY DEF Abandon, Hoping
<1>4. PICK c \in 1..n : waiting[c] = p
  BY <1>1, <1>3 DEF IInv, HopefulWait
<1>5. /\ waiting' \in Seq(Pulse) /\ Len(waiting') = n - 1
      /\ \A j \in 1..(n - 1) : waiting'[j] = IF j < c THEN waiting[j] ELSE waiting[j + 1]
  <2>1. waiting' = Unlinked(waiting, waiting[c])
    BY <1>4 DEF Abandon
  <2>. QED BY <1>1, <1>2, <2>1, UnlinkedProperties
<1>6. DOMAIN waiting' = 1..(n - 1)
  BY <1>1, <1>5
\* Where the waiter now at place j stood.
<1>. DEFINE was == [j \in 1..(n - 1) |-> IF j < c THEN j ELSE j + 1]
<1>7. \A j \in 1..(n - 1) : was[j] \in 1..n /\ was[j] # c /\ waiting'[j] = waiting[was[j]]
  BY <1>1, <1>5
<1>8. \A i, j \in 1..(n - 1) : (i < j => was[i] < was[j]) /\ (was[i] = was[j] => i = j)
  BY <1>1
<1>9. \A i \in 1..n : i # c => \E j \in 1..(n - 1) : was[j] = i
  <2>. SUFFICES ASSUME NEW i \in 1..n, i # c PROVE \E j \in 1..(n - 1) : was[j] = i
    OBVIOUS
  <2>1. CASE i < c
    <3>1. i \in 1..(n - 1) /\ was[i] = i
      BY <1>1, <2>1
    <3>. QED BY <3>1
  <2>2. CASE i > c
    <3>1. i - 1 \in 1..(n - 1) /\ was[i - 1] = i
      BY <1>1, <2>2
    <3>. QED BY <3>1
  <2>. QED BY <2>1, <2>2
<1>. HIDE DEF was
<1>10. /\ \A x \in Pulse : x # p => (Hoping(x)' <=> Hoping(x))
       /\ ~Hoping(p)' /\ entered' = entered
  BY <1>1 DEF Abandon, Goto, Hoping, GivingUp
<1>11. WaitersHope'
  BY <1>1, <1>2, <1>4, <1>6, <1>7, <1>10 DEF WaitersHope
<1>12. HopefulWait'
  <2>. SUFFICES ASSUME NEW x \in Pulse, Hoping(x)' PROVE \E j \in DOMAIN waiting' : waiting'[j] = x
    BY DEF HopefulWait
  <2>1. x # p /\ Hoping(x)
    BY <1>10
  <2>2. PICK i \in 1..n : waiting[i] = x
    BY <1>1, <2>1 DEF IInv, HopefulWait
  <2>3. PICK j \in 1..(n - 1) : was[j] = i
    BY <1>4, <1>9, <2>1, <2>2
  <2>. QED BY <1>6, <1>7, <2>2, <2>3
<1>13. WaitOnce'
  BY <1>2, <1>6, <1>7, <1>8 DEF WaitOnce
<1>14. WaitInOrder'
  BY <1>1, <1>6, <1>7, <1>8, <1>10 DEF IInv, WaitInOrder
<1>. QED BY <1>5, <1>11, <1>12, <1>13, <1>14

\* A step that leaves the line and p's hope as they were.
LEMMA LineUntouched ==
  ASSUME IInv, UNCHANGED <<waiting, granted, entered>>,
         \A x \in Pulse : Hoping(x)' <=> Hoping(x)
  PROVE  (WaitersHope /\ HopefulWait /\ WaitOnce /\ WaitInOrder)'
<1>1. waiting \in Seq(Pulse) /\ \A i \in DOMAIN waiting : waiting[i] \in Pulse
  BY DEF IInv, QueueIsSound, TypeOK
<1>. QED BY <1>1 DEF IInv, WaitersHope, HopefulWait, WaitOnce, WaitInOrder

-----------------------------------------------------------------------------
(* The history *)

\* A caller enters, or the history and those who are yet to enter stay.
LEMMA HistoryIsKept ==
  ASSUME IInv, NEW p \in Pulse,
         \A x \in Pulse : x # p => pc'[x] = pc[x],
         \/ entered' = Append(entered, p) /\ pc[p] = "arrived" /\ pc'[p] \notin {"idle", "arrived"}
         \/ entered' = entered /\ (pc[p] \in {"idle", "arrived"} <=> pc'[p] \in {"idle", "arrived"})
  PROVE  (HistoryIsTold /\ EnterOnce)'
<1>1. /\ entered \in Seq(Pulse) /\ DOMAIN entered = 1..Len(entered) /\ Len(entered) \in Nat
      /\ \A k \in DOMAIN entered : entered[k] \in Pulse
      /\ HistoryIsTold /\ EnterOnce
  BY DEF IInv, QueueIsSound, TypeOK
<1>2. CASE entered' = entered /\ (pc[p] \in {"idle", "arrived"} <=> pc'[p] \in {"idle", "arrived"})
  BY <1>1, <1>2 DEF HistoryIsTold, EnterOnce
<1>3. CASE entered' = Append(entered, p) /\ pc[p] = "arrived" /\ pc'[p] \notin {"idle", "arrived"}
  <2>1. /\ DOMAIN entered' = 1..(Len(entered) + 1)
        /\ \A k \in DOMAIN entered : entered'[k] = entered[k]
        /\ entered'[Len(entered) + 1] = p
    <3>1. /\ entered' \in Seq(Pulse) /\ Len(entered') = Len(entered) + 1
          /\ \A k \in 1..Len(entered) : entered'[k] = entered[k]
          /\ entered'[Len(entered) + 1] = p
      BY <1>1, <1>3, AppendPulse
    <3>2. DOMAIN entered' = 1..Len(entered')
      BY <3>1
    <3>. QED BY <1>1, <3>1, <3>2
  <2>2. \A k \in DOMAIN entered : entered[k] # p
    BY <1>1, <1>3 DEF HistoryIsTold
  <2>3. HistoryIsTold'
    <3>1. ASSUME NEW x \in Pulse, pc'[x] \notin {"idle", "arrived"}
          PROVE  \E k \in DOMAIN entered' : entered'[k] = x
      <4>1. CASE x = p
        BY <1>1, <2>1, <4>1
      <4>2. CASE x # p
        <5>1. PICK k \in DOMAIN entered : entered[k] = x
          BY <1>1, <3>1, <4>2 DEF HistoryIsTold
        <5>. QED BY <1>1, <2>1, <5>1
      <4>. QED BY <4>1, <4>2
    <3>2. ASSUME NEW k \in DOMAIN entered' PROVE pc'[entered'[k]] \notin {"idle", "arrived"}
      <4>1. k \in DOMAIN entered \/ entered'[k] = p
        BY <1>1, <2>1
      <4>2. k \in DOMAIN entered => entered'[k] = entered[k] /\ entered[k] # p
        BY <2>1, <2>2
      <4>. QED BY <1>1, <1>3, <4>1, <4>2 DEF HistoryIsTold
    <3>. QED BY <3>1, <3>2 DEF HistoryIsTold
  <2>4. EnterOnce'
    BY <1>1, <2>1, <2>2 DEF EnterOnce
  <2>. QED BY <2>3, <2>4
<1>. QED BY <1>2, <1>3

\* Who got at the queue, was not served and did not give up still waits.
LEMMA WhoIsLeft ==
  ASSUME IInv, NEW k \in DOMAIN entered
  PROVE  Served(entered[k]) \/ GaveUp(entered[k]) \/ \E i \in DOMAIN waiting : waiting[i] = entered[k]
<1>1. entered[k] \in Pulse /\ pc[entered[k]] \in Places /\ pc[entered[k]] \notin {"idle", "arrived"}
  BY DEF IInv, QueueIsSound, TypeOK, HistoryIsTold
<1>2. pc[entered[k]] \in {"returning", "lost"} => entered[k] \in granted
  BY <1>1 DEF IInv, GrantedBefore
<1>. QED BY <1>1, <1>2 DEF IInv, HopefulWait, Hoping, Served, GaveUp, GivingUp, Places

\* Everybody that got at the queue before the first waiter is settled; if
\* nobody waits, so is everybody.
LEMMA FirstWaiterIsNext ==
  ASSUME IInv, waiting # <<>>, NEW j \in DOMAIN entered, entered[j] = waiting[1], NEW i \in 1..(j - 1)
  PROVE  Served(entered[i]) \/ GaveUp(entered[i])
<1>1. /\ waiting \in Seq(Pulse) /\ Len(waiting) \in Nat \ {0} /\ DOMAIN waiting = 1..Len(waiting)
      /\ entered \in Seq(Pulse) /\ DOMAIN entered = 1..Len(entered)
  BY DEF IInv, QueueIsSound, TypeOK
<1>2. i \in DOMAIN entered /\ i < j
  BY <1>1
<1>3. ASSUME NEW c \in DOMAIN waiting, waiting[c] = entered[i] PROVE FALSE
  <2>1. CASE c = 1
    BY <1>2, <1>3, <2>1 DEF IInv, EnterOnce
  <2>2. CASE c > 1
    <3>1. 1 \in DOMAIN waiting
      BY <1>1
    <3>. QED BY <1>1, <1>2, <1>3, <2>2, <3>1 DEF IInv, WaitInOrder
  <2>. QED BY <1>1, <2>1, <2>2
<1>. QED BY <1>2, <1>3, WhoIsLeft

\* Nobody loses a turn it had, and only the first waiter, or who finds nobody
\* waiting, gets one.
ServedInTurn(p) ==
  /\ \A x \in Pulse : Served(x) => Served(x)'
  /\ \A x \in Pulse : GaveUp(x) => (Served(x) \/ GaveUp(x))'
  /\ \A x \in Pulse : Served(x)' => Served(x) \/ (waiting # <<>> /\ x = waiting[1]) \/ waiting = <<>>
  /\ \/ entered' = entered
     \/ /\ p \in Pulse /\ entered' = Append(entered, p) /\ pc[p] = "arrived"
        /\ Served(p)' => waiting = <<>>

LEMMA FirstServedIsKept ==
  ASSUME IInv, NEW p, ServedInTurn(p)
  PROVE  FirstComeFirstServed'
<1>1. /\ entered \in Seq(Pulse) /\ DOMAIN entered = 1..Len(entered) /\ Len(entered) \in Nat
      /\ \A k \in DOMAIN entered : entered[k] \in Pulse
      /\ waiting \in Seq(Pulse)
  BY DEF IInv, QueueIsSound, TypeOK
<1>2. /\ \A k \in DOMAIN entered : entered'[k] = entered[k]
      /\ DOMAIN entered' \in {1..Len(entered), 1..(Len(entered) + 1)}
  <2>1. CASE entered' = entered
    BY <1>1, <2>1
  <2>2. CASE p \in Pulse /\ entered' = Append(entered, p)
    BY <1>1, <2>2, AppendPulse
  <2>. QED BY <2>1, <2>2 DEF ServedInTurn
<1>. SUFFICES ASSUME NEW j \in DOMAIN entered', NEW i \in 1..(j - 1), Served(entered[j])'
              PROVE  (Served(entered[i]) \/ GaveUp(entered[i]))'
  BY DEF FirstComeFirstServed
<1>3. i \in DOMAIN entered
  BY <1>1, <1>2
<1>4. waiting = <<>> => Served(entered[i]) \/ GaveUp(entered[i])
  BY <1>1, <1>3, WhoIsLeft
<1>5. CASE j \in DOMAIN entered
  <2>1. Served(entered[j]) => Served(entered[i]) \/ GaveUp(entered[i])
    BY <1>5 DEF IInv, FirstComeFirstServed
  <2>2. Served(entered[i]) \/ GaveUp(entered[i])
    <3>1. entered[j] = entered'[j] /\ entered[j] \in Pulse
      BY <1>1, <1>2, <1>5
    <3>2. \/ Served(entered[j])
          \/ waiting # <<>> /\ entered[j] = waiting[1]
          \/ waiting = <<>>
      BY <3>1 DEF ServedInTurn
    <3>. QED BY <1>4, <1>5, <2>1, <3>2, FirstWaiterIsNext
  <2>3. entered[i] = entered'[i] /\ entered[i] \in Pulse
    BY <1>1, <1>2, <1>3
  <2>. QED BY <2>2, <2>3 DEF Served, GaveUp, GivingUp, ServedInTurn
<1>6. CASE j \notin DOMAIN entered
  <2>1. p \in Pulse /\ entered'[j] = p /\ (Served(p)' => waiting = <<>>)
    BY <1>1, <1>2, <1>6, AppendPulse DEF ServedInTurn
  <2>2. Served(entered[i]) \/ GaveUp(entered[i])
    BY <1>4, <2>1 DEF Served
  <2>3. entered[i] = entered'[i] /\ entered[i] \in Pulse
    BY <1>1, <1>2, <1>3
  <2>. QED BY <2>2, <2>3 DEF Served, GaveUp, GivingUp, ServedInTurn
<1>. QED BY <1>5, <1>6

-----------------------------------------------------------------------------
(* The steps *)

\* Queue and line together: how a step that moves the turn, lets p enter or
\* both, moves the line.
LEMMA EnterMoves ==
  ASSUME IInv, NEW p \in Pulse, Enter(p)
  PROVE  /\ \E d, a \in {0, 1} :
              /\ LineMoves(d, a, p) /\ CallersMove(a, p)
              /\ a = 0 => waiting = <<>> /\ d = 0 /\ waiting' = <<>> /\ inflight' = p /\ pc'[p] = "holding"
              /\ a = 1 => inflight' # NoPulse /\ pc'[p] = "waiting"
              /\ d = 1 => inflight' = waiting[1]
              /\ d = 0 /\ a = 1 => inflight' = inflight /\ startedAt' = startedAt
              /\ d = 1 \/ (a = 0 /\ inflight # NoPulse) =>
                   inflight # NoPulse /\ now[p] > startedAt + MaxHold /\ startedAt' = now[p]
              /\ a = 0 => startedAt' = now[p]
         /\ inflight' \in Pulse \cup {NoPulse}
         /\ startedAt' \in {startedAt, now[p]}
<1>. DEFINE q == Swept(Queue, now[p])
<1>1. /\ waiting \in Seq(Pulse) /\ Len(waiting) \in Nat
      /\ inflight \in Pulse \cup {NoPulse}
      /\ pc \in [Pulse -> Places] /\ pc[p] = "arrived" /\ entered' = Append(entered, p)
  BY DEF IInv, QueueIsSound, TypeOK, Enter
<1>2. /\ inflight = NoPulse => waiting = <<>>
      /\ NoPulse \notin Pulse
  BY QueueAssumption DEF IInv, QueueIsSound, NoFreeTurnWhileWaiting
<1>3. CASE q.inflight = NoPulse
  <2>1. waiting = <<>> /\ q.waiting = <<>> /\ q.granted = granted
    <3>1. CASE q = Queue
      BY <1>2, <1>3, <3>1 DEF Queue
    <3>2. CASE Vacated(q)
      BY <3>2 DEF Vacated, Queue
    <3>3. CASE HandedOn(q, now[p])
      BY <1>1, <1>2, <1>3, <3>3 DEF HandedOn
    <3>. QED BY <3>1, <3>2, <3>3, SweptMoves
  <2>2. /\ inflight' = p /\ startedAt' = now[p] /\ waiting' = <<>> /\ granted' = granted
        /\ pc' = [pc EXCEPT ![p] = "holding"]
    BY <1>3, <2>1 DEF Enter, Update, Goto
  <2>3. LineMoves(0, 0, p) /\ CallersMove(0, p)
    BY <1>1, <2>1, <2>2 DEF LineMoves, CallersMove
  <2>4. inflight # NoPulse => now[p] > startedAt + MaxHold
    BY <1>3, SweptMoves DEF Queue
  <2>. QED BY <2>1, <2>2, <2>3, <2>4, <1>1
<1>4. CASE q.inflight # NoPulse
  <2>1. /\ inflight' = q.inflight /\ startedAt' = q.startedAt /\ granted' = q.granted
        /\ waiting' = Append(q.waiting, p)
        /\ pc' = [pc EXCEPT ![p] = "waiting"]
    BY <1>4 DEF Enter, Update, Goto, Joined
  <2>2. CallersMove(1, p)
    BY <1>1, <2>1 DEF CallersMove
  <2>3. CASE q = Queue
    <3>1. LineMoves(0, 1, p)
      BY <1>1, <2>1, <2>3, AppendProperties DEF LineMoves, Queue
    <3>. QED BY <1>1, <1>4, <2>1, <2>2, <2>3, <3>1 DEF Queue
  <2>4. CASE HandedOn(q, now[p])
    <3>1. /\ waiting # <<>> /\ inflight' = waiting[1] /\ startedAt' = now[p]
          /\ granted' = granted \cup {waiting[1]} /\ waiting' = Append(Tail(waiting), p)
          /\ 1 \in 1..Len(waiting) /\ waiting[1] \in Pulse
      BY <1>1, <2>1, <2>4 DEF HandedOn
    <3>2. LineMoves(1, 1, p)
      <4>1. /\ Tail(waiting) \in Seq(Pulse) /\ Len(Tail(waiting)) = Len(waiting) - 1
            /\ \A i \in 1..(Len(waiting) - 1) : Tail(waiting)[i] = waiting[i + 1]
        BY <1>1, <3>1, HeadTailProperties
      <4>. QED BY <1>1, <3>1, <4>1, AppendProperties DEF LineMoves
    <3>3. inflight # NoPulse /\ now[p] > startedAt + MaxHold
      <4>1. q # Queue
        BY <1>1, <2>4, <3>1 DEF HandedOn, Queue
      <4>. QED BY <4>1, SweptMoves
    <3>. QED BY <1>1, <1>2, <2>1, <2>2, <3>1, <3>2, <3>3
  <2>5. ~Vacated(q)
    BY <1>4 DEF Vacated, Queue
  <2>. QED BY <2>3, <2>4, <2>5, SweptMoves
<1>. QED BY <1>3, <1>4

\* What a turn that is handed on, or taken from its owner, does to the line.
LEMMA TurnMoves ==
  ASSUME IInv, NEW t, NEW q, Update(q), Vacated(q) \/ HandedOn(q, t), NEW p,
         CallersMove(0, p)
  PROVE  \E d \in {0, 1} :
           /\ LineMoves(d, 0, p)
           /\ d = 0 => /\ waiting = <<>> /\ waiting' = <<>> /\ inflight' = NoPulse
                       /\ startedAt' = startedAt
           /\ d = 1 => waiting # <<>> /\ inflight' = waiting[1] /\ waiting[1] \in Pulse /\ startedAt' = t
<1>1. waiting \in Seq(Pulse) /\ Len(waiting) \in Nat
  BY DEF IInv, QueueIsSound, TypeOK
<1>2. CASE Vacated(q)
  BY <1>1, <1>2 DEF Vacated, Update, Queue, LineMoves
<1>3. CASE HandedOn(q, t)
  <2>1. /\ waiting # <<>> /\ inflight' = waiting[1] /\ startedAt' = t
        /\ granted' = granted \cup {waiting[1]} /\ waiting' = Tail(waiting)
        /\ 1 \in 1..Len(waiting) /\ waiting[1] \in Pulse
    BY <1>1, <1>3 DEF HandedOn, Update
  <2>2. /\ waiting' \in Seq(Pulse) /\ Len(waiting') = Len(waiting) - 1
        /\ \A i \in 1..(Len(waiting) - 1) : waiting'[i] = waiting[i + 1]
    BY <1>1, <2>1, HeadTailProperties
  <2>3. LineMoves(1, 0, p)
    BY <1>1, <2>1, <2>2 DEF LineMoves
  <2>. QED BY <2>1, <2>3
<1>. QED BY <1>2, <1>3

\* A step that moves one caller and leaves the queue alone.
LEMMA CallerMoves ==
  ASSUME IInv, TypeOK', NEW p \in Pulse, NEW place, pc' = [pc EXCEPT ![p] = place],
         UNCHANGED <<inflight, waiting, granted, entered, enqueuedAt>>,
         \A x \in Pulse : x # p => now'[x] = now[x],
         \/ pc[p] = "idle" /\ place = "arrived"
         \/ now' = now /\ pc[p] = "waiting" /\ place = "holding" /\ p \in granted
         \/ now' = now /\ pc[p] = "waiting" /\ place \in {"timedOut", "cancelled"}
         \/ now' = now /\ GivingUp(p) /\ place = "returning" /\ p \in granted
  PROVE  IInv'
<1>1. /\ pc'[p] = place /\ \A x \in Pulse : x # p => pc'[x] = pc[x]
      /\ pc[p] = "idle" => p \notin granted
  BY DEF IInv, QueueIsSound, TypeOK, GrantedBefore
<1>2. /\ \A x \in Pulse : Hoping(x)' <=> Hoping(x)
      /\ \A x \in Pulse : ActsOnGrant(x)' <=> ActsOnGrant(x)
      /\ \A x \in Pulse : Served(x)' <=> Served(x)
      /\ \A x \in Pulse : GaveUp(x) => (Served(x) \/ GaveUp(x))'
  BY <1>1 DEF Hoping, ActsOnGrant, Served, GaveUp, GivingUp
<1>3. (TurnIsCared /\ NoFreeTurnWhileWaiting)'
  BY <1>2 DEF IInv, QueueIsSound, TypeOK, TurnIsCared, NoFreeTurnWhileWaiting
<1>4. (WaitersHope /\ HopefulWait /\ WaitOnce /\ WaitInOrder)'
  BY <1>2, LineUntouched
<1>5. (EnteredOnTime /\ GrantedBefore)'
  BY <1>1 DEF IInv, EnteredOnTime, GrantedBefore, GivingUp
<1>6. (HistoryIsTold /\ EnterOnce)'
  BY <1>1, HistoryIsKept DEF GivingUp
<1>7. FirstComeFirstServed'
  BY <1>2, FirstServedIsKept DEF ServedInTurn
<1>. QED BY <1>3, <1>4, <1>5, <1>6, <1>7 DEF IInv, QueueIsSound

LEMMA ArriveKeeps == ASSUME IInv, NEW p \in Pulse, Arrive(p) PROVE IInv'
<1>1. TypeOK'
  BY DEF IInv, QueueIsSound, TypeOK, Arrive, Goto, queue, Places
<1>2. /\ pc[p] = "idle" /\ pc' = [pc EXCEPT ![p] = "arrived"]
      /\ UNCHANGED <<inflight, waiting, granted, entered, enqueuedAt>>
      /\ \A x \in Pulse : x # p => now'[x] = now[x]
  BY DEF IInv, QueueIsSound, TypeOK, Arrive, Goto, queue
<1>. QED BY <1>1, <1>2, CallerMoves

LEMMA SelectKeeps ==
  ASSUME IInv, NEW p \in Pulse, Wake(p) \/ TimeOut(p) \/ Cancel(p)
  PROVE  IInv'
<1>1. TypeOK'
  BY DEF IInv, QueueIsSound, TypeOK, Wake, TimeOut, Cancel, Select, Goto, queue, Places
<1>2. CASE Wake(p)
  <2>1. /\ pc[p] = "waiting" /\ pc' = [pc EXCEPT ![p] = "holding"] /\ p \in granted /\ now' = now
        /\ UNCHANGED <<inflight, waiting, granted, entered, enqueuedAt>>
    BY <1>2 DEF Wake, Select, Goto, queue
  <2>. QED BY <1>1, <2>1, CallerMoves
<1>3. ASSUME NEW place \in {"timedOut", "cancelled"}, Select(p, place) PROVE IInv'
  <2>1. /\ pc[p] = "waiting" /\ pc' = [pc EXCEPT ![p] = place] /\ now' = now
        /\ UNCHANGED <<inflight, waiting, granted, entered, enqueuedAt>>
    BY <1>3 DEF Select, Goto, queue
  <2>. QED BY <1>1, <2>1, CallerMoves
<1>. QED BY <1>2, <1>3 DEF TimeOut, Cancel

LEMMA AbandonGrantedKeeps == ASSUME IInv, NEW p \in Pulse, AbandonGranted(p) PROVE IInv'
<1>1. TypeOK'
  BY DEF IInv, QueueIsSound, TypeOK, AbandonGranted, Goto, queue, Places
<1>2. /\ GivingUp(p) /\ p \in granted /\ pc' = [pc EXCEPT ![p] = "returning"] /\ now' = now
      /\ UNCHANGED <<inflight, waiting, granted, entered, enqueuedAt>>
  BY DEF AbandonGranted, Goto, queue
<1>. QED BY <1>1, <1>2, CallerMoves

LEMMA AbandonKeeps == ASSUME IInv, NEW p \in Pulse, Abandon(p) PROVE IInv'
<1>1. waiting' \in Seq(Pulse) /\ (WaitersHope /\ HopefulWait /\ WaitOnce /\ WaitInOrder)'
  BY LineWithoutOne
<1>2. /\ GivingUp(p) /\ p \notin granted /\ pc'[p] = "refused"
      /\ \A x \in Pulse : x # p => pc'[x] = pc[x]
      /\ UNCHANGED <<clock, inflight, startedAt, granted, now, enqueuedAt, entered>>
  BY DEF IInv, QueueIsSound, TypeOK, Abandon, Goto
<1>3. TypeOK'
  <2>1. now[p] - enqueuedAt[p] = 0
    <3>1. now[p] = enqueuedAt[p]
      BY <1>2 DEF IInv, EnteredOnTime, GivingUp
    <3>2. now[p] \in Nat
      BY QueueAssumption DEF IInv, QueueIsSound, TypeOK
    <3>. QED BY <3>1, <3>2
  <2>2. waited' \in [Pulse -> Nat] /\ pc' \in [Pulse -> Places]
    BY <2>1 DEF IInv, QueueIsSound, TypeOK, Abandon, Goto, Places
  <2>. QED BY <1>1, <1>2, <2>2 DEF IInv, QueueIsSound, TypeOK
<1>4. /\ \A x \in Pulse : ActsOnGrant(x)' <=> ActsOnGrant(x)
      /\ \A x \in Pulse : Served(x) => Served(x)'
      /\ \A x \in Pulse : Served(x)' => Served(x)
      /\ \A x \in Pulse : GaveUp(x) => (Served(x) \/ GaveUp(x))'
  BY <1>2 DEF ActsOnGrant, Served, GaveUp, GivingUp
<1>5. TurnIsCared'
  BY <1>2, <1>4 DEF IInv, QueueIsSound, TypeOK, TurnIsCared
<1>6. NoFreeTurnWhileWaiting'
  <2>1. waiting # <<>>
    <3>1. Hoping(p)
      BY <1>2 DEF Hoping
    <3>. QED BY <3>1 DEF IInv, HopefulWait
  <2>. QED BY <1>2, <2>1 DEF IInv, QueueIsSound, NoFreeTurnWhileWaiting
<1>7. (EnteredOnTime /\ GrantedBefore)'
  BY <1>2 DEF IInv, EnteredOnTime, GrantedBefore, GivingUp
<1>8. (HistoryIsTold /\ EnterOnce)'
  BY <1>2, HistoryIsKept DEF GivingUp
<1>9. FirstComeFirstServed'
  BY <1>2, <1>4, FirstServedIsKept DEF ServedInTurn
<1>. QED BY <1>1, <1>3, <1>5, <1>6, <1>7, <1>8, <1>9 DEF IInv, QueueIsSound

LEMMA EnterKeeps == ASSUME IInv, NEW p \in Pulse, Enter(p) PROVE IInv'
<1>1. PICK d \in {0, 1}, a \in {0, 1} :
        /\ LineMoves(d, a, p) /\ CallersMove(a, p)
        /\ a = 0 => waiting = <<>> /\ d = 0 /\ waiting' = <<>> /\ inflight' = p /\ pc'[p] = "holding"
        /\ a = 1 => inflight' # NoPulse /\ pc'[p] = "waiting"
        /\ d = 1 => inflight' = waiting[1]
        /\ d = 0 /\ a = 1 => inflight' = inflight /\ startedAt' = startedAt
  BY EnterMoves
<1>2. inflight' \in Pulse \cup {NoPulse} /\ startedAt' \in {startedAt, now[p]}
  BY EnterMoves
<1>3. /\ pc[p] = "arrived" /\ pc'[p] \in {"holding", "waiting"} /\ p \notin granted
      /\ \A x \in Pulse : x # p => pc'[x] = pc[x]
      /\ enqueuedAt' = [enqueuedAt EXCEPT ![p] = now[p]]
      /\ entered' = Append(entered, p)
      /\ UNCHANGED <<clock, now, waited>>
  BY <1>1 DEF Enter, CallersMove, IInv, GrantedBefore
<1>4. /\ waiting \in Seq(Pulse)
      /\ d = 1 => waiting # <<>> /\ 1 \in DOMAIN waiting /\ waiting[1] \in Pulse /\ Hoping(waiting[1])
      /\ granted' = IF d = 1 THEN granted \cup {waiting[1]} ELSE granted
  <2>1. waiting \in Seq(Pulse) /\ WaitersHope
    BY DEF IInv, QueueIsSound, TypeOK
  <2>2. d <= Len(waiting) /\ granted' = IF d = 1 THEN granted \cup {waiting[1]} ELSE granted
    BY <1>1 DEF LineMoves
  <2>3. d = 1 => waiting # <<>> /\ 1 \in DOMAIN waiting /\ waiting[1] \in Pulse
    BY <2>1, <2>2
  <2>. QED BY <2>1, <2>2, <2>3 DEF WaitersHope
<1>5. (WaitersHope /\ HopefulWait /\ WaitOnce /\ WaitInOrder)'
  BY <1>1, LineIsKept
<1>6. TypeOK'
  <2>1. pc' \in [Pulse -> Places]
    BY DEF IInv, QueueIsSound, TypeOK, Enter, Goto, Places
  <2>2. entered' \in Seq(Pulse)
    BY <1>3, AppendPulse DEF IInv, QueueIsSound, TypeOK
  <2>3. waiting' \in Seq(Pulse) /\ granted' \subseteq Pulse
    BY <1>1, <1>4 DEF IInv, QueueIsSound, TypeOK, LineMoves
  <2>. QED BY <1>2, <1>3, <2>1, <2>2, <2>3 DEF IInv, QueueIsSound, TypeOK
<1>7. /\ \A x \in Pulse : ActsOnGrant(x) => ActsOnGrant(x)'
      /\ \A x \in Pulse : Served(x) => Served(x)'
      /\ \A x \in Pulse : GaveUp(x) => (Served(x) \/ GaveUp(x))'
      /\ \A x \in Pulse : Served(x)' => Served(x) \/ (waiting # <<>> /\ x = waiting[1]) \/ waiting = <<>>
      /\ Served(p)' => waiting = <<>>
  BY <1>1, <1>3, <1>4 DEF ActsOnGrant, Served, GaveUp, GivingUp, Hoping
<1>8. TurnIsCared'
  <2>1. CASE d = 1
    BY <1>1, <1>3, <1>4, <2>1 DEF TurnIsCared, ActsOnGrant, Hoping, GivingUp
  <2>2. CASE a = 0
    BY <1>1, <2>2 DEF TurnIsCared, ActsOnGrant
  <2>3. CASE d = 0 /\ a = 1
    BY <1>1, <1>2, <1>7, <2>3 DEF IInv, QueueIsSound, TypeOK, TurnIsCared
  <2>. QED BY <2>1, <2>2, <2>3
<1>9. NoFreeTurnWhileWaiting'
  BY <1>1 DEF NoFreeTurnWhileWaiting
<1>10. (EnteredOnTime /\ GrantedBefore)'
  BY <1>3, <1>4 DEF IInv, EnteredOnTime, GrantedBefore, GivingUp, Hoping, QueueIsSound, TypeOK
<1>11. (HistoryIsTold /\ EnterOnce)'
  BY <1>3, HistoryIsKept
<1>12. FirstComeFirstServed'
  BY <1>3, <1>7, FirstServedIsKept DEF ServedInTurn
<1>. QED BY <1>5, <1>6, <1>8, <1>9, <1>10, <1>11, <1>12 DEF IInv, QueueIsSound

\* A step in which the turn stays or moves and p, if it is a caller, leaves.
Leaver(p) ==
  \/ p = NoPulse /\ pc' = pc
  \/ p \in Pulse /\ pc[p] = "returning" /\ pc' = [pc EXCEPT ![p] = "lost"]
  \/ p \in Pulse /\ pc[p] = "holding" /\ pc' = [pc EXCEPT ![p] = "done"]

LEMMA LeavingMoves ==
  ASSUME IInv, NEW p, Leaver(p), NEW q, Update(q),
         \/ q = Queue /\ (p \in Pulse => inflight # p)
         \/ Vacated(q) \/ HandedOn(q, clock),
         entered' = entered
  PROVE  /\ waiting \in Seq(Pulse) /\ granted \subseteq Pulse
         /\ pc \in [Pulse -> Places] /\ pc' \in [Pulse -> Places]
         /\ \A x \in Pulse : x # p => pc'[x] = pc[x]
         /\ p \in Pulse => \/ pc[p] = "returning" /\ pc'[p] = "lost" /\ p \in granted
                           \/ pc[p] = "holding" /\ pc'[p] = "done"
         /\ CallersMove(0, p)
         /\ \E d \in {0, 1} :
              /\ LineMoves(d, 0, p)
              /\ d = 0 => /\ waiting' = waiting /\ startedAt' = startedAt
                          /\ \/ inflight' = NoPulse /\ waiting = <<>>
                             \/ inflight' = inflight /\ (p \in Pulse => inflight # p) /\ q = Queue
              /\ d = 1 => /\ waiting # <<>> /\ inflight' = waiting[1] /\ waiting[1] \in Pulse
                          /\ startedAt' = clock
                          /\ Hoping(waiting[1]) /\ waiting[1] # p
              /\ granted' = IF d = 1 THEN granted \cup {waiting[1]} ELSE granted
<1>1. /\ waiting \in Seq(Pulse) /\ granted \subseteq Pulse
      /\ pc \in [Pulse -> Places] /\ pc' \in [Pulse -> Places]
      /\ \A x \in Pulse : x # p => pc'[x] = pc[x]
      /\ p \in Pulse => \/ pc[p] = "returning" /\ pc'[p] = "lost" /\ p \in granted
                        \/ pc[p] = "holding" /\ pc'[p] = "done"
  BY QueueAssumption DEF IInv, QueueIsSound, TypeOK, Leaver, Places, GrantedBefore
<1>2. CallersMove(0, p)
  BY <1>1 DEF CallersMove
<1>3. PICK d \in {0, 1} :
        /\ LineMoves(d, 0, p)
        /\ d = 0 => /\ waiting' = waiting /\ startedAt' = startedAt
                    /\ \/ inflight' = NoPulse /\ waiting = <<>>
                       \/ inflight' = inflight /\ (p \in Pulse => inflight # p) /\ q = Queue
        /\ d = 1 => waiting # <<>> /\ inflight' = waiting[1] /\ waiting[1] \in Pulse /\ startedAt' = clock
  <2>1. CASE q = Queue /\ (p \in Pulse => inflight # p)
    <3>1. UNCHANGED <<inflight, startedAt, waiting, granted>>
      BY <2>1 DEF Update, Queue
    <3>2. LineMoves(0, 0, p)
      BY <1>1, <3>1 DEF LineMoves
    <3>. QED BY <2>1, <3>1, <3>2
  <2>2. CASE Vacated(q) \/ HandedOn(q, clock)
    <3>1. PICK d \in {0, 1} :
           /\ LineMoves(d, 0, p)
           /\ d = 0 => /\ waiting = <<>> /\ waiting' = <<>> /\ inflight' = NoPulse
                       /\ startedAt' = startedAt
           /\ d = 1 => waiting # <<>> /\ inflight' = waiting[1] /\ waiting[1] \in Pulse /\ startedAt' = clock
      BY <1>2, <2>2, TurnMoves
    <3>. QED BY <3>1
  <2>. QED BY <2>1, <2>2
<1>4. /\ d = 1 => Hoping(waiting[1]) /\ waiting[1] # p
      /\ granted' = IF d = 1 THEN granted \cup {waiting[1]} ELSE granted
  BY <1>1, <1>3 DEF IInv, WaitersHope, LineMoves, Hoping, GivingUp
<1>. QED BY <1>1, <1>2, <1>3, <1>4

LEMMA LeavingKeeps ==
  ASSUME IInv, NEW p, Leaver(p), NEW q, Update(q),
         \/ q = Queue /\ (p \in Pulse => inflight # p)
         \/ Vacated(q) \/ HandedOn(q, clock),
         UNCHANGED <<clock, now, enqueuedAt, waited, entered>>
  PROVE  IInv'
<1>1. /\ waiting \in Seq(Pulse) /\ granted \subseteq Pulse
      /\ pc \in [Pulse -> Places] /\ pc' \in [Pulse -> Places]
      /\ \A x \in Pulse : x # p => pc'[x] = pc[x]
      /\ p \in Pulse => \/ pc[p] = "returning" /\ pc'[p] = "lost" /\ p \in granted
                        \/ pc[p] = "holding" /\ pc'[p] = "done"
      /\ CallersMove(0, p)
  BY LeavingMoves
<1>2. PICK d \in {0, 1} :
        /\ LineMoves(d, 0, p)
        /\ d = 0 => /\ waiting' = waiting /\ startedAt' = startedAt
                    /\ \/ inflight' = NoPulse /\ waiting = <<>>
                       \/ inflight' = inflight /\ (p \in Pulse => inflight # p)
        /\ d = 1 => /\ waiting # <<>> /\ inflight' = waiting[1] /\ waiting[1] \in Pulse
                    /\ startedAt' = clock
                    /\ Hoping(waiting[1]) /\ waiting[1] # p
        /\ granted' = IF d = 1 THEN granted \cup {waiting[1]} ELSE granted
  BY LeavingMoves
<1>3. (WaitersHope /\ HopefulWait /\ WaitOnce /\ WaitInOrder)'
  BY <1>1, <1>2, LineIsKept
<1>4. TypeOK'
  <2>1. waiting' \in Seq(Pulse) /\ granted' \subseteq Pulse
    BY <1>1, <1>2 DEF LineMoves
  <2>2. inflight' \in Pulse \cup {NoPulse} /\ startedAt' \in 0..clock
    BY <1>2, QueueAssumption DEF IInv, QueueIsSound, TypeOK
  <2>. QED BY <1>1, <2>1, <2>2 DEF IInv, QueueIsSound, TypeOK
<1>5. /\ \A x \in Pulse : x # p /\ ActsOnGrant(x) => ActsOnGrant(x)'
      /\ ServedInTurn(p)
  BY <1>1, <1>2 DEF ActsOnGrant, ServedInTurn, Served, GaveUp, GivingUp
<1>6. TurnIsCared'
  <2>1. CASE d = 1
    BY <1>1, <1>2, <2>1 DEF TurnIsCared, ActsOnGrant, Hoping, GivingUp
  <2>2. CASE d = 0 /\ inflight' # NoPulse
    <3>1. inflight' = inflight /\ inflight \in Pulse /\ inflight # p /\ ActsOnGrant(inflight)
      BY <1>2, <2>2, QueueAssumption DEF IInv, QueueIsSound, TypeOK, TurnIsCared, Leaver
    <3>. QED BY <1>5, <3>1 DEF TurnIsCared
  <2>. QED BY <2>1, <2>2 DEF TurnIsCared
<1>7. NoFreeTurnWhileWaiting'
  BY <1>2, QueueAssumption DEF IInv, QueueIsSound, NoFreeTurnWhileWaiting
<1>8. (EnteredOnTime /\ GrantedBefore)'
  BY <1>1, <1>2 DEF IInv, EnteredOnTime, GrantedBefore, GivingUp, Hoping
<1>9. (HistoryIsTold /\ EnterOnce)'
  <2>1. CASE p \in Pulse
    BY <1>1, <2>1, HistoryIsKept
  <2>2. CASE p = NoPulse /\ pc' = pc
    BY <2>2 DEF IInv, HistoryIsTold, EnterOnce
  <2>. QED BY <2>1, <2>2 DEF Leaver
<1>10. FirstComeFirstServed'
  BY <1>5, FirstServedIsKept
<1>. QED BY <1>3, <1>4, <1>6, <1>7, <1>8, <1>9, <1>10 DEF IInv, QueueIsSound

LEMMA LeaveKeeps == ASSUME IInv, NEW p \in Pulse, Return(p) \/ Release(p) PROVE IInv'
<1>1. /\ Leaver(p) /\ Update(Released(Queue, p, clock))
      /\ UNCHANGED <<clock, now, enqueuedAt, waited, entered>>
  BY DEF Return, Release, Leave, Leaver, Goto
<1>2. \/ Released(Queue, p, clock) = Queue /\ (p \in Pulse => inflight # p)
      \/ Vacated(Released(Queue, p, clock)) \/ HandedOn(Released(Queue, p, clock), clock)
  BY ReleasedMoves, QueueAssumption
<1>. QED BY <1>1, <1>2, LeavingKeeps

LEMMA SweepKeeps == ASSUME IInv, Sweep PROVE IInv'
<1>1. /\ Leaver(NoPulse) /\ Update(Swept(Queue, clock))
      /\ UNCHANGED <<clock, now, enqueuedAt, waited, entered>>
  BY DEF Sweep, Leaver
<1>2. \/ Swept(Queue, clock) = Queue /\ (NoPulse \in Pulse => inflight # NoPulse)
      \/ Vacated(Swept(Queue, clock)) \/ HandedOn(Swept(Queue, clock), clock)
  BY SweptMoves, QueueAssumption
<1>. QED BY <1>1, <1>2, LeavingKeeps

LEMMA NextIInv == IInv /\ [Next]_vars => IInv'
<1>. SUFFICES ASSUME IInv, [Next]_vars PROVE IInv'
  OBVIOUS
<1>1. CASE Tick
  <2>1. TypeOK'
    BY <1>1, QueueAssumption DEF Tick, queue, IInv, QueueIsSound, TypeOK
  <2>. QED
    BY <1>1, <2>1
    DEF Tick, queue, IInv, QueueIsSound, TurnIsCared, ActsOnGrant, NoFreeTurnWhileWaiting,
        EnteredOnTime, WaitersHope, HopefulWait, WaitOnce, GrantedBefore, HistoryIsTold, EnterOnce,
        WaitInOrder, FirstComeFirstServed, Hoping, Served, GaveUp, GivingUp
<1>2. CASE UNCHANGED vars
  <2>1. QueueIsSound'
    <3>1. TypeOK'
      BY <1>2 DEF vars, queue, IInv, QueueIsSound, TypeOK
    <3>2. TurnIsCared'
      BY <1>2 DEF vars, queue, IInv, QueueIsSound, TurnIsCared, ActsOnGrant, GivingUp
    <3>3. NoFreeTurnWhileWaiting'
      BY <1>2 DEF vars, queue, IInv, QueueIsSound, NoFreeTurnWhileWaiting
    <3>. QED BY <3>1, <3>2, <3>3 DEF QueueIsSound
  <2>2. (WaitersHope /\ HopefulWait /\ WaitOnce)' /\ (EnteredOnTime /\ GrantedBefore)'
    <3>1. EnteredOnTime' /\ GrantedBefore'
      BY <1>2 DEF vars, queue, IInv, EnteredOnTime, GrantedBefore
    <3>2. WaitOnce'
      BY <1>2 DEF vars, queue, IInv, WaitOnce
    <3>3. WaitersHope' /\ HopefulWait'
      BY <1>2 DEF vars, queue, IInv, WaitersHope, HopefulWait, Hoping, GivingUp
    <3>. QED BY <3>1, <3>2, <3>3
  <2>3. (HistoryIsTold /\ EnterOnce /\ WaitInOrder)'
    BY <1>2 DEF vars, queue, IInv, HistoryIsTold, EnterOnce, WaitInOrder
  <2>4. FirstComeFirstServed'
    BY <1>2 DEF vars, queue, IInv, FirstComeFirstServed, Served, GaveUp, GivingUp
  <2>. QED BY <2>1, <2>2, <2>3, <2>4 DEF IInv
<1>. QED
  BY <1>1, <1>2, ArriveKeeps, EnterKeeps, SelectKeeps, AbandonKeeps, AbandonGrantedKeeps, LeaveKeeps,
     SweepKeeps
  DEF Next, Call

\* The inductive invariant holds in every reachable state.
THEOREM Invariance == Spec => []IInv
BY InitIInv, NextIInv, PTL DEF Spec

\* The turn belongs to a call that will still give it back, and it is not free
\* while somebody waits: whatever is timed out, cancelled or taken over, and
\* even when two pulses present the same id.
THEOREM QueueStaysSound == Spec => []QueueIsSound
<1>1. IInv => QueueIsSound
  BY DEF IInv
<1>. QED BY <1>1, Invariance, PTL

\* The queue serves the pulses in the order in which they got at it.
THEOREM ServesInOrder == Spec => []FirstComeFirstServed
<1>1. IInv => FirstComeFirstServed
  BY DEF IInv
<1>. QED BY <1>1, Invariance, PTL

-----------------------------------------------------------------------------
(* The queue implements the lock *)

\* No two pulses present the same correlation id.
IdsAreUnique == \A p, q \in Pulse : CorrelationOf[p] = CorrelationOf[q] => p = q

LEMMA LockInit == Init => Lock!Init
<1>. SUFFICES ASSUME Init PROVE Lock!Init
  OBVIOUS
<1>1. Status = [p \in Pulse |-> "out"]
  BY DEF Init, Status, ActsOnGrant, GivingUp
<1>. QED BY <1>1 DEF Init, Lock!Init

\* A pulse stands to the turn as before, or is named with what it has become.
LEMMA StatusFollows ==
  ASSUME IInv, NEW p, \A x \in Pulse : x # p => pc'[x] = pc[x],
         NEW d \in {0, 1}, d = 1 => waiting[1] \in Pulse /\ Hoping(waiting[1]) /\ waiting[1] # p,
         granted' = IF d = 1 THEN granted \cup {waiting[1]} ELSE granted,
         p \in Pulse => Status'[p] = Status[p]
  PROVE  /\ d = 0 => Status' = Status
         /\ d = 1 => Status[waiting[1]] = "out" /\ Status' = [Status EXCEPT ![waiting[1]] = "in"]
<1>1. \A x \in Pulse : x # p /\ (d = 1 => x # waiting[1]) => Status'[x] = Status[x]
  BY DEF Status, ActsOnGrant, GivingUp
<1>2. d = 1 => Status[waiting[1]] = "out" /\ Status'[waiting[1]] = "in"
  BY DEF Status, ActsOnGrant, GivingUp, Hoping
<1>3. Status = [x \in Pulse |-> Status[x]] /\ Status' = [x \in Pulse |-> Status'[x]]
  BY DEF Status
<1>. QED BY <1>1, <1>2, <1>3

LEMMA StatusType == ASSUME NEW x \in Pulse, NEW st PROVE [Status EXCEPT ![x] = st][x] = st
BY DEF Status

\* A step that changes nobody's standing is no step of the lock.
LEMMA LockIdles ==
  ASSUME UNCHANGED <<inflight, startedAt, clock, granted>>,
         NEW p \in Pulse, \A x \in Pulse : x # p => pc'[x] = pc[x],
         Status'[p] = Status[p]
  PROVE  UNCHANGED Lock!vars
<1>1. \A x \in Pulse : Status'[x] = Status[x]
  BY DEF Status, ActsOnGrant, GivingUp
<1>2. Status' = Status
  BY <1>1 DEF Status
<1>. QED BY <1>2 DEF Lock!vars

LEMMA LockEnter == ASSUME IInv, NEW p \in Pulse, Enter(p) PROVE [Lock!Next]_(Lock!vars)
<1>1. PICK d \in {0, 1}, a \in {0, 1} :
        /\ LineMoves(d, a, p) /\ CallersMove(a, p)
        /\ a = 0 => waiting = <<>> /\ d = 0 /\ waiting' = <<>> /\ inflight' = p /\ pc'[p] = "holding"
        /\ a = 1 => inflight' # NoPulse /\ pc'[p] = "waiting"
        /\ d = 1 => inflight' = waiting[1]
        /\ d = 0 /\ a = 1 => inflight' = inflight /\ startedAt' = startedAt
        /\ d = 1 \/ (a = 0 /\ inflight # NoPulse) =>
             inflight # NoPulse /\ now[p] > startedAt + MaxHold /\ startedAt' = now[p]
        /\ a = 0 => startedAt' = now[p]
  BY EnterMoves
<1>2. /\ clock' = clock /\ now[p] \in 0..clock /\ clock \in Nat /\ startedAt \in Nat
      /\ now[p] > startedAt + MaxHold => clock - startedAt > MaxHold
  BY QueueAssumption DEF Enter, IInv, QueueIsSound, TypeOK
<1>3. /\ pc[p] = "arrived" /\ p \notin granted
      /\ \A x \in Pulse : x # p => pc'[x] = pc[x]
      /\ granted' = IF d = 1 THEN granted \cup {waiting[1]} ELSE granted
      /\ d = 1 => waiting[1] \in Pulse /\ Hoping(waiting[1]) /\ waiting[1] # p
  <2>1. pc[p] = "arrived" /\ p \notin granted
    BY DEF Enter, IInv, GrantedBefore
  <2>2. d = 1 => 1 \in DOMAIN waiting /\ waiting \in Seq(Pulse)
    BY <1>1 DEF LineMoves, IInv, QueueIsSound, TypeOK
  <2>3. d = 1 => waiting[1] \in Pulse /\ Hoping(waiting[1])
    BY <2>2 DEF IInv, WaitersHope
  <2>. QED BY <1>1, <2>1, <2>3 DEF LineMoves, CallersMove, Hoping, GivingUp
<1>4. CASE a = 1
  <2>1. Status'[p] = Status[p]
    BY <1>1, <1>3, <1>4 DEF Status, ActsOnGrant, GivingUp
  <2>2. CASE d = 0
    <3>1. Status' = Status
      BY <1>3, <2>1, <2>2, StatusFollows
    <3>. QED BY <1>1, <1>2, <1>4, <2>2, <3>1 DEF Lock!vars
  <2>3. CASE d = 1
    <3>1. Status[waiting[1]] = "out" /\ Status' = [Status EXCEPT ![waiting[1]] = "in"]
      BY <1>3, <2>1, <2>3, StatusFollows
    <3>2. Lock!Successor(Status)
      BY <1>1, <1>3, <2>3, <3>1 DEF Lock!Successor
    <3>. QED BY <1>1, <1>2, <2>3, <3>2 DEF Lock!Evict, Lock!Next
  <2>. QED BY <2>2, <2>3
<1>5. CASE a = 0
  <2>1. Status[p] = "out" /\ Status'[p] = "in" /\ \A x \in Pulse : x # p => Status'[x] = Status[x]
    BY <1>1, <1>3, <1>5 DEF Status, ActsOnGrant, GivingUp
  <2>2. Status' = [Status EXCEPT ![p] = "in"]
    <3>1. Status = [x \in Pulse |-> Status[x]] /\ Status' = [x \in Pulse |-> Status'[x]]
      BY DEF Status
    <3>. QED BY <2>1, <3>1
  <2>3. Lock!Successor(Status)
    BY <1>1, <1>5, <2>1, <2>2 DEF Lock!Successor
  <2>4. CASE inflight = NoPulse
    BY <1>1, <1>2, <1>5, <2>3, <2>4 DEF Lock!Take, Lock!Next
  <2>5. CASE inflight # NoPulse
    BY <1>1, <1>2, <1>5, <2>3, <2>5 DEF Lock!Evict, Lock!Next
  <2>. QED BY <2>4, <2>5
<1>. QED BY <1>4, <1>5

LEMMA LockLeave ==
  ASSUME IdsAreUnique, IInv, NEW p \in Pulse, Return(p) \/ Release(p)
  PROVE  Lock!Next
<1>. DEFINE q == Released(Queue, p, clock)
            left == [Status EXCEPT ![p] = "gone"]
<1>1. Leaver(p) /\ Update(q) /\ UNCHANGED <<clock, entered>>
  BY DEF Return, Release, Leave, Leaver, Goto
<1>2. \/ q = Queue /\ inflight # p
      \/ inflight = p /\ (Vacated(q) \/ HandedOn(q, clock))
  <2>1. inflight # NoPulse /\ CorrelationOf[inflight] = CorrelationOf[p] => inflight = p
    BY DEF IdsAreUnique, IInv, QueueIsSound, TypeOK
  <2>. QED BY <2>1, ReleasedMoves, QueueAssumption
<1>3. /\ \A x \in Pulse : x # p => pc'[x] = pc[x]
      /\ \/ pc[p] = "returning" /\ pc'[p] = "lost"
         \/ pc[p] = "holding" /\ pc'[p] = "done"
  BY <1>1, <1>2, LeavingMoves
<1>4. PICK d \in {0, 1} :
        /\ d = 0 => /\ startedAt' = startedAt
                    /\ \/ inflight' = NoPulse /\ waiting = <<>>
                       \/ inflight' = inflight /\ inflight # p /\ q = Queue
        /\ d = 1 => /\ waiting # <<>> /\ inflight' = waiting[1] /\ waiting[1] \in Pulse
                    /\ startedAt' = clock
                    /\ Hoping(waiting[1]) /\ waiting[1] # p
        /\ granted' = IF d = 1 THEN granted \cup {waiting[1]} ELSE granted
  <2>. HIDE DEF q
  <2>1. p \in Pulse => inflight # p \/ Vacated(q) \/ HandedOn(q, clock)
    BY <1>2
  <2>. QED BY <1>1, <1>2, LeavingMoves
<1>5. /\ Status[p] = "in" /\ Status'[p] = "gone"
      /\ \A x \in Pulse : x # p /\ (d = 1 => x # waiting[1]) => Status'[x] = Status[x]
      /\ d = 1 => Status[waiting[1]] = "out" /\ Status'[waiting[1]] = "in"
  BY <1>3, <1>4 DEF Status, ActsOnGrant, GivingUp, Hoping
<1>6. Status = [x \in Pulse |-> Status[x]] /\ Status' = [x \in Pulse |-> Status'[x]]
  BY DEF Status
<1>7. /\ d = 0 => Status' = left
      /\ d = 1 => left[waiting[1]] = "out" /\ Status' = [left EXCEPT ![waiting[1]] = "in"]
  BY <1>4, <1>5, <1>6
<1>8. startedAt' \in 0..clock /\ clock' = clock
  BY <1>1, <1>4, QueueAssumption DEF IInv, QueueIsSound, TypeOK
<1>. HIDE DEF q
<1>9. CASE q = Queue /\ inflight # p
  <2>1. inflight' = inflight /\ startedAt' = startedAt /\ granted' = granted
    BY <1>1, <1>9 DEF Update, Queue
  <2>2. d = 0
    BY <1>4, <2>1 DEF Hoping
  <2>. QED BY <1>5, <1>7, <1>8, <1>9, <2>1, <2>2 DEF Lock!GiveBack, Lock!Next
<1>10. CASE inflight = p
  <2>1. inflight' # inflight
    BY <1>4, <1>10, QueueAssumption
  <2>2. Lock!Successor(left)
    BY <1>4, <1>7, <1>10 DEF Lock!Successor
  <2>. QED BY <1>5, <1>8, <1>10, <2>1, <2>2 DEF Lock!GiveBack, Lock!Next
<1>. QED BY <1>2, <1>9, <1>10

LEMMA LockSweep == ASSUME IInv, Sweep PROVE [Lock!Next]_(Lock!vars)
<1>. DEFINE q == Swept(Queue, clock)
<1>1. Leaver(NoPulse) /\ Update(q) /\ UNCHANGED <<clock, entered, pc>> /\ NoPulse \notin Pulse
  BY QueueAssumption DEF Sweep, Leaver
<1>2. \/ q = Queue
      \/ inflight # NoPulse /\ clock > startedAt + MaxHold /\ (Vacated(q) \/ HandedOn(q, clock))
  BY SweptMoves
<1>. HIDE DEF q
<1>3. CASE q = Queue
  <2>1. UNCHANGED <<inflight, startedAt, granted>>
    BY <1>1, <1>3 DEF Update, Queue
  <2>2. Status' = Status
    BY <1>1, <2>1 DEF Status, ActsOnGrant, GivingUp
  <2>. QED BY <1>1, <2>1, <2>2 DEF Lock!vars
<1>4. CASE inflight # NoPulse /\ clock > startedAt + MaxHold /\ (Vacated(q) \/ HandedOn(q, clock))
  <2>1. PICK d \in {0, 1} :
          /\ d = 0 => startedAt' = startedAt /\ (inflight' = NoPulse \/ q = Queue)
          /\ d = 1 => /\ inflight' = waiting[1] /\ waiting[1] \in Pulse
                      /\ startedAt' = clock
                      /\ Hoping(waiting[1]) /\ waiting[1] # NoPulse
          /\ granted' = IF d = 1 THEN granted \cup {waiting[1]} ELSE granted
    BY <1>1, <1>4, LeavingMoves
  <2>2. q # Queue
    BY <1>4 DEF Vacated, HandedOn, Queue
  <2>3. /\ d = 0 => Status' = Status
        /\ d = 1 => Status[waiting[1]] = "out" /\ Status' = [Status EXCEPT ![waiting[1]] = "in"]
    BY <1>1, <2>1, StatusFollows
  <2>4. Lock!Successor(Status)
    BY <2>1, <2>2, <2>3 DEF Lock!Successor
  <2>5. startedAt' \in 0..clock /\ clock - startedAt > MaxHold
    BY <1>4, <2>1, QueueAssumption DEF IInv, QueueIsSound, TypeOK
  <2>. QED BY <1>1, <1>4, <2>4, <2>5 DEF Lock!Evict, Lock!Next
<1>. QED BY <1>2, <1>3, <1>4

LEMMA LockNext == ASSUME IdsAreUnique, IInv, [Next]_vars PROVE [Lock!Next]_(Lock!vars)
<1>1. ASSUME NEW p \in Pulse, Arrive(p) PROVE [Lock!Next]_(Lock!vars)
  <2>1. /\ UNCHANGED <<inflight, startedAt, clock, granted>> /\ pc[p] = "idle" /\ pc'[p] = "arrived"
        /\ \A x \in Pulse : x # p => pc'[x] = pc[x]
    BY <1>1 DEF Arrive, Goto, queue, IInv, QueueIsSound, TypeOK
  <2>2. Status'[p] = Status[p]
    BY <2>1 DEF Status, ActsOnGrant, GivingUp
  <2>. QED BY <2>1, <2>2, LockIdles
<1>2. ASSUME NEW p \in Pulse, Wake(p) \/ TimeOut(p) \/ Cancel(p) PROVE [Lock!Next]_(Lock!vars)
  <2>1. /\ UNCHANGED <<inflight, startedAt, clock, granted>> /\ pc[p] = "waiting"
        /\ pc'[p] \in {"holding", "timedOut", "cancelled"} /\ (pc'[p] = "holding" => p \in granted)
        /\ \A x \in Pulse : x # p => pc'[x] = pc[x]
    BY <1>2 DEF Wake, TimeOut, Cancel, Select, Goto, queue, IInv, QueueIsSound, TypeOK
  <2>2. Status'[p] = Status[p]
    BY <2>1 DEF Status, ActsOnGrant, GivingUp
  <2>. QED BY <2>1, <2>2, LockIdles
<1>3. ASSUME NEW p \in Pulse, AbandonGranted(p) PROVE [Lock!Next]_(Lock!vars)
  <2>1. /\ UNCHANGED <<inflight, startedAt, clock, granted>> /\ GivingUp(p) /\ p \in granted
        /\ pc'[p] = "returning" /\ \A x \in Pulse : x # p => pc'[x] = pc[x]
    BY <1>3 DEF AbandonGranted, Goto, queue, IInv, QueueIsSound, TypeOK
  <2>2. Status'[p] = Status[p]
    BY <2>1 DEF Status, ActsOnGrant, GivingUp
  <2>. QED BY <2>1, <2>2, LockIdles
<1>4. ASSUME NEW p \in Pulse, Abandon(p) PROVE [Lock!Next]_(Lock!vars)
  <2>1. /\ UNCHANGED <<inflight, startedAt, clock, granted>> /\ GivingUp(p) /\ p \notin granted
        /\ pc'[p] = "refused" /\ \A x \in Pulse : x # p => pc'[x] = pc[x]
    BY <1>4 DEF Abandon, Goto, IInv, QueueIsSound, TypeOK
  <2>2. Status[p] = "out" /\ Status'[p] = "gone" /\ \A x \in Pulse : x # p => Status'[x] = Status[x]
    BY <2>1 DEF Status, ActsOnGrant, GivingUp
  <2>3. Status = [x \in Pulse |-> Status[x]] /\ Status' = [x \in Pulse |-> Status'[x]]
    BY DEF Status
  <2>4. Status' = [Status EXCEPT ![p] = "gone"]
    BY <2>2, <2>3
  <2>. QED BY <2>1, <2>2, <2>4 DEF Lock!Leave, Lock!Next
<1>5. CASE Tick
  <2>1. Status' = Status
    BY <1>5 DEF Tick, queue, Status, ActsOnGrant, GivingUp
  <2>. QED BY <1>5, <2>1 DEF Tick, queue, Lock!Tick, Lock!Next
<1>6. CASE UNCHANGED vars
  <2>1. Status' = Status
    BY <1>6 DEF vars, queue, Status, ActsOnGrant, GivingUp
  <2>. QED BY <1>6, <2>1 DEF vars, queue, Lock!vars
<1>. QED
  BY <1>1, <1>2, <1>3, <1>4, <1>5, <1>6, LockEnter, LockLeave, LockSweep
  DEF Next, Call

\* As long as no two pulses present the same id the queue is a lock: one owner
\* at a time, that nobody but itself or the limit on holding takes it from.
THEOREM ImplementsLock == ASSUME IdsAreUnique PROVE Spec => LockSpec
<1>1. IInv /\ [Next]_vars => [Lock!Next]_(Lock!vars)
  BY LockNext
<1>. QED BY <1>1, LockInit, Invariance, PTL DEF Spec, LockSpec, Lock!Spec
===============================================================================
