------------------------------ MODULE Metering ------------------------------
(***************************************************************************)
(* What a model call costs: the reservation and the commit of the gateway  *)
(* (platform/control-plane/llm-gateway/internal/server chat, internal/     *)
(* gateway, internal/store Reserve and Commit, internal/domain budget.go), *)
(* the publisher of the outbox (usage-ledger/internal/rmqpublish) and the  *)
(* consumer that writes the ledger (internal/rmqconsume, internal/ledger). *)
(* The broker delivers at least once, in any order.                        *)
(***************************************************************************)
EXTENDS Naturals, Integers, FiniteSets, Sequences

CONSTANTS
  Call,       \* the calls of the gateway
  Tree,       \* the budget trees a call is charged to: its user's and its project's
  Total,      \* budget_total of a tree
  Soft,       \* soft_limit of a tree
  Overdraft,  \* overdraft of a tree
  Usage,      \* what a provider may report for a call, in tokens
  Publisher,  \* the publishers
  BatchSize,  \* rows of a publisher's batch
  Consumer,   \* the consumers
  MaxRetry,   \* failures after which a consumer gives a message up
  MaxMessage, \* bound: messages the broker ever has
  MaxCrash,   \* bound: crashes
  Disconnects \* the client of a call may go away

None == 0

VARIABLES
  tree,      \* [Tree -> budget_trees.budget: what is left, negative when overdrawn]
  call,      \* [Call -> [at, usage, gone]]; at: "idle", "approved", "answered", "charged", "unmetered" or "refused"
  outbox,    \* usage_event_outbox, in the order of seq: [call, published]
  batch,     \* [Publisher -> the rows of its open transaction, and how many of them are sent]
  broker,    \* [1 .. MaxMessage -> [call, at]]; at: "none", "ready", "taken" or "acked"
  consumer,  \* [Consumer -> the message in hand, and whether it is written]
  attempts,  \* [Consumer -> [1 .. MaxMessage -> failures of a message it remembers]]
  ledger,    \* usage_ledger: [Call -> rows with this event]
  dropped,   \* ghost: the events whose message was given up
  peak,      \* ghost: the most calls ever on their way at once
  crashes    \* bound: crashes so far

meteringVars == <<tree, call, outbox, batch, broker, consumer, attempts, ledger, dropped, peak, crashes>>

Message == 1 .. MaxMessage
NoBatch == [rows |-> <<>>, sent |-> 0]
NothingInHand == [message |-> None, written |-> FALSE]

MeteringInit ==
  /\ tree = [t \in Tree |-> Total]
  /\ call = [c \in Call |-> [at |-> "idle", usage |-> None, gone |-> FALSE]]
  /\ outbox = <<>>
  /\ batch = [p \in Publisher |-> NoBatch]
  /\ broker = [m \in Message |-> [call |-> None, at |-> "none"]]
  /\ consumer = [w \in Consumer |-> NothingInHand]
  /\ attempts = [w \in Consumer |-> [m \in Message |-> 0]]
  /\ ledger = [c \in Call |-> 0]
  /\ dropped = {} /\ peak = 0 /\ crashes = 0

books == <<tree, call, peak>>
transport == <<batch, broker, consumer, attempts, ledger, dropped, crashes>>

\* BudgetState, of what would be used.
BudgetState(used) == IF used < Soft THEN "within" ELSE IF used < Total THEN "soft" ELSE IF used < Total + Overdraft THEN "overdraft" ELSE "hard"

\* Mutant: a call without an estimate needs nothing.
StateOfTreeFree(t) == BudgetState(Total - tree[t])

\* StateOfTree, with the one token a call without an estimate is taken to need.
StateOfTree(t) == BudgetState(Total - tree[t] + 1)

OnTheirWay == {c \in Call : call[c].at \in {"approved", "answered"}}

\* Reserve: nothing is set aside; the call is refused when one of its trees is hard.
Reserve(c) ==
  /\ call[c].at = "idle"
  /\ IF \E t \in Tree : StateOfTree(t) = "hard"
     THEN call' = [call EXCEPT ![c].at = "refused"] /\ UNCHANGED peak
     ELSE /\ call' = [call EXCEPT ![c].at = "approved"]
          /\ peak' = IF Cardinality(OnTheirWay) + 1 > peak THEN Cardinality(OnTheirWay) + 1 ELSE peak
  /\ UNCHANGED <<tree, outbox>> /\ UNCHANGED transport

\* Provider, Acquire and forward: unknown model, cancelled wait or unreachable provider, and nothing to charge.
Unanswered(c) ==
  /\ call[c].at = "approved"
  /\ call' = [call EXCEPT ![c].at = "unmetered"]
  /\ UNCHANGED <<tree, outbox, peak>> /\ UNCHANGED transport

\* Chat or ChatStream: the provider's answer, with the usage seen in it, or none; the provider's connection ends with the client's.
Answer(c, usage) ==
  /\ call[c].at = "approved" /\ (call[c].gone => usage = None)
  /\ call' = [call EXCEPT ![c].at = "answered", ![c].usage = usage]
  /\ UNCHANGED <<tree, outbox, peak>> /\ UNCHANGED transport

\* The client goes away; the request's context, with which the commit runs, ends.
Disconnect(c) ==
  /\ Disconnects /\ call[c].at \in {"approved", "answered"} /\ ~call[c].gone
  /\ call' = [call EXCEPT ![c].gone = TRUE]
  /\ UNCHANGED <<tree, outbox, peak>> /\ UNCHANGED transport

\* Mutant: the project's tree is charged only when the user's has something left.
ChargedWhileLeft(c) == [t \in Tree |-> IF tree[t] > 0 THEN tree[t] - call[c].usage ELSE tree[t]]

\* The trees after the charge: unconditional, and below zero when it must be.
Charged(c) == [t \in Tree |-> tree[t] - call[c].usage]

\* meter and Commit: both trees and the outbox in one transaction, under the context of the request.
Commit(c) ==
  /\ call[c].at = "answered" /\ ~call[c].gone
  /\ call' = [call EXCEPT ![c].at = "charged"]
  /\ tree' = Charged(c)
  /\ outbox' = Append(outbox, [call |-> c, published |-> FALSE])
  /\ UNCHANGED peak /\ UNCHANGED transport

\* The commit of a call whose context has ended, or that the database refuses: logged, and gone.
CommitFails(c) ==
  /\ call[c].at = "answered" /\ (call[c].gone \/ MaxCrash > 0)
  /\ call' = [call EXCEPT ![c].at = "unmetered"]
  /\ UNCHANGED <<tree, outbox, peak>> /\ UNCHANGED transport

Locked == UNION {{batch[p].rows[i] : i \in DOMAIN batch[p].rows} : p \in Publisher}
Unpublished == {i \in DOMAIN outbox : ~outbox[i].published /\ i \notin Locked}

\* The first n of a set of rows.
Leading(rows, n) ==
  LET rank(i) == Cardinality({j \in rows : j < i}) + 1
      k == IF Cardinality(rows) < n THEN Cardinality(rows) ELSE n
  IN [x \in 1 .. k |-> CHOOSE i \in rows : rank(i) = x]

\* PublishOnce: FOR UPDATE SKIP LOCKED, in the order of seq.
TakeBatch(p) ==
  /\ batch[p] = NoBatch /\ Unpublished # {}
  /\ batch' = [batch EXCEPT ![p].rows = Leading(Unpublished, BatchSize)]
  /\ UNCHANGED <<outbox, broker, consumer, attempts, ledger, dropped, crashes>> /\ UNCHANGED books

Free == {m \in Message : broker[m].at = "none"}

\* Send, of the next row of the batch.
Send(p) ==
  \E m \in Free :
    /\ \A x \in Free : m <= x
    /\ batch[p].sent < Len(batch[p].rows)
    /\ broker' = [broker EXCEPT ![m] = [call |-> outbox[batch[p].rows[batch[p].sent + 1]].call, at |-> "ready"]]
    /\ batch' = [batch EXCEPT ![p].sent = @ + 1]
    /\ UNCHANGED <<outbox, consumer, attempts, ledger, dropped, crashes>> /\ UNCHANGED books

\* Mutant: the batch is marked as soon as its first row is out.
SentSome(p) == batch[p].sent > 0

SentAll(p) == batch[p].sent = Len(batch[p].rows)

\* published_at for the batch, and the end of its transaction.
MarkPublished(p) ==
  /\ batch[p] # NoBatch /\ SentAll(p)
  /\ outbox' = [i \in DOMAIN outbox |-> IF \E x \in DOMAIN batch[p].rows : batch[p].rows[x] = i THEN [outbox[i] EXCEPT !.published = TRUE] ELSE outbox[i]]
  /\ batch' = [batch EXCEPT ![p] = NoBatch]
  /\ UNCHANGED <<broker, consumer, attempts, ledger, dropped, crashes>> /\ UNCHANGED books

\* A send that fails, or a crash: the transaction is rolled back and what was sent will be sent again.
AbandonBatch(p) ==
  /\ batch[p] # NoBatch /\ crashes < MaxCrash
  /\ crashes' = crashes + 1
  /\ batch' = [batch EXCEPT ![p] = NoBatch]
  /\ UNCHANGED <<outbox, broker, consumer, attempts, ledger, dropped>> /\ UNCHANGED books

\* Receive
Receive(w, m) ==
  /\ consumer[w] = NothingInHand /\ broker[m].at = "ready"
  /\ broker' = [broker EXCEPT ![m].at = "taken"]
  /\ consumer' = [consumer EXCEPT ![w].message = m]
  /\ UNCHANGED <<outbox, batch, attempts, ledger, dropped, crashes>> /\ UNCHANGED books

\* The message stays invisible for a while only: the broker hands it out again, whatever became of it.
Redeliver(m) ==
  /\ broker[m].at = "taken"
  /\ broker' = [broker EXCEPT ![m].at = "ready"]
  /\ UNCHANGED <<outbox, batch, consumer, attempts, ledger, dropped, crashes>> /\ UNCHANGED books

\* Mutant: the event key is not looked at.
WrittenAgain(c) == ledger[c] + 1

\* ON CONFLICT (event_key) DO NOTHING
Written(c) == IF ledger[c] = 0 THEN 1 ELSE ledger[c]

\* handle: BatchInsert succeeds, and the failures of this message are forgotten.
Insert(w) ==
  LET m == consumer[w].message
  IN /\ m # None /\ ~consumer[w].written
     /\ ledger' = [ledger EXCEPT ![broker[m].call] = Written(broker[m].call)]
     /\ attempts' = [attempts EXCEPT ![w][m] = 0]
     /\ consumer' = [consumer EXCEPT ![w].written = TRUE]
     /\ UNCHANGED <<outbox, batch, broker, dropped, crashes>> /\ UNCHANGED books

\* BatchInsert fails: the message is left to its redelivery, or given up and acknowledged.
InsertFails(w) ==
  LET m == consumer[w].message
      last == attempts[w][m] + 1 >= MaxRetry
  IN /\ m # None /\ ~consumer[w].written
     /\ attempts' = [attempts EXCEPT ![w][m] = IF last THEN 0 ELSE @ + 1]
     /\ dropped' = IF last THEN dropped \cup {broker[m].call} ELSE dropped
     /\ broker' = IF last THEN [broker EXCEPT ![m].at = "acked"] ELSE broker
     /\ consumer' = [consumer EXCEPT ![w] = NothingInHand]
     /\ UNCHANGED <<outbox, batch, ledger, crashes>> /\ UNCHANGED books

\* Ack, or an Ack that fails and leaves the message to its redelivery.
Ack(w, arrives) ==
  /\ consumer[w].written
  /\ broker' = IF arrives THEN [broker EXCEPT ![consumer[w].message].at = "acked"] ELSE broker
  /\ consumer' = [consumer EXCEPT ![w] = NothingInHand]
  /\ UNCHANGED <<outbox, batch, attempts, ledger, dropped, crashes>> /\ UNCHANGED books

\* A consumer restarts: what it held, and its counts of failures, are gone.
Restart(w) ==
  /\ crashes < MaxCrash /\ consumer[w] # NothingInHand
  /\ crashes' = crashes + 1
  /\ consumer' = [consumer EXCEPT ![w] = NothingInHand]
  /\ attempts' = [attempts EXCEPT ![w] = [m \in Message |-> 0]]
  /\ UNCHANGED <<outbox, batch, broker, ledger, dropped>> /\ UNCHANGED books

\* A publisher's round, and a consumer's dealing with a message.
Publish(p) == TakeBatch(p) \/ Send(p) \/ MarkPublished(p)
Consume(w) == Insert(w) \/ InsertFails(w) \/ Ack(w, TRUE) \/ Ack(w, FALSE)

MeteringNext ==
  \/ \E c \in Call : Reserve(c) \/ Unanswered(c) \/ Disconnect(c) \/ Commit(c) \/ CommitFails(c) \/ \E u \in Usage : Answer(c, u)
  \/ \E p \in Publisher : Publish(p) \/ AbandonBatch(p)
  \/ \E w \in Consumer : Consume(w) \/ Restart(w) \/ \E m \in Message : Receive(w, m)
  \/ \E m \in Message : Redeliver(m)

MeteringSpec == MeteringInit /\ [][MeteringNext]_meteringVars

-----------------------------------------------------------------------------

Summed == LET upTo[i \in 0 .. Len(outbox)] == IF i = 0 THEN 0 ELSE upTo[i - 1] + call[outbox[i].call].usage IN upTo[Len(outbox)]

\* What the trees have lost is what the outbox says was used, however calls, charges and crashes interleave (store.go
\* "单事务——双树无条件扣减").
BooksBalance == \A t \in Tree : Total - tree[t] = Summed

Most == CHOOSE u \in Usage : \A v \in Usage : v <= u

\* Nothing is set aside when a call is approved, so a tree can be overrun; but no further than by the calls that are on
\* their way at once: what the last token lets in is charged, and then the tree is hard (domain/budget.go BudgetState).
OverrunIsBounded == \A t \in Tree : tree[t] >= 2 - Overdraft - Most * peak

Delivered(c) == \E m \in Message : broker[m].call = c /\ broker[m].at \in {"ready", "taken"}

\* An event that was charged for is not lost and not counted twice, through rollbacks, crashes and redeliveries: it waits
\* in the outbox, or is with the broker, or has its one row in the ledger, or was given up after MaxRetry failures.
NothingVanishes ==
  /\ \A i \in DOMAIN outbox : LET c == outbox[i].call IN ~outbox[i].published \/ Delivered(c) \/ ledger[c] = 1 \/ c \in dropped
  /\ \A c \in Call : ledger[c] <= 1 /\ (ledger[c] = 1 => call[c].at = "charged")

\* What was charged for has its row in the ledger or was given up.
Settled == \A c \in Call : call[c].at = "charged" => ledger[c] = 1 \/ c \in dropped

MeteringHolds == BooksBalance /\ OverrunIsBounded /\ NothingVanishes

\* What an answer says was used is charged, even when its stream breaks off (gateway.go:159 "usage 若已见则照计（部分输出
\* 的钱也是钱）"); the commit runs under the context of the request, which ends with its client.
SeenUsageIsCharged == \A c \in Call : call[c].at = "unmetered" => call[c].usage = None
=============================================================================
