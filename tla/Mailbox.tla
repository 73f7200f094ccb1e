-------------------------------- MODULE Mailbox --------------------------------
(***************************************************************************)
(* The durable mailbox (dsh-plugins/mailbox): one future, a row with a     *)
(* time to live.  Agents wait for it by polling, others settle it, a sweep *)
(* moves what has expired to the dead letters; everyone judges the time by *)
(* the clock of the database, at the beginning of a statement.             *)
(*                                                                         *)
(* Deliveries are repeated: the row is created again and again, and who    *)
(* settles may hear of an error and settle once more.                      *)
(***************************************************************************)
EXTENDS Naturals

CONSTANTS
  Waiter, Settler,
  Rejecting,   \* the settlers that report a failure, the others a value
  Ttl,         \* how long the future lives
  MaxRepeat,   \* bound: how often a settler starts again
  None

VARIABLES
  future,   \* mailbox_future, [state, by, left]: the value stands for who sent it, left for the time until expires_at; or None
  settle,   \* per settler [at, intime, repeats]; intime: it saw the row, and its now() falls before the row's end
  result,   \* what a settler was last told, [status, state], or None
  waiter    \* per waiter [at, outcome, by, after]; after: history, somebody had been told "settled" when it began to wait

mailboxVars == <<future, settle, result, waiter>>

States == {"pending", "resolved", "rejected", "expired"}

NotAsked == [at |-> "idle", intime |-> FALSE, repeats |-> 0]
NotWaiting == [at |-> "idle", outcome |-> None, by |-> None, after |-> FALSE]

MailboxInit ==
  /\ future = None
  /\ settle = [s \in Settler |-> NotAsked]
  /\ result = [s \in Settler |-> None]
  /\ waiter = [w \in Waiter |-> NotWaiting]

MailboxTypeOK ==
  /\ future # None => future \in [state : States, by : Settler \cup {None}, left : 0 .. Ttl]
  /\ \A s \in Settler : settle[s] \in [at : {"idle", "updating", "reading", "done"}, intime : BOOLEAN, repeats : 0 .. MaxRepeat]
  /\ \A w \in Waiter : waiter[w].at \in {"idle", "waiting", "done"} /\ waiter[w].after \in BOOLEAN

-----------------------------------------------------------------------------
(* The row.                                                                *)

isExpired == future.state = "pending" /\ future.left = 0

\* Mutant: a row that has run out is pending until the sweep has seen it.
StoredState == future.state

\* What is_expired and the column say.
effectiveState == IF isExpired THEN "expired" ELSE future.state

Fresh == [state |-> "pending", by |-> None, left |-> Ttl]

\* Mutant: creating the future again gives it its time anew.
CreatedAnew == IF future = None THEN Fresh ELSE [future EXCEPT !.left = Ttl]
Created == IF future = None THEN Fresh ELSE future

Create ==
  /\ future' = Created
  /\ UNCHANGED <<settle, result, waiter>>

\* Mutant: the sweep does not ask whether the future is settled.
SweptAny == future.left = 0
Swept == isExpired

Sweep ==
  /\ future # None /\ Swept
  /\ future' = [future EXCEPT !.state = "expired"]
  /\ UNCHANGED <<settle, result, waiter>>

Tick ==
  /\ future # None /\ future.left > 0
  /\ future' = [future EXCEPT !.left = @ - 1]
  /\ UNCHANGED <<settle, result, waiter>>

-----------------------------------------------------------------------------
(* settle, of resolve and reject.                                          *)

Ask(s) ==
  /\ settle[s].at = "idle"
  /\ settle' = [settle EXCEPT ![s].at = "updating", ![s].intime = future # None /\ future.left > 0]
  /\ UNCHANGED <<future, result, waiter>>

\* Mutant: who comes second overwrites what the first sent.
OpenToAll(s) == settle[s].intime
Open(s) == settle[s].intime /\ future.state = "pending"

\* The statement takes effect, which may be long after its now(): it waits for the row's lock.
Update(s) ==
  /\ settle[s].at = "updating"
  /\ IF Open(s)
     THEN /\ future' = [future EXCEPT !.state = IF s \in Rejecting THEN "rejected" ELSE "resolved", !.by = s]
          /\ settle' = [settle EXCEPT ![s].at = "done"]
          /\ result' = [result EXCEPT ![s] = [status |-> "settled", state |-> future'.state]]
     ELSE settle' = [settle EXCEPT ![s].at = "reading"] /\ UNCHANGED <<future, result>>
  /\ UNCHANGED waiter

Read(s) ==
  /\ settle[s].at = "reading"
  /\ settle' = [settle EXCEPT ![s].at = "done"]
  /\ result' = [result EXCEPT ![s] =
       IF future = None THEN [status |-> "unknown", state |-> None]
       ELSE [status |-> "already-settled", state |-> effectiveState]]
  /\ UNCHANGED <<future, waiter>>

\* The answer does not come, or the caller asks once more: the delivery is repeated.
AskAgain(s) ==
  /\ settle[s].at # "idle" /\ settle[s].repeats < MaxRepeat
  /\ settle' = [settle EXCEPT ![s] = [NotAsked EXCEPT !.repeats = settle[s].repeats + 1]]
  /\ UNCHANGED <<future, result, waiter>>

-----------------------------------------------------------------------------
(* wait.                                                                   *)

Settled(s) == result[s] # None /\ result[s].status = "settled"

BeginWait(w) ==
  /\ waiter[w].at = "idle"
  /\ waiter' = [waiter EXCEPT ![w].at = "waiting", ![w].after = \E s \in Settler : Settled(s)]
  /\ UNCHANGED <<future, settle, result>>

Told(w, outcome, by) ==
  waiter' = [waiter EXCEPT ![w].at = "done", ![w].outcome = outcome, ![w].by = by]

\* A poll: the future is not there, it has ended, or the poll is repeated.
Poll(w) ==
  /\ waiter[w].at = "waiting"
  /\ \/ future = None /\ Told(w, "missing", None)
     \/ future # None /\ effectiveState # "pending" /\ Told(w, effectiveState, future.by)
  /\ UNCHANGED <<future, settle, result>>

\* The caller's own patience ends, of which it is told in the words of an expiry.
GiveUp(w) ==
  /\ waiter[w].at = "waiting" /\ future # None /\ effectiveState = "pending"
  /\ Told(w, "patience", None)
  /\ UNCHANGED <<future, settle, result>>

MailboxNext ==
  \/ Create \/ Sweep \/ Tick
  \/ \E s \in Settler : Ask(s) \/ Update(s) \/ Read(s) \/ AskAgain(s)
  \/ \E w \in Waiter : BeginWait(w) \/ Poll(w) \/ GiveUp(w)

MailboxSpec == MailboxInit /\ [][MailboxNext]_mailboxVars

-----------------------------------------------------------------------------
(* Properties.                                                             *)

Final == {"resolved", "rejected"}

\* The first one counts: who was told that it settled the future did, and nobody else was ("first settlement wins, a repeated
\* delivery does not overwrite it", pg-mailbox.ts).
FirstSettles == \A s \in Settler : Settled(s) => future.by = s /\ future.state = result[s].state

\* Whoever is told of a value or a failure is told the same, that of the one that settled, and whoever begins to wait when
\* somebody knows that it settled hears of it, however late it is ("resolve before wait", seam-contracts/mailbox.ts).
WaitersAgree ==
  \A w \in Waiter : waiter[w].at = "done" =>
    /\ waiter[w].outcome \in Final => future.state = waiter[w].outcome /\ future.by = waiter[w].by
    /\ waiter[w].after => waiter[w].outcome \in Final

MailboxHolds == MailboxTypeOK /\ FirstSettles /\ WaitersAgree

\* Stated and not kept: what a waiter was told has expired is not settled afterwards ("or it is executed twice", settle). An
\* UPDATE that has read the clock in time and waits for the row's lock, or commits slowly, settles it after that.
ExpiredStays == \A w \in Waiter : waiter[w].outcome = "expired" => future.state \notin Final

\* Stated and not kept: "already-settled: it has ended" (SettleOutcome). The row may be created between the two statements.
AlreadySettledHasEnded == \A s \in Settler : result[s] # None /\ result[s].status = "already-settled" => result[s].state # "pending"

\* For the liveness run: nobody waits, whatever becomes of the sweep and of those that settle ("no waiting for ever").
NobodyWaits == \A w \in Waiter : waiter[w].at # "waiting"
===============================================================================
