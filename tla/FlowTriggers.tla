----------------------------- MODULE FlowTriggers -----------------------------
(***************************************************************************)
(* Triggers of flows and the attempts they cause (platform/control-plane/  *)
(* flows: internal/store/store.go, execution.go, internal/trigger, and the *)
(* subscriber in cmd/flows/main.go).  An event, a cron firing or a replay  *)
(* is a row of the outbox; a worker claims it, fixes its bindings, runs    *)
(* each bound automation once, records the outcome and acknowledges.       *)
(*                                                                         *)
(* One realm, one event name that every automation subscribes to.  Ages    *)
(* are counted in periods; Expiry of them make a claim or a run stale.     *)
(***************************************************************************)
EXTENDS Naturals, FiniteSets

CONSTANTS
  Automation,  \* numbers of automations, in the order of their identifiers
  Worker,      \* the workers of the replicas
  MaxTrigger,  \* bound: rows of the outbox
  MaxVersion,  \* bound: versions published of each flow
  MaxClaim,    \* bound: claims of one row
  Expiry,      \* periods after which a claim or an attempt is stale
  None

VARIABLES
  outbox,   \* flow_trigger_outbox
  bound,    \* flow_trigger_bindings
  run,      \* flow_runs: one row for each trigger and automation at most
  version,  \* the version that each automation's flow points at
  enabled,  \* the automations that are switched on
  worker,   \* each worker's delivery
  executed  \* history: how often the engine was given a trigger's automation

triggerVars == <<outbox, bound, run, version, enabled, worker, executed>>

Trigger == 1 .. MaxTrigger
Absent == [kind |-> "none"]
NoRun == [status |-> "none", version |-> 0, age |-> 0]
Idle == [pc |-> "idle", trigger |-> None, token |-> 0, todo |-> {}, at |-> None]

TriggerInit ==
  /\ outbox = [t \in Trigger |-> Absent]
  /\ bound = [t \in Trigger |-> {}]
  /\ run = [t \in Trigger |-> [a \in Automation |-> NoRun]]
  /\ version = [a \in Automation |-> 1]
  /\ enabled = Automation
  /\ worker = [w \in Worker |-> Idle]
  /\ executed = [t \in Trigger |-> [a \in Automation |-> 0]]

-----------------------------------------------------------------------------
(* What is queued.                                                         *)

Queued == {t \in Trigger : outbox[t].kind # "none"}

Insert(kind, target, of) ==
  \E t \in Trigger \ Queued :
    /\ \A u \in Trigger : u < t => u \in Queued
    /\ outbox' = [outbox EXCEPT ![t] = [kind |-> kind, target |-> target, of |-> of, claimed |-> FALSE,
                    token |-> 0, age |-> 0, delivered |-> FALSE, prepared |-> FALSE]]
    /\ UNCHANGED <<bound, run, version, enabled, worker, executed>>

EnqueueTrigger == Insert("event", None, None)

\* The firing of a cursor, which names its automation.
EnqueueCron(a) == Insert("cron", a, None)

Failed(t, a) == run[t][a].status = "failed"

\* The unique index flow_trigger_replay_once.
Replayable(t, a) == Failed(t, a) /\ \A u \in Queued : outbox[u].of # <<t, a>>

EnqueueReplay(t, a) == Replayable(t, a) /\ Insert("replay", a, <<t, a>>)

\* A version is published or pointed at again; an automation is switched on or off.
Publish(a, v) ==
  /\ version' = [version EXCEPT ![a] = v] /\ version' # version
  /\ UNCHANGED <<outbox, bound, run, enabled, worker, executed>>

Switch(a) ==
  /\ enabled' = IF a \in enabled THEN enabled \ {a} ELSE enabled \cup {a}
  /\ UNCHANGED <<outbox, bound, run, version, worker, executed>>

-----------------------------------------------------------------------------
(* Claims.                                                                 *)

Claimable(t) == t \in Queued /\ ~outbox[t].delivered /\ ~outbox[t].claimed

\* Mutant: the claim of a worker that has begun to deliver is never stale.
StaleUnprepared(t) == outbox[t].claimed /\ outbox[t].age >= Expiry /\ ~outbox[t].prepared

Stale(t) == outbox[t].claimed /\ outbox[t].age >= Expiry

RequeueStaleTriggers ==
  LET stale == {t \in Queued : Stale(t)} IN
  /\ stale # {}
  /\ outbox' = [t \in Trigger |-> IF t \in stale THEN [outbox[t] EXCEPT !.claimed = FALSE, !.age = 0] ELSE outbox[t]]
  /\ UNCHANGED <<bound, run, version, enabled, worker, executed>>

ClaimTriggers(w) ==
  \E t \in Trigger :
    /\ worker[w] = Idle /\ Claimable(t) /\ \A u \in Trigger : u < t => ~Claimable(u)
    /\ outbox[t].token < MaxClaim
    /\ outbox' = [outbox EXCEPT ![t].claimed = TRUE, ![t].token = @ + 1, ![t].age = 0]
    /\ worker' = [worker EXCEPT ![w] = [Idle EXCEPT !.pc = "prepare", !.trigger = t, !.token = outbox[t].token + 1]]
    /\ UNCHANGED <<bound, run, version, enabled, executed>>

\* The claim is the worker's, and not delivered.
Holds(w) == LET row == outbox[worker[w].trigger] IN row.claimed /\ row.token = worker[w].token

\* A claim that is lost cancels the delivery.
RenewTrigger(w) ==
  /\ worker[w].pc # "idle"
  /\ IF Holds(w)
     THEN outbox' = [outbox EXCEPT ![worker[w].trigger].age = 0] /\ UNCHANGED worker /\ outbox' # outbox
     ELSE worker' = [worker EXCEPT ![w] = Idle] /\ UNCHANGED outbox
  /\ UNCHANGED <<bound, run, version, enabled, executed>>

AckTrigger(w) ==
  /\ worker[w].pc = "deliver" /\ worker[w].todo = {}
  /\ outbox' = IF Holds(w) THEN [outbox EXCEPT ![worker[w].trigger].claimed = FALSE, ![worker[w].trigger].delivered = TRUE] ELSE outbox
  /\ worker' = [worker EXCEPT ![w] = Idle]
  /\ UNCHANGED <<bound, run, version, enabled, executed>>

\* An error, a cancelled context or a crash: the claim and the run stay as they are.
Abandon(w) ==
  /\ worker[w].pc # "idle" /\ worker' = [worker EXCEPT ![w] = Idle]
  /\ UNCHANGED <<outbox, bound, run, version, enabled, executed>>

\* A period passes.
Tick ==
  LET Older(k) == IF k < Expiry THEN k + 1 ELSE k IN
  /\ outbox' = [t \in Trigger |-> IF t \in Queued /\ outbox[t].claimed THEN [outbox[t] EXCEPT !.age = Older(@)] ELSE outbox[t]]
  /\ run' = [t \in Trigger |-> [a \in Automation |->
       IF run[t][a].status = "running" THEN [run[t][a] EXCEPT !.age = Older(@)] ELSE run[t][a]]]
  /\ <<outbox', run'>> # <<outbox, run>>
  /\ UNCHANGED <<bound, version, enabled, worker, executed>>

-----------------------------------------------------------------------------
(* A delivery.                                                             *)

\* Mutant: a replay runs what its automation points at today.
BindingsOfToday(row) == {[automation |-> a, version |-> version[a]] : a \in {b \in enabled : row.target \in {None, b}}}

\* Events fan out to the enabled automations, a cron firing goes to its own, a replay is pinned.
BindingsOf(row) ==
  IF row.kind = "replay"
  THEN {[automation |-> row.target, version |-> run[row.of[1]][row.of[2]].version]}
  ELSE {[automation |-> a, version |-> version[a]] : a \in {b \in enabled : row.kind = "cron" => b = row.target}}

\* PrepareTriggerBindings: the bindings of the first delivery are those of all.
PrepareTriggerBindings(w) ==
  LET t == worker[w].trigger
      now == IF outbox[t].prepared THEN bound[t] ELSE BindingsOf(outbox[t])
  IN
  /\ worker[w].pc = "prepare"
  /\ bound' = [bound EXCEPT ![t] = now]
  /\ outbox' = [outbox EXCEPT ![t].prepared = TRUE]
  /\ worker' = [worker EXCEPT ![w].pc = "deliver", ![w].todo = now]
  /\ UNCHANGED <<run, version, enabled, executed>>

\* The bindings are served in the order of the automations.
NextBinding(w) == CHOOSE b \in worker[w].todo : \A c \in worker[w].todo : b.automation <= c.automation

\* Mutant: a live duplicate is passed over.
PassesAny(r) == TRUE

\* A duplicate is passed over once its attempt has ended; an attempt that is stale ends now.
Passes(r) == r.status \in {"succeeded", "failed"}

Expired(r) == IF r.status = "running" /\ r.age >= Expiry THEN [r EXCEPT !.status = "failed", !.age = 0] ELSE r

StartTriggerRun(w) ==
  LET t == worker[w].trigger
      b == NextBinding(w)
      r == Expired(run[t][b.automation])
  IN
  /\ worker[w].pc = "deliver" /\ worker[w].todo # {}
  /\ IF run[t][b.automation] = NoRun
     THEN /\ run' = [run EXCEPT ![t][b.automation] = [status |-> "running", version |-> b.version, age |-> 0]]
          /\ executed' = [executed EXCEPT ![t][b.automation] = @ + 1]
          /\ worker' = [worker EXCEPT ![w].pc = "execute", ![w].todo = @ \ {b}, ![w].at = b.automation]
     ELSE /\ run' = [run EXCEPT ![t][b.automation] = r]
          /\ worker' = [worker EXCEPT ![w] = IF Passes(r) THEN [@ EXCEPT !.todo = @ \ {b}] ELSE Idle]
          /\ UNCHANGED executed
  /\ UNCHANGED <<outbox, bound, version, enabled>>

\* Mutant: the outcome is written whatever became of the attempt.
FinishableEver(r) == TRUE

Finishable(r) == r.status = "running" /\ r.age < Expiry

\* FinishTriggerRun; an attempt that is final or expired ends the delivery.
FinishTriggerRun(w, status) ==
  LET t == worker[w].trigger  a == worker[w].at IN
  /\ worker[w].pc = "execute"
  /\ IF Finishable(run[t][a])
     THEN /\ run' = [run EXCEPT ![t][a].status = status, ![t][a].age = 0]
          /\ worker' = [worker EXCEPT ![w].pc = "deliver", ![w].at = None]
     ELSE /\ worker' = [worker EXCEPT ![w] = Idle] /\ UNCHANGED run
  /\ UNCHANGED <<outbox, bound, version, enabled, executed>>

-----------------------------------------------------------------------------
\* A worker's steps of a delivery.
Deliver(w) ==
  \/ ClaimTriggers(w) \/ PrepareTriggerBindings(w) \/ StartTriggerRun(w) \/ AckTrigger(w)
  \/ \E status \in {"succeeded", "failed"} : FinishTriggerRun(w, status)

TriggerNext ==
  \/ EnqueueTrigger \/ RequeueStaleTriggers \/ Tick
  \/ \E a \in Automation :
       \/ EnqueueCron(a) \/ Switch(a)
       \/ \E v \in 1 .. MaxVersion : Publish(a, v)
       \/ \E t \in Trigger : EnqueueReplay(t, a)
  \/ \E w \in Worker : Deliver(w) \/ RenewTrigger(w) \/ Abandon(w)

-----------------------------------------------------------------------------
(* Properties.                                                             *)

\* "Each (trigger, automation) has one business attempt" (DDL), however often the row is claimed.
OneAttempt == \A t \in Trigger, a \in Automation : executed[t][a] <= 1

\* A delivered trigger has nothing left to run and nothing in execution: a worker that lost its
\* claim, and one that found a live duplicate, did not acknowledge (AckTrigger, StartTriggerRun).
DeliveredIsSettled ==
  \A t \in Queued : outbox[t].delivered => \A b \in bound[t] : run[t][b.automation].status \in {"succeeded", "failed"}

\* A failed run is replayed once at most, and with the version it ran (EnqueueReplay).
ReplaysArePinned ==
  \A t \in Queued : outbox[t].kind = "replay" =>
    LET of == run[outbox[t].of[1]][outbox[t].of[2]] IN
    /\ of.status = "failed"
    /\ \A u \in Queued : outbox[u].of = outbox[t].of => u = t
    /\ \A b \in bound[t] : b = [automation |-> outbox[t].target, version |-> of.version]

\* The ledger of attempts is final: what has succeeded or failed stays so, whatever a worker that
\* was thought dead reports later (FinishTriggerRun).
OutcomesKept ==
  \A t \in Trigger, a \in Automation :
    run[t][a].status \in {"succeeded", "failed"} => run'[t][a] = run[t][a]

\* Every trigger is delivered, with all its attempts ended, or has had all the claims of the model.
Settled == \A t \in Queued : outbox[t].delivered \/ outbox[t].token = MaxClaim

\* The properties of the triggers together.
TriggersHold == OneAttempt /\ DeliveredIsSettled /\ ReplaysArePinned
===============================================================================
