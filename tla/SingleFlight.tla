---------------------------- MODULE SingleFlight ----------------------------
(***************************************************************************)
(* What the scheduler promises whoever submits a task (the comments over   *)
(* PlaceTask and CompleteTaskAttempt in store.go): a task runs at most one *)
(* attempt at a time, attempts are numbered without a gap, each of them is *)
(* handed to exactly one node, once, and a governed task, whose identity   *)
(* is one immutable business run, is never started again once it ended.    *)
(***************************************************************************)
EXTENDS Naturals, Sequences

CONSTANTS Task, Governed

VARIABLES
  phase,    \* [Task -> {"none", "waiting", "active", "ended"}]
  attempt,  \* [Task -> Nat]: the last attempt opened
  sent      \* [Task -> Seq(Nat)]: the attempts handed to a node, in order

vars == <<phase, attempt, sent>>

\* A task may have been queued before.
Init ==
  /\ phase \in [Task -> {"none", "waiting"}]
  /\ attempt = [t \in Task |-> 0]
  /\ sent = [t \in Task |-> <<>>]

\* An ended task may be submitted again, unless it is a governed run.
MayStart(t) == phase[t] \in {"none", "waiting"} \/ (phase[t] = "ended" /\ t \notin Governed)

Start(t) ==
  /\ MayStart(t)
  /\ phase' = [phase EXCEPT ![t] = "active"]
  /\ attempt' = [attempt EXCEPT ![t] = @ + 1]
  /\ sent' = [sent EXCEPT ![t] = Append(@, attempt[t] + 1)]

Wait(t) ==
  /\ MayStart(t)
  /\ phase' = [phase EXCEPT ![t] = "waiting"]
  /\ UNCHANGED <<attempt, sent>>

\* The node reports the end of the attempt, or a waiting task is cancelled.
End(t) ==
  /\ phase[t] \in {"waiting", "active"}
  /\ phase' = [phase EXCEPT ![t] = "ended"]
  /\ UNCHANGED <<attempt, sent>>

Next == \E t \in Task : Start(t) \/ Wait(t) \/ End(t)

Spec == Init /\ [][Next]_vars
=============================================================================
