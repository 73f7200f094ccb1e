------------------------------ MODULE TaskStates ------------------------------
(***************************************************************************)
(* The two state machines of a governed task: the execution state of its   *)
(* current run, which the execution side reports, and its business state,  *)
(* which its requester moves (governance internal/domain).                 *)
(***************************************************************************)
EXTENDS Naturals

DelegationState == {"ASSIGNED", "QUEUED", "RUNNING", "CANCELLING",
                    "COMPLETED", "FAILED", "CANCELLED", "BLOCKED"}

\* DelegationStateActive: the run still owns execution capacity.
Active == {"ASSIGNED", "QUEUED", "RUNNING", "CANCELLING"}

BusinessState == {"DRAFT", "ROUTING", "ASSIGNED", "EXECUTING", "VERIFYING",
                  "IN_REVIEW", "DONE", "REJECTED", "ARCHIVED"}

\* A task in one of these accepts no work.
Closed == {"DONE", "REJECTED", "ARCHIVED"}

Event == {"route", "assign", "start", "verify", "submit_review", "complete",
          "reject", "archive", "reroute"}

\* The events an execution report may carry, and those of the requester alone.
ExecutionEvent == {"start", "verify", "submit_review"}

Target(event) ==
  CASE event \in {"route", "reroute"} -> "ROUTING"
    [] event = "assign"               -> "ASSIGNED"
    [] event = "start"                -> "EXECUTING"
    [] event = "verify"               -> "VERIFYING"
    [] event = "submit_review"        -> "IN_REVIEW"
    [] event = "complete"             -> "DONE"
    [] event = "reject"               -> "REJECTED"
    [] event = "archive"              -> "ARCHIVED"

\* Where a business state may go, itself included except for DRAFT.
Allowed(from) ==
  CASE from = "DRAFT"     -> {"ROUTING"}
    [] from = "ROUTING"   -> {"ROUTING", "ASSIGNED"}
    [] from = "ASSIGNED"  -> {"ASSIGNED", "EXECUTING", "ROUTING"}
    [] from = "EXECUTING" -> {"EXECUTING", "VERIFYING", "ROUTING"}
    [] from = "VERIFYING" -> {"VERIFYING", "IN_REVIEW", "ROUTING"}
    [] from = "IN_REVIEW" -> {"IN_REVIEW", "DONE", "REJECTED", "ROUTING"}
    [] from = "DONE"      -> {"DONE", "ARCHIVED"}
    [] from = "REJECTED"  -> {"REJECTED", "ROUTING", "ARCHIVED"}
    [] from = "ARCHIVED"  -> {"ARCHIVED"}

CanTransition(from, event) == Target(event) \in Allowed(from)

\* IntegrationGate: both pieces of evidence, or the whole batch goes back.
GatePasses(contractTests, smoke) == contractTests /\ smoke

\* TransitionBusinessTaskGated: "complete" with a failed gate is a reroute,
\* refused where the table has no way back.
CanTransitionGated(from, event, gate) ==
  /\ CanTransition(from, event)
  /\ event = "complete" /\ ~gate => CanTransition(from, "reroute")

Gated(event, gate) == IF event = "complete" /\ ~gate THEN "ROUTING" ELSE Target(event)

\* validDelegationTransition: what a status report may ask for.
ValidDelegationTransition(from, to) ==
  \/ from = to
  \/ from = "ASSIGNED" /\ to \in {"QUEUED", "BLOCKED", "CANCELLING", "CANCELLED"}
  \/ from = "QUEUED" /\ to \in {"RUNNING", "BLOCKED", "CANCELLING", "CANCELLED"}
  \/ from = "RUNNING" /\ to \in {"COMPLETED", "FAILED", "CANCELLING", "CANCELLED"}
  \/ from = "CANCELLING" /\ to \in {"COMPLETED", "FAILED", "CANCELLED"}
  \/ from \in {"BLOCKED", "FAILED"} /\ to \in {"QUEUED", "CANCELLED"}

\* delegationStateFromScheduler.
FromScheduler == [PENDING |-> "QUEUED", PLACED |-> "ASSIGNED", RUNNING |-> "RUNNING",
                  CANCELLING |-> "CANCELLING", COMPLETED |-> "COMPLETED",
                  FAILED |-> "FAILED", ABORTED |-> "CANCELLED"]
===============================================================================
