--------------------------- MODULE Invocations ---------------------------
(***************************************************************************)
(* connector-gateway, one replica of it and one connector: the chain an   *)
(* invocation passes (route, policy and approval, rate limit, breaker,     *)
(* upstream call), the approvals in PostgreSQL, and the circuit breaker    *)
(* that all calls of the connector share.                                  *)
(*                                                                         *)
(* The manifest is looked up through a cache of ten seconds, once when an  *)
(* approval is consumed and once more inside Invoke; administrators change *)
(* it through this replica or through another.  The breaker's sliding      *)
(* window is abstracted to its verdict: a result recorded while the        *)
(* breaker is closed trips it or does not.                                 *)
(***************************************************************************)
EXTENDS Naturals, FiniteSets

CONSTANTS User,         \* callers; an administrator among them decides approvals
          Call,         \* invocations this replica serves at a time
          MaxApproval,  \* bound on the approvals asked for
          MaxVersion,   \* bound on the versions of the manifest
          Sensitive,    \* the versions whose operation is a write of high sensitivity
          Probes        \* HalfOpenProbes of the breaker

VARIABLES manifest,   \* the connector's row: version, enabled
          cached,     \* the version in this replica's cache, 0 for none
          approvals,  \* the rows of connector_approvals, in the order asked for
          calls,      \* what each call in progress has found out
          breaker     \* state and probes of the connector's breaker

invocationVars == <<manifest, cached, approvals, calls, breaker>>

Resting == [step |-> "resting"]

InvocationInit ==
  /\ manifest = [version |-> 1, enabled |-> TRUE]
  /\ cached = 0
  /\ approvals = << >>
  /\ calls = [c \in Call |-> Resting]
  /\ breaker = [state |-> "closed", probes |-> 0]

Approval == 1 .. MaxApproval
Asked == DOMAIN approvals

(* The versions a lookup may answer: the cached one, or else the row's. *)
Found == IF cached # 0 THEN {cached} ELSE IF manifest.enabled THEN {manifest.version} ELSE {}

---------------------------------------------------------------------------
(* Administrators.  The replica that writes forgets its cached copy, the   *)
(* others keep theirs until it is too old.                                 *)

Forgets(local) == cached' = IF local THEN 0 ELSE cached

Upsert(local) ==
  /\ manifest.version < MaxVersion
  /\ manifest' = [version |-> manifest.version + 1, enabled |-> TRUE]
  /\ Forgets(local)
  /\ UNCHANGED <<approvals, calls, breaker>>

Switch(local) ==
  /\ manifest' = [manifest EXCEPT !.enabled = ~@]
  /\ Forgets(local)
  /\ UNCHANGED <<approvals, calls, breaker>>

CacheExpires ==
  /\ cached # 0 /\ cached' = 0
  /\ UNCHANGED <<manifest, approvals, calls, breaker>>

(* Another user's decision, once, on a request that is still pending. *)
Decidable(a, approver) == approvals[a].status = "pending" /\ approvals[a].live /\ approvals[a].user # approver

Decide(a, approver, decision) ==
  /\ a \in Asked /\ Decidable(a, approver)
  /\ approvals' = [approvals EXCEPT ![a].status = decision, ![a].approver = approver]
  /\ UNCHANGED <<manifest, cached, calls, breaker>>

ApprovalExpires(a) ==
  /\ a \in Asked /\ approvals[a].live
  /\ approvals' = [approvals EXCEPT ![a].live = FALSE]
  /\ UNCHANGED <<manifest, cached, calls, breaker>>

---------------------------------------------------------------------------
(* An invocation. *)

(* Mutant: an approval stays usable after it was consumed. *)
UsableAgain(a, user, version) ==
  /\ approvals[a].status \in {"approved", "consumed"} /\ approvals[a].live
  /\ approvals[a].user = user /\ approvals[a].version = version

(* The approval must be approved, in force, the caller's own, and for this *)
(* request and this version of the manifest (InvocationHash).              *)
Usable(a, user, version) ==
  /\ approvals[a].status = "approved" /\ approvals[a].live
  /\ approvals[a].user = user /\ approvals[a].version = version

InvokeApproved(c, user, a) ==
  /\ calls[c] = Resting /\ a \in Asked
  /\ \E version \in Found :
       /\ Usable(a, user, version)
       /\ cached' = version
  /\ approvals' = [approvals EXCEPT ![a].status = "consumed"]
  /\ calls' = [calls EXCEPT ![c] = [step |-> "invoke", user |-> user, approval |-> a]]
  /\ UNCHANGED <<manifest, breaker>>

Invoke(c, user) ==
  /\ calls[c] = Resting
  /\ calls' = [calls EXCEPT ![c] = [step |-> "invoke", user |-> user, approval |-> 0]]
  /\ UNCHANGED <<manifest, cached, approvals, breaker>>

(* Gates one and two, on a lookup of their own: what may go on goes to the *)
(* limiter and the breaker, a sensitive write without approval is to be    *)
(* asked about, and any other refusal ends the call.                       *)
NeedsApproval(c, version) == version \in Sensitive /\ calls[c].approval = 0

Route(c) ==
  /\ calls[c].step = "invoke"
  /\ \E version \in Found :
       /\ cached' = version
       /\ calls' = [calls EXCEPT ![c] =
            [step |-> IF NeedsApproval(c, version) THEN "ask" ELSE "routed",
             user |-> calls[c].user, approval |-> calls[c].approval, version |-> version]]
  /\ UNCHANGED <<manifest, approvals, breaker>>

(* The approval is asked for the version a third lookup finds. *)
AskApproval(c) ==
  /\ calls[c].step = "ask" /\ Cardinality(Asked) < MaxApproval
  /\ \E version \in Found :
       /\ cached' = version
       /\ approvals' = [a \in Asked \union {Cardinality(Asked) + 1} |->
            IF a \in Asked THEN approvals[a]
            ELSE [user |-> calls[c].user, version |-> version, status |-> "pending",
                  approver |-> "nobody", live |-> TRUE]]
  /\ calls' = [calls EXCEPT ![c] = Resting]
  /\ UNCHANGED <<manifest, breaker>>

(* Not found, denied by policy, over the limit, or approvals unavailable. *)
Refuse(c) ==
  /\ calls[c].step \in {"invoke", "ask", "routed"}
  /\ calls' = [calls EXCEPT ![c] = Resting]
  /\ UNCHANGED <<manifest, cached, approvals, breaker>>

---------------------------------------------------------------------------
(* The breaker.  An open one becomes half open at the first call after it  *)
(* has been open long enough; a half-open one lets a number of probes out. *)

Admits(b) == b.state = "closed" \/ (b.state = "half_open" /\ b.probes < Probes)

Admitted(b) == IF b.state = "half_open" THEN [b EXCEPT !.probes = @ + 1] ELSE b

Allow(c) ==
  /\ calls[c].step = "routed"
  /\ \E b \in {breaker, [state |-> "half_open", probes |-> 0]} :
       /\ b = breaker \/ breaker.state = "open"
       /\ Admits(b)
       /\ breaker' = Admitted(b)
       /\ calls' = [calls EXCEPT ![c] =
            [step |-> "calling", mode |-> b.state, user |-> calls[c].user,
             approval |-> calls[c].approval, version |-> calls[c].version]]
  /\ UNCHANGED <<manifest, cached, approvals>>

Opened == [state |-> "open", probes |-> 0]

(* Mutant: all the probes but one more. *)
ClosesLate(b) == b.probes > Probes

(* A success closes a half-open breaker once all its probes are out. *)
Closes(b) == b.probes >= Probes

FinishHalfOpen(success) ==
  breaker' = IF ~success THEN Opened
             ELSE IF Closes(breaker) THEN [state |-> "closed", probes |-> 0] ELSE breaker

FinishClosed ==
  breaker' \in {breaker, Opened}

(* The upstream answers or does not; a status of 500 or more is a failure. *)
Return(c) ==
  /\ calls[c].step = "calling"
  /\ \/ calls[c].mode = "half_open" /\ \E success \in BOOLEAN : FinishHalfOpen(success)
     \/ calls[c].mode = "closed" /\ FinishClosed
  /\ calls' = [calls EXCEPT ![c] = Resting]
  /\ UNCHANGED <<manifest, cached, approvals>>

---------------------------------------------------------------------------
InvocationNext ==
  \/ \E local \in BOOLEAN : Upsert(local) \/ Switch(local)
  \/ CacheExpires
  \/ \E a \in Approval :
       \/ ApprovalExpires(a)
       \/ \E approver \in User, decision \in {"approved", "rejected"} : Decide(a, approver, decision)
  \/ \E c \in Call :
       \/ Route(c) \/ AskApproval(c) \/ Refuse(c) \/ Allow(c) \/ Return(c)
       \/ \E user \in User : Invoke(c, user)
       \/ \E user \in User, a \in Approval : InvokeApproved(c, user, a)

InvocationSpec == InvocationInit /\ [][InvocationNext]_invocationVars

---------------------------------------------------------------------------
Calling == {c \in Call : calls[c].step = "calling"}

(* A sensitive write goes out only under an approval that someone other    *)
(* than the caller has given, and no approval carries two calls.           *)
ApprovalsAreOneShot ==
  \A c \in Calling :
    LET a == calls[c].approval IN
    /\ calls[c].version \in Sensitive =>
         a # 0 /\ approvals[a].approver \notin {"nobody", calls[c].user}
    /\ a # 0 =>
         /\ approvals[a].status = "consumed" /\ approvals[a].user = calls[c].user
         /\ \A d \in Calling \ {c} : calls[d].approval # a

(* A half-open breaker is never stuck: when it admits no further probe,    *)
(* one is still out whose result will open or close it.                    *)
ProbesAreOut ==
  breaker.state = "half_open" /\ breaker.probes >= Probes =>
    \E c \in Calling : calls[c].mode = "half_open"

(* The promises of the gateway's call path together. *)
CallsHold == ApprovalsAreOneShot /\ ProbesAreOut

(* A sensitive write goes out with the version of the manifest it was      *)
(* approved for.                                                           *)
ApprovedAsCalled ==
  \A c \in Calling : calls[c].approval # 0 =>
    approvals[calls[c].approval].version = calls[c].version
==========================================================================
