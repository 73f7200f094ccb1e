----------------------------- MODULE FlowLifecycle -----------------------------
(***************************************************************************)
(* The life of a flow (platform/control-plane/flows: internal/domain,      *)
(* internal/store/store.go and management.go, internal/server): a draft is *)
(* submitted, reviewed and published as a snapshot; a published flow is    *)
(* targeted, rolled back, deprecated, or changed through a change draft    *)
(* that is reviewed in its turn.                                           *)
(*                                                                         *)
(* One flow.  Transition and Target read the status in one statement and   *)
(* write it in another; Review and ApplyFlowChange lock the row.           *)
(***************************************************************************)
EXTENDS Naturals, FiniteSets, Sequences

CONSTANTS
  Author, Reviewer, \* users: who wrote the flow, and the managers
  Definition,       \* definitions that pass the checks
  MaxVersion,       \* bound: snapshots
  MaxRevision,      \* bound: revisions of a change draft
  MaxChange,        \* bound: change drafts created
  None

VARIABLES
  flow,     \* the row: [status, version, definition]
  snapshot, \* flow_versions: [definition, reviewer, base], base being the version a change was made from
  change,   \* the row of flow_change_drafts
  created,  \* change drafts created, whose identifiers are fresh
  view,     \* the change draft each user looks at
  step,     \* each user's Transition or Target between its two statements
  captured  \* versions whose lineage edges were written

lifecycleVars == <<flow, snapshot, change, created, view, step, captured>>

User == {Author} \cup Reviewer
NoChange == [id |-> 0, base |-> 0, revision |-> 0, status |-> "none", definition |-> None]

LifecycleInit ==
  /\ flow \in [status : {"draft"}, version : {0}, definition : Definition]
  /\ snapshot = <<>> /\ change = NoChange /\ created = 0 /\ captured = {}
  /\ view = [u \in User |-> NoChange]
  /\ step = [u \in User |-> None]

-----------------------------------------------------------------------------
\* transitions: the next status, or None where the table has no entry.
TransitionFlow(status, event) ==
  CASE event = "submit" /\ status = "draft" -> "submitted"
    [] event = "approve" /\ status = "submitted" -> "published"
    [] event = "reject" /\ status = "submitted" -> "draft"
    [] event = "target" /\ status \in {"published", "targeted"} -> "targeted"
    [] event = "deprecate" /\ status \in {"draft", "published", "targeted"} -> "deprecated"
    [] OTHER -> None

UpdateDefinition(d) ==
  /\ flow.status = "draft" /\ d # flow.definition
  /\ flow' = [flow EXCEPT !.definition = d]
  /\ UNCHANGED <<snapshot, change, created, view, step, captured>>

\* The author submits; the author, an owner or an administrator deprecates; an owner targets.
Begin(u, event) ==
  /\ step[u] = None /\ TransitionFlow(flow.status, event) # None
  /\ event = "submit" => u = Author
  /\ step' = [step EXCEPT ![u] = TransitionFlow(flow.status, event)]
  /\ UNCHANGED <<flow, snapshot, change, created, view, captured>>

\* The second statement does not look at the status again.
Finish(u) ==
  /\ step[u] # None
  /\ flow' = [flow EXCEPT !.status = step[u]]
  /\ step' = [step EXCEPT ![u] = None]
  /\ UNCHANGED <<snapshot, change, created, view, captured>>

\* Review: the snapshot, the pointer and the lineage in one transaction.
Review(u, approve) ==
  /\ u # Author /\ flow.status = "submitted"
  /\ IF approve
     THEN /\ Len(snapshot) < MaxVersion
          /\ snapshot' = Append(snapshot, [definition |-> flow.definition, reviewer |-> u, base |-> None])
          /\ flow' = [flow EXCEPT !.status = "published", !.version = Len(snapshot) + 1]
          /\ captured' = captured \cup {Len(snapshot) + 1}
     ELSE flow' = [flow EXCEPT !.status = "draft"] /\ UNCHANGED <<snapshot, captured>>
  /\ UNCHANGED <<change, created, view, step>>

\* Mutant: any version can be pointed at.
RollbackTargetAny(v) == v \in 1 .. MaxVersion

RollbackTarget(v) == v \in DOMAIN snapshot

Rollback(v) ==
  /\ RollbackTarget(v) /\ v # flow.version
  /\ flow' = [flow EXCEPT !.version = v]
  /\ UNCHANGED <<snapshot, change, created, view, step, captured>>

-----------------------------------------------------------------------------
(* Change drafts.                                                          *)

Changeable == flow.status \in {"published", "targeted"}

\* A user reads the flow with its change draft; a reviewer sees one that is submitted.
View(u) ==
  /\ view[u] # change /\ (u = Author \/ change.status = "submitted")
  /\ view' = [view EXCEPT ![u] = change]
  /\ UNCHANGED <<flow, snapshot, change, created, step, captured>>

\* Mutant: the revision that was read is not compared.
SeenAny(u) == change # NoChange /\ view[u].id = change.id

\* The command names the change draft and the revision its caller saw.
Seen(u) == change # NoChange /\ view[u].id = change.id /\ view[u].revision = change.revision

Revised(c) == change' = [c EXCEPT !.revision = @ + 1] /\ change.revision < MaxRevision

CreateChange ==
  /\ Changeable /\ change = NoChange /\ flow.version \in DOMAIN snapshot /\ created < MaxChange
  /\ change' = [id |-> created + 1, base |-> flow.version, revision |-> 1, status |-> "draft",
                definition |-> snapshot[flow.version].definition]
  /\ created' = created + 1
  /\ UNCHANGED <<flow, snapshot, view, step, captured>>

SaveChange(d) ==
  /\ Changeable /\ Seen(Author) /\ change.status = "draft"
  /\ Revised([change EXCEPT !.definition = d])
  /\ UNCHANGED <<flow, snapshot, created, view, step, captured>>

\* Mutant: a change of any version may be submitted and approved.
BasedOnAny == TRUE

\* What the change was made from is what the flow points at.
BasedOnCurrent == change.base = flow.version

SubmitChange ==
  /\ Changeable /\ Seen(Author) /\ change.status = "draft" /\ BasedOnCurrent
  /\ Revised([change EXCEPT !.status = "submitted"])
  /\ UNCHANGED <<flow, snapshot, created, view, step, captured>>

DiscardChange ==
  /\ Changeable /\ Seen(Author)
  /\ change' = NoChange
  /\ UNCHANGED <<flow, snapshot, created, view, step, captured>>

\* The change is published; its lineage edges are not written here.
ReviewChange(u, approve) ==
  /\ u # Author /\ Changeable /\ Seen(u) /\ change.status = "submitted"
  /\ IF approve
     THEN /\ BasedOnCurrent /\ Len(snapshot) < MaxVersion
          /\ snapshot' = Append(snapshot, [definition |-> change.definition, reviewer |-> u, base |-> change.base])
          /\ flow' = [flow EXCEPT !.version = Len(snapshot) + 1, !.definition = change.definition]
          /\ change' = NoChange
     ELSE Revised([change EXCEPT !.status = "draft"]) /\ UNCHANGED <<flow, snapshot>>
  /\ UNCHANGED <<created, view, step, captured>>

-----------------------------------------------------------------------------
LifecycleNext ==
  \/ \E d \in Definition : UpdateDefinition(d) \/ SaveChange(d)
  \/ CreateChange \/ SubmitChange \/ DiscardChange
  \/ \E v \in 1 .. MaxVersion : Rollback(v)
  \/ \E u \in User :
       \/ \E event \in {"submit", "deprecate", "target"} : Begin(u, event)
       \/ Finish(u) \/ View(u)
       \/ \E approve \in BOOLEAN : Review(u, approve) \/ ReviewChange(u, approve)

-----------------------------------------------------------------------------
(* Properties.                                                             *)

\* What runs is a snapshot that exists, whatever transitions cross each other ("pointing at a
\* version that is not there leaves the runtime with nothing", Rollback; DefinitionSnapshot).
PublishedHasSnapshot ==
  /\ flow.status \in {"published", "targeted"} => flow.version \in DOMAIN snapshot
  /\ flow.version # 0 => flow.version \in DOMAIN snapshot

\* Snapshots are never rewritten; a change is published as its reviewer saw it and onto the version
\* it was made from, whatever was saved or rolled back meanwhile (revision, base_version).
SnapshotsAreReviewed ==
  /\ Len(snapshot') >= Len(snapshot) /\ \A v \in DOMAIN snapshot : snapshot'[v] = snapshot[v]
  /\ Len(snapshot') > Len(snapshot) =>
       LET new == snapshot'[Len(snapshot')] IN
       /\ new.reviewer # Author
       /\ new.base # None => new.definition = view[new.reviewer].definition /\ new.base = flow.version

\* "deprecated is final" (Status, domain.go).
DeprecatedIsFinal == flow.status = "deprecated" => flow'.status = "deprecated"

\* "When a version is published its edges are written in the same transaction" (flow_lineage_outbox).
VersionsHaveLineage == DOMAIN snapshot = captured
===============================================================================
