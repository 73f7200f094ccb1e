---------------------------- MODULE Projects -----------------------------
(***************************************************************************)
(* projects, one project: its row, its members, the rows that hang on it,  *)
(* its decisions and the reports of a task of it.  Handlers first check    *)
(* the caller's role in a statement of their own, then run the store's     *)
(* operation; the operations that read before they write do so in a        *)
(* transaction at PostgreSQL's default isolation, so what they read may    *)
(* have changed when they write, unless a row lock says otherwise.         *)
(*                                                                         *)
(* Artifacts, spaces and automations behave alike (an upsert under the     *)
(* project's foreign key) and are one set of rows.                         *)
(***************************************************************************)
EXTENDS Naturals, Sequences, FiniteSets

CONSTANTS User,         \* callers and members
          Client,       \* requests handled at a time
          Name,         \* names of artifacts, spaces and automations
          MaxDecision,  \* bound on the decisions, numbered as they are appended
          Report,       \* ids of task reports
          MaxRequests   \* bound on the requests that are let through

VARIABLES project,    \* the row's status, or "none"
          stamped,    \* archived_at is set
          members,    \* the members' roles
          rows,       \* names of the rows that hang on the project
          budget,     \* the project has its row of budget_trees
          decisions,  \* in the order they were appended: the one each supersedes and the one that supersedes it, or 0
          reports,    \* id -> status, whether every section has evidence, who confirmed it
          handler,    \* what each request is about to do
          requests    \* requests let through so far

projectVars == <<project, stamped, members, rows, budget, decisions, reports, handler, requests>>

None == "none"
Roles == {"owner", "editor", "viewer"}
Idle == [step |-> "idle"]

ProjectInit ==
  /\ project = None /\ stamped = FALSE /\ members = << >> /\ rows = {} /\ budget = FALSE
  /\ decisions = << >> /\ reports = << >>
  /\ handler = [c \in Client |-> Idle] /\ requests = 0

(* f with x mapped to v. *)
With(f, x, v) == [y \in DOMAIN f \union {x} |-> IF y = x THEN v ELSE f[y]]

(* Project, owner and budget row are inserted in one transaction. *)
CreateProject(user) ==
  /\ project = None /\ ~budget
  /\ project' = "active" /\ members' = With(members, user, "owner") /\ budget' = TRUE
  /\ UNCHANGED <<stamped, rows, decisions, reports, handler, requests>>

---------------------------------------------------------------------------
(* The permission check: who is no member sees nothing, editors may edit,  *)
(* and only owners manage members and the project's life.                  *)
CanProject(role, op) ==
  CASE op \in {"upsert", "remove row"} -> role \in {"owner", "editor"}
    [] op \in {"report", "confirm", "append"} -> role \in Roles
    [] OTHER -> role = "owner"

Require(c, user, op, args) ==
  /\ handler[c] = Idle /\ requests < MaxRequests
  /\ project # None /\ user \in DOMAIN members /\ CanProject(members[user], op)
  /\ handler' = [handler EXCEPT ![c] = [step |-> op, user |-> user, args |-> args]]
  /\ requests' = requests + 1
  /\ UNCHANGED <<project, stamped, members, rows, budget, decisions, reports>>

Finished(c) == handler' = [handler EXCEPT ![c] = Idle]
Doing(c, op) == handler[c].step = op

(* The store's call fails, or finds nothing to do; the request ends. *)
GiveUp(c) ==
  /\ handler[c] # Idle /\ Finished(c)
  /\ UNCHANGED <<project, stamped, members, rows, budget, decisions, reports, requests>>

---------------------------------------------------------------------------
(* Members. *)

AddMember(c) ==
  LET new == handler[c].args IN
  /\ Doing(c, "add") /\ project # None /\ new.user \notin DOMAIN members
  /\ members' = With(members, new.user, new.role) /\ Finished(c)
  /\ UNCHANGED <<project, stamped, rows, budget, decisions, reports, requests>>

Owners == {u \in DOMAIN members : members[u] = "owner"}

(* UpdateMemberRole and RemoveMember read the member's role and, to take   *)
(* an owner's place away, count the owners; the write comes after.         *)
MayLeave(user, role) == members[user] = "owner" /\ role # "owner" => Cardinality(Owners) > 1

ReadMember(c) ==
  LET change == handler[c].args IN
  /\ Doing(c, "member") /\ change.user \in DOMAIN members
  /\ MayLeave(change.user, change.role)
  /\ handler' = [handler EXCEPT ![c].step = "write member"]
  /\ UNCHANGED <<project, stamped, members, rows, budget, decisions, reports, requests>>

WriteMember(c) ==
  LET change == handler[c].args IN
  /\ Doing(c, "write member") /\ change.user \in DOMAIN members
  /\ members' = IF change.role = None
                THEN [u \in DOMAIN members \ {change.user} |-> members[u]]
                ELSE With(members, change.user, change.role)
  /\ Finished(c)
  /\ UNCHANGED <<project, stamped, rows, budget, decisions, reports, requests>>

---------------------------------------------------------------------------
(* The project's rows and its life. *)

(* Mutant: a table created without the foreign key. *)
HangsAnyway == TRUE

(* The foreign key lets a row in only while the project is there. *)
Hangs == project # None

UpsertRow(c) ==
  /\ Doing(c, "upsert") /\ Hangs
  /\ rows' = rows \union {handler[c].args} /\ Finished(c)
  /\ UNCHANGED <<project, stamped, members, budget, decisions, reports, requests>>

DeleteAutomation(c) ==
  /\ Doing(c, "remove row")
  /\ rows' = rows \ {handler[c].args} /\ Finished(c)
  /\ UNCHANGED <<project, stamped, members, budget, decisions, reports, requests>>

TransitionProject(event) == IF event = "archive" THEN "archived" ELSE "active"

(* Transition reads the status, and writes status and date unless nothing  *)
(* changes; a project deleted in between stays deleted.                    *)
ReadStatus(c) ==
  /\ Doing(c, "transition") /\ project # None
  /\ TransitionProject(handler[c].args) # project
  /\ handler' = [handler EXCEPT ![c].step = "write status"]
  /\ UNCHANGED <<project, stamped, members, rows, budget, decisions, reports, requests>>

WriteStatus(c) ==
  /\ Doing(c, "write status") /\ project # None
  /\ project' = TransitionProject(handler[c].args)
  /\ stamped' = (project' = "archived") /\ Finished(c)
  /\ UNCHANGED <<members, rows, budget, decisions, reports, requests>>

(* Members and rows go with the project; decisions, reports and the budget *)
(* row stay.                                                               *)
DeleteProject(c) ==
  /\ Doing(c, "delete") /\ project = "archived"
  /\ project' = None /\ stamped' = FALSE /\ members' = << >> /\ rows' = {} /\ Finished(c)
  /\ UNCHANGED <<budget, decisions, reports, requests>>

---------------------------------------------------------------------------
(* Decisions.  A new one names the decision it supersedes; the pointer     *)
(* back is set in the same transaction, once, under the old row's lock.    *)

(* Mutant: the last to supersede wins. *)
NeverSuperseded(d) == d \notin DOMAIN decisions

Superseded(d) == decisions[d].by # 0

Pointed(old) == [d \in DOMAIN decisions |-> IF d = old THEN [decisions[d] EXCEPT !.by = Len(decisions) + 1] ELSE decisions[d]]

AppendDecision(c) ==
  LET old == handler[c].args IN
  /\ Doing(c, "append")
  /\ Len(decisions) < MaxDecision
  /\ old = 0 \/ (old \in DOMAIN decisions /\ ~Superseded(old))
  /\ decisions' = Append(Pointed(old), [of |-> old, by |-> 0])
  /\ Finished(c)
  /\ UNCHANGED <<project, stamped, members, rows, budget, reports, requests>>

---------------------------------------------------------------------------
(* Reports.  A stale or malformed one is refused before it is stored.      *)

CreateTaskReport(c) ==
  /\ Doing(c, "report")
  /\ \E r \in Report \ DOMAIN reports :
       reports' = With(reports, r, [status |-> "draft", verified |-> handler[c].args, by |-> None])
  /\ Finished(c)
  /\ UNCHANGED <<project, stamped, members, rows, budget, decisions, requests>>

(* The report is read for its evidence, and confirmed if it is still a draft. *)
ReadReport(c) ==
  LET r == handler[c].args IN
  /\ Doing(c, "confirm") /\ r \in DOMAIN reports /\ reports[r].verified
  /\ handler' = [handler EXCEPT ![c].step = "write report"]
  /\ UNCHANGED <<project, stamped, members, rows, budget, decisions, reports, requests>>

(* Mutant: the update does not look at the status again. *)
IsThere(r) == r \in DOMAIN reports

IsDraft(r) == reports[r].status = "draft"

ConfirmTaskReport(c) ==
  LET r == handler[c].args IN
  /\ Doing(c, "write report") /\ IsDraft(r)
  /\ reports' = [reports EXCEPT ![r].status = "confirmed", ![r].by = handler[c].user]
  /\ Finished(c)
  /\ UNCHANGED <<project, stamped, members, rows, budget, decisions, requests>>

---------------------------------------------------------------------------
(* The requests of the interface. *)

addMember(c, user) ==
  \E other \in User, role \in {"owner", "viewer"} : Require(c, user, "add", [user |-> other, role |-> role])
updateOrRemoveMember(c, user) ==
  \E other \in User, role \in {"owner", "editor", None} : Require(c, user, "member", [user |-> other, role |-> role])
putRow(c, user) == \E n \in Name : Require(c, user, "upsert", n)
deleteAutomation(c, user) == \E n \in Name : Require(c, user, "remove row", n)
transition(c, user) == \E event \in {"archive", "unarchive"} : Require(c, user, "transition", event)
delete(c, user) == Require(c, user, "delete", None)
appendDecision(c, user) == \E old \in 0 .. MaxDecision : Require(c, user, "append", old)
createTaskReport(c, user) == \E verified \in BOOLEAN : Require(c, user, "report", verified)
confirmReport(c, user) == \E r \in Report : Require(c, user, "confirm", r)

ProjectNext ==
  \/ \E user \in User : CreateProject(user)
  \/ \E c \in Client, user \in User :
       \/ addMember(c, user) \/ updateOrRemoveMember(c, user) \/ putRow(c, user) \/ deleteAutomation(c, user)
       \/ transition(c, user) \/ delete(c, user) \/ appendDecision(c, user) \/ createTaskReport(c, user)
       \/ confirmReport(c, user)
  \/ \E c \in Client :
       \/ GiveUp(c) \/ AddMember(c) \/ ReadMember(c) \/ WriteMember(c) \/ UpsertRow(c)
       \/ DeleteAutomation(c) \/ ReadStatus(c) \/ WriteStatus(c) \/ DeleteProject(c)
       \/ AppendDecision(c) \/ CreateTaskReport(c) \/ ReadReport(c) \/ ConfirmTaskReport(c)

ProjectSpec == ProjectInit /\ [][ProjectNext]_projectVars

---------------------------------------------------------------------------
(* What hangs on a project is there only while the project is, whatever    *)
(* requests were let through before it was deleted; a project has its      *)
(* budget row from its first moment, and a date of archiving exactly while *)
(* it is archived.                                                         *)
NothingIsOrphaned ==
  /\ project = None => members = << >> /\ rows = {}
  /\ project # None => budget /\ stamped = (project = "archived")

(* Superseding is one to one: the two pointers of a pair of decisions      *)
(* always agree, so no decision is superseded twice.                       *)
PointersAgree ==
  \A d, e \in DOMAIN decisions : decisions[d].of = e <=> decisions[e].by = d

(* The records of a project together. *)
RecordsHold == NothingIsOrphaned /\ PointersAgree

(* A decision's successor and a report's confirmation are written once and *)
(* never changed, and outlive the project.                                 *)
RecordsStand ==
  /\ \A d \in DOMAIN decisions : d \in DOMAIN decisions' /\ (Superseded(d) => decisions'[d] = decisions[d])
  /\ \A r \in DOMAIN reports :
       r \in DOMAIN reports' /\ (reports[r].status = "confirmed" => reports'[r] = reports[r])

(* ErrLastOwner: a project never becomes an orphan without an owner. *)
OwnerRemains == project # None => Owners # {}
==========================================================================
