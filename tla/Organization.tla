----------------------------- MODULE Organization -----------------------------
(***************************************************************************)
(* Users, departments, administrator roles and the identities of an       *)
(* external provider, of one realm (governance internal/store users.go,    *)
(* organization.go, oidc.go, store.go).  Every change is a transaction     *)
(* under the realm's advisory lock, so it is a step.  Roles that are not   *)
(* an administrator's guard nothing here and are left out.                 *)
(***************************************************************************)
EXTENDS Naturals, Sequences, SequencesExt

CONSTANTS
  User, Dept, Role,   \* ids; Role: "realm_admin", "platform_admin", "admin"
  Subject,            \* subjects of the identity provider
  Bootstrap,          \* the user the installation creates
  Token,              \* session tokens
  MaxPassword,        \* bound: passwords ever set
  Asked,              \* the operations that are asked for
  None

VARIABLES
  user,      \* user rows with their credential: status, department, password (0: none)
  dept,      \* department rows, None if absent
  role,      \* status of each role
  grant,     \* per user and role: "none", "durable", "expiring", "expired"
  identity,  \* per subject, None or the user and whether the link is enabled
  session,   \* session rows: user, issuer and the password it was opened with
  drawn      \* how many passwords were set

orgVars == <<user, dept, role, grant, identity, session, drawn>>

\* EnsureBootstrapAuthUser: a user with a password and the administrator roles.
Init ==
  /\ user = [u \in User |-> IF u = Bootstrap THEN [status |-> "active", dept |-> None, password |-> 1]
                            ELSE [status |-> "none", dept |-> None, password |-> 0]]
  /\ dept = [d \in Dept |-> None]
  /\ role = [r \in Role |-> "active"]
  /\ grant = [u \in User |-> [r \in Role |-> IF u = Bootstrap THEN "durable" ELSE "none"]]
  /\ identity = [s \in Subject |-> None]
  /\ session = [t \in Token |-> None]
  /\ drawn = 1

Exists(u) == user[u].status # "none"
Active(u) == user[u].status = "active"
Linked(u) == \E s \in Subject : identity[s] # None /\ identity[s].user = u /\ identity[s].on

\* activeAdminCount, as the set that is counted: those with a lasting grant,
\* and those with a password, are counted on their own too.
Administrators(durable, local) ==
  {u \in User : /\ Active(u)
                /\ user[u].password # 0 \/ (~local /\ Linked(u))
                /\ \E r \in Role : /\ role[r] = "active"
                                   /\ grant[u][r] \in {"durable"} \cup (IF durable THEN {} ELSE {"expiring"})}

\* Faulty variant: only the number of administrators is looked at.
PreserveAnyAdmin == Administrators(FALSE, FALSE) # {} => Administrators(FALSE, FALSE)' # {}

\* preserveActiveAdmin: no kind of administrator loses its last one.
PreserveActiveAdmin ==
  \A durable, local \in BOOLEAN :
    Administrators(durable, local) # {} => Administrators(durable, local)' # {}

\* checkUserDepartment
CheckUserDepartment(d) == d # None => dept[d] # None /\ dept[d].status = "active"

\* The sessions without those of u that were opened with the given issuers.
Without(u, issuers) ==
  [t \in Token |-> IF session[t] # None /\ session[t].user = u /\ session[t].issuer \in issuers
                   THEN None ELSE session[t]]

(***************************************************************************)
(* Users.                                                                  *)
(***************************************************************************)
\* CreateLocalUser
CreateLocalUser(u, d) ==
  /\ "user" \in Asked /\ drawn < MaxPassword
  /\ CheckUserDepartment(d)
  /\ ~Exists(u)
  /\ user' = [user EXCEPT ![u] = [status |-> "active", dept |-> d, password |-> drawn + 1]]
  /\ drawn' = drawn + 1
  /\ UNCHANGED <<dept, role, grant, identity, session>>

\* UpsertUser: the directory's rows and the administrator's changes.
UpsertUser(u, d, status) ==
  /\ "user" \in Asked
  /\ CheckUserDepartment(d)
  /\ user' = [user EXCEPT ![u].status = status, ![u].dept = d]
  /\ session' = IF status = "active" THEN session ELSE Without(u, {"local", "oidc"})
  /\ UNCHANGED <<dept, role, grant, identity, drawn>>
  /\ PreserveActiveAdmin

\* SetUserCredentials, without the failures it forgets: a new password ends all
\* sessions of the user.
ResetPassword(u) ==
  /\ "credential" \in Asked /\ drawn < MaxPassword
  /\ Exists(u)
  /\ user' = [user EXCEPT ![u].password = drawn + 1]
  /\ drawn' = drawn + 1
  /\ session' = Without(u, {"local", "oidc"})
  /\ UNCHANGED <<dept, role, grant, identity>>

(***************************************************************************)
(* Roles.                                                                  *)
(***************************************************************************)
\* UpdateRole
UpdateRole(r, status) ==
  /\ "role" \in Asked
  /\ role' = [role EXCEPT ![r] = status]
  /\ UNCHANGED <<user, dept, grant, identity, session, drawn>>
  /\ PreserveActiveAdmin

\* AssignRole: an expiring grant needs a lasting one somewhere.
AssignRole(u, r, kind) ==
  /\ "role" \in Asked
  /\ Exists(u) /\ role[r] = "active"
  /\ kind = "expiring" => Administrators(TRUE, FALSE) # {}
  /\ grant' = [grant EXCEPT ![u][r] = kind]
  /\ UNCHANGED <<user, dept, role, identity, session, drawn>>
  /\ PreserveActiveAdmin

\* RevokeRole
RevokeRole(u, r) ==
  /\ "role" \in Asked
  /\ grant[u][r] # "none"
  /\ grant' = [grant EXCEPT ![u][r] = "none"]
  /\ UNCHANGED <<user, dept, role, identity, session, drawn>>
  /\ PreserveActiveAdmin

\* An expiring grant's time is over.
GrantEnds(u, r) ==
  /\ grant[u][r] = "expiring"
  /\ grant' = [grant EXCEPT ![u][r] = "expired"]
  /\ UNCHANGED <<user, dept, role, identity, session, drawn>>

(***************************************************************************)
(* Identities of the provider.                                             *)
(***************************************************************************)
\* LinkOIDCUser: a subject stays with the user it was linked to, and a user has
\* one subject.
LinkOIDCUser(u, s) ==
  /\ "oidc" \in Asked
  /\ Active(u)
  /\ IF identity[s] = None
     THEN \A t \in Subject : identity[t] # None => identity[t].user # u
     ELSE identity[s].user = u /\ ~identity[s].on
  /\ identity' = [identity EXCEPT ![s] = [user |-> u, on |-> TRUE]]
  /\ UNCHANGED <<user, dept, role, grant, session, drawn>>

\* UnlinkOIDCUser
UnlinkOIDCUser(u) ==
  /\ "oidc" \in Asked
  /\ Linked(u)
  /\ identity' = [s \in Subject |-> IF identity[s] # None /\ identity[s].user = u
                                    THEN [identity[s] EXCEPT !.on = FALSE] ELSE identity[s]]
  /\ session' = Without(u, {"oidc"})
  /\ UNCHANGED <<user, dept, role, grant, drawn>>
  /\ PreserveActiveAdmin

(***************************************************************************)
(* Departments.                                                            *)
(***************************************************************************)
ActiveDept(d) == dept[d] # None /\ dept[d].status = "active"
ParentPath(p) == IF p = None THEN <<>> ELSE dept[p].path
LevelUnder(p) == IF p = None THEN 0 ELSE dept[p].level + 1
\* The manager is looked at here and nowhere else, so the row does without.
ManagerIsActive(m) == m # None => Active(m)

\* CreateDepartment
CreateDepartment(d, p, m, status) ==
  /\ "department" \in Asked
  /\ p # None => ActiveDept(p)
  /\ ManagerIsActive(m)
  /\ dept[d] = None
  /\ dept' = [dept EXCEPT ![d] = [parent |-> p, path |-> Append(ParentPath(p), d), level |-> LevelUnder(p),
                                  status |-> status]]
  /\ UNCHANGED <<user, role, grant, identity, session, drawn>>

Occupied(d) ==
  \/ \E e \in Dept : ActiveDept(e) /\ dept[e].parent = d
  \/ \E u \in User : Active(u) /\ user[u].dept = d

\* Faulty variant: the departments below are left where they were.
MoveAlone(d, path, level) ==
  [e \in Dept |-> IF e = d THEN [dept[e] EXCEPT !.path = path, !.level = level] ELSE dept[e]]

\* The rows at or below d under its new path and level.
Moved(d, path, level) ==
  [e \in Dept |->
     IF dept[e] # None /\ IsPrefix(dept[d].path, dept[e].path)
     THEN [dept[e] EXCEPT !.path = path \o SubSeq(dept[e].path, Len(dept[d].path) + 1, Len(dept[e].path)),
                          !.level = @ + level - dept[d].level]
     ELSE dept[e]]

\* UpdateDepartment: not below itself, and not disabled while in use.
UpdateDepartment(d, p, m, status) ==
  /\ "department" \in Asked
  /\ dept[d] # None
  /\ p # None => ActiveDept(p) /\ ~IsPrefix(dept[d].path, dept[p].path)
  /\ ManagerIsActive(m)
  /\ status = "disabled" => ~Occupied(d)
  /\ dept' = [Moved(d, Append(ParentPath(p), d), LevelUnder(p)) EXCEPT
                ![d].parent = p, ![d].status = status]
  /\ UNCHANGED <<user, role, grant, identity, session, drawn>>

DeptOrNone == Dept \cup {None}
UserOrNone == User \cup {None}

Next ==
  \/ \E u \in User, d \in DeptOrNone :
       CreateLocalUser(u, d) \/ \E status \in {"active", "suspended"} : UpsertUser(u, d, status)
  \/ \E u \in User : ResetPassword(u) \/ UnlinkOIDCUser(u)
  \/ \E u \in User, s \in Subject : LinkOIDCUser(u, s)
  \/ \E r \in Role, status \in {"active", "disabled"} : UpdateRole(r, status)
  \/ \E u \in User, r \in Role :
       RevokeRole(u, r) \/ GrantEnds(u, r) \/ \E kind \in {"durable", "expiring"} : AssignRole(u, r, kind)
  \/ \E d \in Dept, p \in DeptOrNone, m \in UserOrNone, status \in {"active", "disabled"} :
       CreateDepartment(d, p, m, status) \/ UpdateDepartment(d, p, m, status)

Spec == Init /\ [][Next]_orgVars

(***************************************************************************)
(* Properties.                                                             *)
(***************************************************************************)
\* The realm always keeps an active administrator whose grant does not expire
\* and who can sign in with a password, through any sequence of suspensions,
\* revocations, replaced grants, disabled roles and unlinked identities
\* (preserveActiveAdmin, ErrLastAdmin).
AdministratorRemains == Administrators(TRUE, TRUE) # {}

\* The stored paths and levels are those of the tree of parents, which has no
\* cycle, whatever subtree was moved; an active department hangs under an
\* active one, and active users are in active departments (store.go 1017-1033,
\* organization.go 64-110).
OrganizationIsConsistent ==
  /\ \A d \in Dept : dept[d] # None =>
       LET p == dept[d].parent IN
       /\ dept[d].path = Append(ParentPath(p), d)
       /\ dept[d].level + 1 = Len(dept[d].path)
       /\ ActiveDept(d) /\ p # None => ActiveDept(p)
  /\ \A u \in User : Active(u) /\ user[u].dept # None => ActiveDept(user[u].dept)
===============================================================================
