------------------------------ MODULE SkillAccess ------------------------------
(***************************************************************************)
(* Which skills a worker may use (governance internal/store store.go,      *)
(* skill_access.go; internal/domain ResolveEffectiveSkills): grants and    *)
(* revocations name a user, an agent, a project, a role or a department.   *)
(* They are resolved for one worker by a series of statements that share   *)
(* no transaction, while administrators go on changing everything.  An     *)
(* entry that expires is one that is removed.                              *)
(***************************************************************************)
EXTENDS Naturals, Sequences

CONSTANTS
  Human,       \* the worker is the user "u", and otherwise the agent "a"
  Skill, Version,
  Dept, Above, \* departments, and the one above each, None at the top, as it is at first
  Grant,       \* the grants there may be: [skill, version, kind, subject, children], version None: the current one
  Revocation,  \* the revocations there may be: [skill, kind, subject]
  MaxChange,   \* bound: changes
  None

VARIABLES
  above,       \* the tree
  dept,        \* the user's department
  role,        \* the user's role "r": held and active; both are written by administrators
  member,      \* the user belongs to the project "p", which is asked for
  current,     \* the current version of each skill
  grants, revocations,
  reading,     \* the resolution: what it has read so far
  steady,      \* history: the revocations that have stood, and meant the worker, since it began
  changes

accessVars == <<above, dept, role, member, current, grants, revocations, reading, steady, changes>>

Idle == [pc |-> "idle", dept |-> None, role |-> FALSE, path |-> <<>>, ancestors |-> {}, member |-> FALSE,
         revoked |-> {}, rows |-> {}, left |-> {}, chosen |-> << >>]

AccessInit ==
  /\ above = Above /\ dept \in Dept
  /\ role = [held |-> TRUE, active |-> TRUE] /\ member = TRUE
  /\ current = [s \in Skill |-> CHOOSE v \in Version : \A w \in Version : v <= w]
  /\ grants = {} /\ revocations = {}
  /\ reading = Idle /\ steady = {} /\ changes = 0

\* The path of a department: those above it, and it.
Path(tree, d) ==
  LET path[e \in Dept] == IF tree[e] = None THEN <<e>> ELSE Append(path[tree[e]], e)
  IN path[d]

-----------------------------------------------------------------------------
(* What administrators do; each is a transaction under the realm's lock.   *)

Change == changes < MaxChange /\ changes' = changes + 1

\* checkSkillSubject: the subject is active.  Users, agents and departments are taken to be.
GrantSkill(g) ==
  /\ Change
  /\ g.kind = "role" => role.active
  /\ grants' = grants \cup {g}
  /\ UNCHANGED <<above, dept, role, member, current, revocations, reading>>

\* The subject of a revocation is not looked up.
RevokeSkill(r) ==
  /\ Change
  /\ revocations' = revocations \cup {r}
  /\ UNCHANGED <<above, dept, role, member, current, grants, reading>>

DeleteSkillAccess ==
  /\ Change
  /\ \/ \E g \in grants : grants' = grants \ {g} /\ UNCHANGED revocations
     \/ \E r \in revocations : revocations' = revocations \ {r} /\ UNCHANGED grants
  /\ UNCHANGED <<above, dept, role, member, current, reading>>

\* The user, the role, the project and the tree change.
Transfer ==
  /\ Change
  /\ \/ dept' \in Dept \ {dept} /\ UNCHANGED <<above, role, member>>
     \/ role' \in {[role EXCEPT !.held = ~@], [role EXCEPT !.active = ~@]} /\ UNCHANGED <<above, dept, member>>
     \/ member' = ~member /\ UNCHANGED <<above, dept, role>>
     \/ \E d \in Dept, e \in Dept \cup {None} :
          /\ e # None => \A i \in DOMAIN Path(above, e) : Path(above, e)[i] # d
          /\ above' = [above EXCEPT ![d] = e]
          /\ UNCHANGED <<dept, role, member>>
  /\ UNCHANGED <<current, grants, revocations, reading>>

\* CreateSkillVersion moves the current version.
NewVersion(s) ==
  /\ Change
  /\ \E v \in Version : v > current[s] /\ current' = [current EXCEPT ![s] = v]
  /\ UNCHANGED <<above, dept, role, member, grants, revocations, reading>>

-----------------------------------------------------------------------------
(* EffectiveSkillsForWorker.                                               *)

Unchanged == UNCHANGED <<above, dept, role, member, current, grants, revocations, changes>>

\* An agent has no department, role or project.
Begin ==
  /\ reading.pc = "idle"
  /\ reading' = IF Human THEN [Idle EXCEPT !.pc = "roles", !.dept = dept] ELSE [Idle EXCEPT !.pc = "revocations"]
  /\ Unchanged

\* roleIDs: roles that are held and active.
RoleIDs ==
  /\ reading.pc = "roles"
  /\ reading' = [reading EXCEPT !.pc = "path", !.role = role.held /\ role.active]
  /\ Unchanged

\* departmentAncestors, two statements: the path of the department, and the departments whose path begins the path.
Ancestors(path) ==
  {d \in Dept : LET own == Path(above, d) IN Len(own) <= Len(path) /\ own = SubSeq(path, 1, Len(own))}

DepartmentPath ==
  /\ reading.pc = "path"
  /\ reading' = [reading EXCEPT !.pc = "ancestors", !.path = Path(above, reading.dept)]
  /\ Unchanged

DepartmentAncestors ==
  /\ reading.pc = "ancestors"
  /\ reading' = [reading EXCEPT !.pc = "member", !.ancestors = Ancestors(reading.path)]
  /\ Unchanged

ProjectMember ==
  /\ reading.pc = "member"
  /\ reading' = [reading EXCEPT !.pc = "revocations", !.member = member]
  /\ Unchanged

\* Mutant: the revocation of a department is not one of those below it.
RevokedOwn(r, context) ==
  CASE r.kind = "user" -> Human
    [] r.kind = "agent" -> ~Human
    [] r.kind = "project" -> context.member
    [] r.kind = "role" -> context.role
    [] r.kind = "department" -> r.subject = context.dept

\* matchesRevocationForWorker, for the subjects "u", "a", "p" and "r" and the departments.
MatchesRevocation(r, context) ==
  CASE r.kind = "user" -> Human
    [] r.kind = "agent" -> ~Human
    [] r.kind = "project" -> context.member
    [] r.kind = "role" -> context.role
    [] r.kind = "department" -> r.subject = context.dept \/ r.subject \in context.ancestors

MatchingRevocations ==
  /\ reading.pc = "revocations"
  /\ reading' = [reading EXCEPT !.pc = "grants",
                                !.revoked = {r.skill : r \in {r \in revocations : MatchesRevocation(r, reading)}}]
  /\ Unchanged

\* matchesGrantForWorker: the priority of a grant, 0 if it is not meant.
Priority(g) ==
  CASE g.kind = "user" -> IF Human THEN 50 ELSE 0
    [] g.kind = "agent" -> IF Human THEN 0 ELSE 45
    [] g.kind = "project" -> IF reading.member THEN 40 ELSE 0
    [] g.kind = "role" -> IF reading.role THEN 30 ELSE 0
    [] g.kind = "department" ->
         IF g.subject = reading.dept THEN 20 ELSE IF g.children /\ g.subject \in reading.ancestors THEN 10 ELSE 0

\* The grants are read together with the current versions, in no order.
Candidates ==
  /\ reading.pc = "grants"
  /\ LET meant == {g \in grants : Priority(g) > 0}
         Candidate(g) == [skill |-> g.skill, version |-> IF g.version = None THEN current[g.skill] ELSE g.version,
                          priority |-> Priority(g), kind |-> g.kind, subject |-> g.subject]
     IN reading' = [reading EXCEPT !.pc = "resolve", !.rows = {Candidate(g) : g \in meant}, !.left = {Candidate(g) : g \in meant}]
  /\ Unchanged

\* Mutant: the last of equal candidates is taken.
PrefersLast(c) == c.skill \notin DOMAIN reading.chosen \/ c.priority >= reading.chosen[c.skill].priority

Prefers(c) == c.skill \notin DOMAIN reading.chosen \/ c.priority > reading.chosen[c.skill].priority

Conflicts(c) == c.priority = reading.chosen[c.skill].priority /\ c.version # reading.chosen[c.skill].version

Choosing(c) == [s \in DOMAIN reading.chosen \cup {c.skill} |-> IF s = c.skill THEN c ELSE reading.chosen[s]]

\* Mutant: a grant by name is kept.
KeptOwn(c) == c.skill \notin reading.revoked \/ c.kind = "user"

Kept(c) == c.skill \notin reading.revoked

\* ResolveEffectiveSkills, a candidate after the other.
Resolve ==
  /\ reading.pc = "resolve" /\ reading.left # {}
  /\ \E c \in reading.left :
       reading' =
         IF Kept(c) /\ Prefers(c) THEN [reading EXCEPT !.left = @ \ {c}, !.chosen = Choosing(c)]
         ELSE IF Kept(c) /\ Conflicts(c) THEN [reading EXCEPT !.pc = "refused"]
         ELSE [reading EXCEPT !.left = @ \ {c}]
  /\ Unchanged

Answered == reading.pc = "resolve" /\ reading.left = {}

Answer ==
  /\ Answered \/ reading.pc = "refused"
  /\ reading' = Idle
  /\ Unchanged

-----------------------------------------------------------------------------
\* Where the worker stands now.
Now == [role |-> role.held /\ role.active, member |-> member,
        ancestors |-> Ancestors(Path(above, dept))]

\* The revocation means the worker, written out on its own.
Means(r, context) ==
  \/ r.kind = (IF Human THEN "user" ELSE "agent")
  \/ Human /\ (\/ r.kind = "project" /\ context.member
               \/ r.kind = "role" /\ context.role
               \/ r.kind = "department" /\ r.subject \in context.ancestors)

\* A revocation of a department means the user steadily while the user's place in the tree is the same.
Watch ==
  steady' = IF reading'.pc = "idle" THEN {}
            ELSE {r \in IF reading.pc = "idle" THEN revocations ELSE steady :
                    /\ r \in revocations' /\ Means(r, Now')
                    /\ r.kind = "department" => UNCHANGED <<above, dept>>}

AccessNext ==
  /\ \/ Begin \/ RoleIDs \/ DepartmentPath \/ DepartmentAncestors \/ ProjectMember \/ MatchingRevocations
     \/ Candidates \/ Resolve \/ Answer \/ DeleteSkillAccess \/ Transfer
     \/ \E g \in Grant : GrantSkill(g)
     \/ \E r \in Revocation : RevokeSkill(r)
     \/ \E s \in Skill : NewVersion(s)
  /\ Watch

AccessSpec == AccessInit /\ [][AccessNext]_accessVars

-----------------------------------------------------------------------------
(* Properties.                                                             *)

\* "Revocations intentionally fail closed" (store.go:2621-2624): a skill whose revocation stood and meant the worker from
\* the beginning of a resolution is not in its answer, whatever else is granted, to the user by name too.
RevocationsPrevail == Answered => \A r \in steady : r.skill \notin DOMAIN reading.chosen

\* "Silently choosing the newest version would make authorization an upgrade side effect" (domain.go:1247-1249): the
\* answer holds the version that the highest of the grants read names, all of the grants of that rank naming the same;
\* in whatever order they come.
HighestPrevails ==
  Answered => \A s \in Skill :
    LET meant == {c \in reading.rows : c.skill = s /\ s \notin reading.revoked}
        highest == {c \in meant : \A d \in meant : d.priority <= c.priority}
    IN /\ s \in DOMAIN reading.chosen <=> meant # {}
       /\ s \in DOMAIN reading.chosen =>
            reading.chosen[s] \in highest /\ \A c \in highest : c.version = reading.chosen[s].version

\* Access together.
SkillAccessHolds == RevocationsPrevail /\ HighestPrevails
===============================================================================
