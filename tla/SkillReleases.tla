----------------------------- MODULE SkillReleases -----------------------------
(***************************************************************************)
(* The sources of governed skills and their release (governance            *)
(* internal/store store.go, internal/server server.go, internal/domain     *)
(* domain.go; registry internal/governedskills): authors save versions,    *)
(* which never change, an administrator points at one of them, and the     *)
(* publisher assembles a bundle from those pointed at.                     *)
(***************************************************************************)
EXTENDS Naturals

CONSTANTS
  Skill, Version,
  Content, Loadable, \* texts, and those that a node can load
  Admin,             \* administrators' requests
  MaxRestart,        \* bound: restarts of governance
  None

VARIABLES
  skill,    \* rows: None or [current, published, digest]
  source,   \* rows of versions: per skill and version None or [content, digest]
  request,  \* per administrator None or the publication under way [skill, version]
  bundle,   \* what the publisher assembled last
  refused,  \* governance refused it the snapshot
  approved, \* history: what administrators have had checked and published
  restarts

releaseVars == <<skill, source, request, bundle, refused, approved, restarts>>

Digest(content) == [sha256 |-> content]

SkillReleaseInit ==
  /\ skill = [s \in Skill |-> None] /\ source = [s \in Skill |-> [v \in Version |-> None]]
  /\ request = [a \in Admin |-> None] /\ bundle = {} /\ refused = FALSE
  /\ approved = {} /\ restarts = 0

Saved(s, v, content) == source' = [source EXCEPT ![s][v] = [content |-> content, digest |-> Digest(content)]]

\* CreateSkill: the row and its first version, with any text.
CreateSkill(s, v, content) ==
  /\ skill[s] = None
  /\ skill' = [skill EXCEPT ![s] = [current |-> v, published |-> None, digest |-> None]]
  /\ Saved(s, v, content)
  /\ UNCHANGED <<request, bundle, refused, approved, restarts>>

\* Mutant: a version can be saved again.
UnsavedAny(s, v) == TRUE

\* The primary key of the versions.
Unsaved(s, v) == source[s][v] = None

\* CreateSkillVersion moves the draft pointer too.
CreateSkillVersion(s, v, content) ==
  /\ skill[s] # None /\ Unsaved(s, v)
  /\ Saved(s, v, content)
  /\ skill' = [skill EXCEPT ![s].current = v]
  /\ UNCHANGED <<request, bundle, refused, approved, restarts>>

\* Mutant: the text is checked when it is assembled.
ValidAny(s, v) == TRUE

\* ValidateRuntimeSource
Valid(s, v) == source[s][v].content \in Loadable

\* The handler publishSkillVersion reads the version and checks it.
AskPublish(a, s, v) ==
  /\ request[a] = None
  /\ skill[s] # None /\ source[s][v] # None /\ Valid(s, v)
  /\ request' = [request EXCEPT ![a] = [skill |-> s, version |-> v]]
  /\ approved' = approved \cup {[skill |-> s, version |-> v, content |-> source[s][v].content]}
  /\ UNCHANGED <<skill, source, bundle, refused, restarts>>

\* Mutant: the draft is published instead of the version that was checked.
SelectedDraft(s, v) == skill[s].current

Selected(s, v) == v

Pointed(row, s, v) == [row EXCEPT !.published = v, !.digest = source[s][v].digest]

\* PublishSkillVersion, in a statement of its own.
PublishSkillVersion(a) ==
  /\ request[a] # None
  /\ LET s == request[a].skill
     IN skill' = [skill EXCEPT ![s] = Pointed(@, s, Selected(s, request[a].version))]
  /\ request' = [request EXCEPT ![a] = None]
  /\ UNCHANGED <<source, bundle, refused, approved, restarts>>

\* RuntimeSkillSnapshot
Snapshot ==
  {[skill |-> s, version |-> skill[s].published, content |-> source[s][skill[s].published].content] :
     s \in {s \in Skill : skill[s] # None /\ skill[s].published # None}}

\* Governance looks at every text and digest, and refuses the whole snapshot for one of them.
Acceptable(e) == e.content \in Loadable /\ source[e.skill][e.version].digest = Digest(e.content)

\* Fetch and Build
Assemble ==
  /\ bundle' = IF \A e \in Snapshot : Acceptable(e) THEN Snapshot ELSE bundle
  /\ refused' = \E e \in Snapshot : ~Acceptable(e)
  /\ UNCHANGED <<skill, source, request, approved, restarts>>

\* What the schema makes of the rows of an installation that has no pointers yet, at each start.
Backfilled(row, s) ==
  IF row # None /\ row.published = None THEN Pointed(row, s, row.current) ELSE row

Restart ==
  /\ restarts < MaxRestart /\ restarts' = restarts + 1
  /\ skill' = [s \in Skill |-> Backfilled(skill[s], s)]
  /\ request' = [a \in Admin |-> None]
  /\ UNCHANGED <<source, bundle, refused, approved>>

SkillReleaseNext ==
  \/ Assemble \/ Restart
  \/ \E s \in Skill, v \in Version, content \in Content : CreateSkill(s, v, content) \/ CreateSkillVersion(s, v, content)
  \/ \E a \in Admin : PublishSkillVersion(a) \/ \E s \in Skill, v \in Version : AskPublish(a, s, v)

SkillReleaseSpec == SkillReleaseInit /\ [][SkillReleaseNext]_releaseVars

-----------------------------------------------------------------------------
(* Properties.                                                             *)

\* The pointer names a version that is there, and its digest is that of the text, so "callers can verify exactly which
\* bytes were approved" (store.go:1326-1329), whatever is saved meanwhile.
PublishedStands ==
  \A s \in Skill : skill[s] # None /\ skill[s].published # None =>
    source[s][skill[s].published] # None /\ skill[s].digest = Digest(source[s][skill[s].published].content)

\* "A realm administrator must explicitly select one immutable revision" before the publisher may include it
\* (domain.go:1101-1105): what is assembled was checked and published by one, and with the text that was checked.
BundleIsApproved == bundle \subseteq approved

\* What administrators publish can be assembled: nobody's draft makes governance refuse the snapshot of the realm.
SnapshotIsServed == ~refused

\* Releases together.
SkillReleasesHold == PublishedStands /\ BundleIsApproved /\ SnapshotIsServed
===============================================================================
