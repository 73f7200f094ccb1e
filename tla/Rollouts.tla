------------------------------ MODULE Rollouts ------------------------------
(***************************************************************************)
(* The registry's index and its releases (platform/control-plane/registry  *)
(* internal/store Publish, UpsertRollout, GetRollout,                      *)
(* SelectRolloutVersion; internal/plan Build; internal/resolve Closure;    *)
(* internal/server): a manifest's bytes go to the object store before its  *)
(* row is written, versions are immutable, and a release channel names the *)
(* version that a share of the nodes gets.                                 *)
(***************************************************************************)
EXTENDS Naturals, FiniteSets

CONSTANTS
  Version,    \* the versions of one artifact
  Digest,     \* the bytes a publisher may sign for a version
  Publisher,  \* publications under way at once
  Admin,      \* administrators that change the channel at once
  Percent,    \* the shares an administrator may ask for
  Bucket,     \* the buckets, 0 .. 99, that the nodes fall into
  MaxPut      \* bound: changes of the channel

None == 0

VARIABLES
  blobs,       \* the object store: [version, digest] pairs whose bytes are there
  artifact,    \* registry_artifacts: [Version -> its digest, or None]
  trusted,     \* the trust file still admits the publisher and its scopes
  publishing,  \* [Publisher -> the version and digest it publishes, and whether its bytes are stored]
  rollout,     \* the channel's row: [version, previous, percent]; version None when there is none
  putting,     \* [Admin -> the change it makes: its version, percent, and the row its transaction read]
  puts         \* bound: changes so far

rolloutVars == <<blobs, artifact, trusted, publishing, rollout, putting, puts>>

NoRollout == [version |-> None, previous |-> None, percent |-> 0]
NotPublishing == [version |-> None, digest |-> None, stored |-> FALSE]
NotPutting == [version |-> None, percent |-> 0, read |-> NoRollout, locked |-> FALSE]

RolloutInit ==
  /\ blobs = {} /\ artifact = [v \in Version |-> None] /\ trusted = TRUE
  /\ publishing = [p \in Publisher |-> NotPublishing]
  /\ rollout = NoRollout
  /\ putting = [a \in Admin |-> NotPutting]
  /\ puts = 0

\* Publish: parsed, its signature and scopes admitted, and its payload there.
BeginPublish(p, v, d) ==
  /\ publishing[p] = NotPublishing /\ trusted
  /\ publishing' = [publishing EXCEPT ![p] = [version |-> v, digest |-> d, stored |-> FALSE]]
  /\ UNCHANGED <<blobs, artifact, trusted, rollout, putting, puts>>

\* objs.Put
PutBytes(p) ==
  /\ publishing[p] # NotPublishing /\ ~publishing[p].stored
  /\ blobs' = blobs \cup {<<publishing[p].version, publishing[p].digest>>}
  /\ publishing' = [publishing EXCEPT ![p].stored = TRUE]
  /\ UNCHANGED <<artifact, trusted, rollout, putting, puts>>

\* Mutant: the row is written first and the bytes after it.
IndexableEarly(p) == publishing[p] # NotPublishing

\* Only what is in the object store is put into the index.
Indexable(p) == publishing[p].stored

\* Mutant: the row of a version that exists is written again.
IndexedAnew(v, d) == d

\* ON CONFLICT DO NOTHING: the same bytes are an idempotent repetition, others are refused.
Indexed(v, d) == IF artifact[v] = None THEN d ELSE artifact[v]

InsertArtifact(p) ==
  LET v == publishing[p].version
  IN /\ Indexable(p)
     /\ artifact' = [artifact EXCEPT ![v] = Indexed(v, publishing[p].digest)]
     /\ publishing' = [publishing EXCEPT ![p] = NotPublishing]
     /\ UNCHANGED <<blobs, trusted, rollout, putting, puts>>

\* The store or the process fails: bytes without a row remain, and do no harm.
PublishFails(p) ==
  /\ publishing[p] # NotPublishing
  /\ publishing' = [publishing EXCEPT ![p] = NotPublishing]
  /\ UNCHANGED <<blobs, artifact, trusted, rollout, putting, puts>>

\* The trust file is replaced and the registry restarts with it.
Distrust ==
  /\ trusted
  /\ trusted' = FALSE
  /\ UNCHANGED <<blobs, artifact, publishing, rollout, putting, puts>>

LockedByAnother(a) == \E b \in Admin \ {a} : putting[b].locked

\* UpsertRollout, up to its SELECT ... FOR UPDATE: a published target, and the row, which is locked when there is one.
BeginPut(a, v, percent) ==
  /\ putting[a] = NotPutting /\ puts < MaxPut
  /\ artifact[v] # None /\ ~LockedByAnother(a)
  /\ puts' = puts + 1
  /\ putting' = [putting EXCEPT ![a] = [version |-> v, percent |-> percent, read |-> rollout, locked |-> rollout # NoRollout]]
  /\ UNCHANGED <<blobs, artifact, trusted, publishing, rollout>>

\* Mutant: what was the target becomes the holdback, even when it stays the target.
HoldbackAlways(a) == putting[a].read.version

\* The version the nodes outside the share keep: the target that this change replaces.
Holdback(a) == IF putting[a].read.version # putting[a].version THEN putting[a].read.version ELSE putting[a].read.previous

\* INSERT ... ON CONFLICT DO UPDATE, which waits for a lock another transaction holds; a share needs a holdback.
CommitPut(a) ==
  /\ putting[a] # NotPutting /\ ~LockedByAnother(a)
  /\ rollout' = IF putting[a].percent < 100 /\ Holdback(a) = None THEN rollout
                ELSE [version |-> putting[a].version, previous |-> Holdback(a), percent |-> putting[a].percent]
  /\ putting' = [putting EXCEPT ![a] = NotPutting]
  /\ UNCHANGED <<blobs, artifact, trusted, publishing, puts>>

RolloutNext ==
  \/ Distrust
  \/ \E p \in Publisher : PutBytes(p) \/ InsertArtifact(p) \/ PublishFails(p) \/ \E v \in Version, d \in Digest : BeginPublish(p, v, d)
  \/ \E a \in Admin : CommitPut(a) \/ \E v \in Version, percent \in Percent : BeginPut(a, v, percent)

RolloutSpec == RolloutInit /\ [][RolloutNext]_rolloutVars

-----------------------------------------------------------------------------

\* SelectRolloutVersion, of a node in this bucket.
Select(row, bucket) == IF row.percent = 100 \/ bucket < row.percent THEN row.version ELSE row.previous

\* A node is never sent to a version whose bytes cannot be had: whatever the channel selects, for any node, is published,
\* and its bytes are in the object store (store.go:391-395 "已发布但取不到字节").
SelectedIsFetchable ==
  rollout # NoRollout => \A b \in Bucket : LET v == Select(rollout, b) IN v # None /\ artifact[v] # None /\ <<v, artifact[v]>> \in blobs

\* A share is a share: while a channel is not at a hundred percent its holdback is another version than its target, so
\* that widening it reaches the nodes in steps.
HoldbackIsAnother == rollout # NoRollout => rollout.previous # rollout.version

RolloutsHold == SelectedIsFetchable /\ HoldbackIsAnother

\* Widening a release moves no node that has the target back to the holdback (store.go:147-149), and the bytes behind a
\* published version never change.
ReleasesOnlyWiden ==
  /\ rollout'.version = rollout.version /\ rollout'.percent >= rollout.percent
       => \A b \in Bucket : Select(rollout, b) = rollout.version => Select(rollout', b) = rollout.version
  /\ \A v \in Version : artifact[v] # None => artifact'[v] = artifact[v]

\* The version that a change of the target replaces is captured as the holdback (store.go:134-136 "It is captured when
\* Version changes, so a gradual rollout can move forward or immediately roll back without guessing an old version").
ReplacedIsCaptured == rollout.version \notin {None, rollout'.version} => rollout'.previous = rollout.version
=============================================================================
