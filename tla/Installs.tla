------------------------------ MODULE Installs ------------------------------
(***************************************************************************)
(* A node's installed artifacts (platform/control-plane/registry internal/ *)
(* provisioner Reconcile, Install, Report; cmd/provisioner; internal/      *)
(* provisioner/runtime.go RuntimeSpec, UninstallRoot; internal/            *)
(* artifactruntime; cmd/artifact-runtime): the provisioner converges the   *)
(* disk to the channel's version, and the artifact runtime, a process of   *)
(* its own, starts, stops and uninstalls what it finds there.              *)
(***************************************************************************)
EXTENDS Naturals, FiniteSets

CONSTANTS
  Version,   \* the published versions of the artifact
  Handler,   \* requests the artifact runtime serves at once
  MaxTarget, \* bound: changes of the channel
  MaxCrash,  \* bound: crashes of the provisioner
  MaxDamage  \* bound: damages of the disk

None == 0

VARIABLES
  target,   \* the version the channel selects for this node
  disk,     \* [Version -> [dir, payload, manifest]]; payload: "none", "away" (moved aside), "torn" or "whole"
  skills,   \* the skills directory and its snapshot file: [dir, json], each the version it is of, or None
  state,    \* the install-state file: the version it names, or None
  job,      \* the provisioner: [at, version, clean]; clean (ghost): nobody else has touched the disk since it read it
  report,   \* the node's row of registry_installations: [state, version]
  process,  \* [Version -> the supervisor's process: "none", "running", "stopping" or "over"]
  request,  \* [Handler -> the request it serves: its kind, version and step, and whether the disk stayed as it was verified]
  count     \* bounds: [target, crash, damage]

installVars == <<target, disk, skills, state, job, report, process, request, count>>

Absent == [dir |-> FALSE, payload |-> "none", manifest |-> FALSE]
NoJob == [at |-> "idle", version |-> None, clean |-> TRUE]
NoRequest == [kind |-> "none", version |-> None, at |-> "idle", clean |-> TRUE]

InstallInit ==
  /\ target \in Version
  /\ disk = [v \in Version |-> Absent]
  /\ skills = [dir |-> None, json |-> None] /\ state = None
  /\ job = NoJob /\ report = [state |-> "none", version |-> None]
  /\ process = [v \in Version |-> "none"]
  /\ request = [h \in Handler |-> NoRequest]
  /\ count = [target |-> 0, crash |-> 0, damage |-> 0]

\* An administrator changes the channel.
Retarget(v) ==
  /\ v # target /\ count.target < MaxTarget
  /\ target' = v
  /\ count' = [count EXCEPT !.target = @ + 1]
  /\ UNCHANGED <<disk, skills, state, job, report, process, request>>

Whole(v) == disk[v].payload = "whole" /\ disk[v].manifest /\ skills = [dir |-> v, json |-> v]

\* Mutant: the install-state file is believed.
InstalledByState(v) == state = v

\* readState and matchesPlan: the file names this root, and every manifest, payload and skill file is read and compared.
Installed(v) == state = v /\ Whole(v)

\* ResolveRollout, fetchPlan and the comparison: done already, or to be installed.
Reconcile ==
  /\ job.at = "idle"
  /\ job' = [at |-> IF Installed(target) THEN "report" ELSE "payload", version |-> target, clean |-> TRUE]
  /\ UNCHANGED <<target, disk, skills, state, report, process, request, count>>

\* The registry cannot be reached or refuses the plan, before or within an installation: it is reported as failed.
InstallFails ==
  /\ job.at \notin {"idle", "report"}
  /\ report' = [state |-> "failed", version |-> job.version]
  /\ job' = NoJob
  /\ UNCHANGED <<target, disk, skills, state, process, request, count>>

Step(from, to) == job.at = from /\ job' = [job EXCEPT !.at = to]

\* materializePayload, replaceDirectory: what was there is moved away,
MoveAway ==
  /\ Step("payload", "place")
  /\ disk' = [disk EXCEPT ![job.version] = [dir |-> TRUE, payload |-> IF @.payload = "none" THEN "none" ELSE "away", manifest |-> @.manifest]]
  /\ UNCHANGED <<target, skills, state, report, process, request, count>>

\* and the verified bytes take its place, with the bundle they came in.
Place ==
  /\ Step("place", "manifest") /\ disk[job.version].dir
  /\ disk' = [disk EXCEPT ![job.version].payload = "whole"]
  /\ UNCHANGED <<target, skills, state, report, process, request, count>>

\* writeFileAtomic, of the manifest.
WriteManifest ==
  /\ Step("manifest", "skills") /\ disk[job.version].dir
  /\ disk' = [disk EXCEPT ![job.version].manifest = TRUE]
  /\ UNCHANGED <<target, skills, state, report, process, request, count>>

\* materializeSkillSnapshot: the directory, and then the file that lists it.
ReplaceSkills ==
  /\ Step("skills", "snapshot")
  /\ skills' = [skills EXCEPT !.dir = job.version]
  /\ UNCHANGED <<target, disk, state, report, process, request, count>>

WriteSnapshot ==
  /\ Step("snapshot", "state")
  /\ skills' = [skills EXCEPT !.json = job.version]
  /\ UNCHANGED <<target, disk, state, report, process, request, count>>

\* The install-state file, last.
WriteState ==
  /\ Step("state", "report")
  /\ state' = job.version
  /\ UNCHANGED <<target, disk, skills, report, process, request, count>>

\* Report, which may not arrive.
Report(arrives) ==
  /\ job.at = "report"
  /\ report' = IF arrives THEN [state |-> "converged", version |-> job.version] ELSE report
  /\ job' = NoJob
  /\ UNCHANGED <<target, disk, skills, state, process, request, count>>

\* The provisioner dies; what it had written so far stays.
Crash ==
  /\ job # NoJob /\ count.crash < MaxCrash
  /\ count' = [count EXCEPT !.crash = @ + 1]
  /\ job' = NoJob
  /\ UNCHANGED <<target, disk, skills, state, report, process, request>>

\* Whoever else changes the disk spoils what others have verified.
Touched(j) == [j EXCEPT !.clean = FALSE]
Spoiled(r) == IF r.at = "verified" THEN [r EXCEPT !.clean = FALSE] ELSE r

\* A file is damaged or removed by hand.
Damage(v) ==
  /\ disk[v].payload = "whole" /\ count.damage < MaxDamage
  /\ disk' = [disk EXCEPT ![v].payload = "torn"]
  /\ count' = [count EXCEPT !.damage = @ + 1]
  /\ job' = Touched(job)
  /\ request' = [h \in Handler |-> Spoiled(request[h])]
  /\ UNCHANGED <<target, skills, state, report, process>>

\* Mutant: the install-state file vouches for what it names.
VerifiedByState(v) == state = v

\* RuntimeSpec: named by the install-state file, its manifest and its payload as they were signed.
Verified(v) == state = v /\ disk[v].manifest /\ disk[v].payload = "whole"

\* start and uninstall begin with the same verification.
Ask(h, kind, v) ==
  /\ request[h] = NoRequest /\ Verified(v)
  /\ request' = [request EXCEPT ![h] = [kind |-> kind, version |-> v, at |-> "verified", clean |-> TRUE]]
  /\ UNCHANGED <<target, disk, skills, state, job, report, process, count>>

\* Supervisor.Start: a running process is left alone, and the executable must be there.
Start(h) ==
  LET r == request[h]
  IN /\ r.kind = "start" /\ r.at = "verified"
     /\ process' = IF process[r.version] \in {"running", "stopping"} \/ disk[r.version].payload \in {"none", "away"} THEN process
                   ELSE [process EXCEPT ![r.version] = "running"]
     /\ request' = [request EXCEPT ![h] = NoRequest]
     /\ UNCHANGED <<target, disk, skills, state, job, report, count>>

\* Supervisor.Stop signals under its lock and waits for the end without it.
Stop(h) ==
  LET r == request[h]
  IN /\ r.kind = "uninstall" /\ r.at = "verified"
     /\ process' = IF process[r.version] = "running" THEN [process EXCEPT ![r.version] = "stopping"] ELSE process
     /\ request' = [request EXCEPT ![h].at = "stopping"]
     /\ UNCHANGED <<target, disk, skills, state, job, report, count>>

\* A process ends: by itself, or as it was told.
Exit(v) ==
  /\ process[v] \in {"running", "stopping"}
  /\ process' = [process EXCEPT ![v] = "over"]
  /\ UNCHANGED <<target, disk, skills, state, job, report, request, count>>

\* UninstallRoot: only the recorded root, and only when its manifest is intact.
Removable(v) == state = v /\ disk[v].manifest

\* UninstallRoot: the closure's directories go first,
RemoveFiles(h) ==
  LET r == request[h]
  IN /\ r.at = "stopping" /\ process[r.version] # "stopping"
     /\ IF Removable(r.version)
        THEN /\ disk' = [disk EXCEPT ![r.version] = Absent]
             /\ request' = [x \in Handler |-> IF x = h THEN [r EXCEPT !.at = "removing"] ELSE Spoiled(request[x])]
             /\ job' = Touched(job)
        ELSE request' = [request EXCEPT ![h] = NoRequest] /\ UNCHANGED <<disk, job>>
     /\ UNCHANGED <<target, skills, state, report, process, count>>

\* and the install-state file, the skills and their snapshot after them.
RemoveState(h) ==
  /\ request[h].at = "removing"
  /\ state' = None /\ skills' = [dir |-> None, json |-> None]
  /\ request' = [request EXCEPT ![h] = NoRequest]
  /\ job' = Touched(job)
  /\ UNCHANGED <<target, disk, report, process, count>>

InstallNext ==
  \/ Reconcile \/ InstallFails \/ MoveAway \/ Place \/ WriteManifest \/ ReplaceSkills \/ WriteSnapshot \/ WriteState
  \/ Report(TRUE) \/ Report(FALSE) \/ Crash
  \/ \E v \in Version : Retarget(v) \/ Damage(v) \/ Exit(v)
  \/ \E h \in Handler : Start(h) \/ Stop(h) \/ RemoveFiles(h) \/ RemoveState(h) \/ \E v \in Version : Ask(h, "start", v) \/ Ask(h, "uninstall", v)

InstallSpec == InstallInit /\ [][InstallNext]_installVars

-----------------------------------------------------------------------------

\* What the provisioner is about to report as converged is on the disk, whatever crash an earlier round died of, unless
\* somebody else touched the disk in this very round (provisioner.go:133-137: the install-state file is a hint only).
ConvergedIsInstalled == job.at = "report" /\ job.clean => state = job.version /\ Whole(job.version)

\* A manifest on the disk has its payload next to it, so that a half-finished download never looks installed
\* (provisioner.go:3-5 "A partial download is never visible as an installed artifact"); only a reinstallation under way,
\* one that died, or damage may have torn a payload whose manifest was there before.
PartsAreInvisible == \A v \in Version : disk[v].manifest => disk[v].payload # "none"

\* The node has what the channel selects, and the registry knows.
Settled == state = target /\ Whole(target) /\ report = [state |-> "converged", version |-> target]

InstallsHold == ConvergedIsInstalled /\ PartsAreInvisible

\* A process is started only from a payload that was whole when it was verified and that nobody else has touched since.
StartsAreVerified ==
  \A v \in Version, h \in Handler :
    (process[v] # "running" /\ process'[v] = "running" /\ request[h].version = v /\ request'[h] = NoRequest /\ request[h].clean)
       => disk[v].payload = "whole"

\* What runs is installed.
RunningIsInstalled == \A v \in Version : process[v] = "running" => disk[v].manifest
=============================================================================
