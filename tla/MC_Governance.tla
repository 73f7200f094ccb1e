---------------------------- MODULE MC_Governance -----------------------------
(***************************************************************************)
(* The governance service on small instances.  Its parts share no state    *)
(* that is modelled twice, so every behaviour is one of a single part, the *)
(* "world": delegated tasks (one with a scheduler, one stored before there *)
(* were runs, a parent with a child), the identity of a machine, a run     *)
(* handed to a machine, departments, administrators, and signing in with   *)
(* passwords or with passkeys and the external provider.                   *)
(***************************************************************************)
EXTENDS Naturals, Sequences, TLAPS

CONSTANTS
  None, c1, c2, r1, u1, u2,
  MaxRevision, MaxSerial, MaxConnection   \* bounds of the machine's identity

VARIABLES world,
  task, run, result, outbox, placed, call, finished, accepted,
  node, machine, signed, opened,
  work, sched, handover, receipt, cmd, server, conns, link, disk, agent, job,
  user, dept, role, grant, identity, session, drawn, ticket, used, failure, totp, passkey, request

delegation == <<task, run, result, outbox, placed, call, finished, accepted>>
channel == <<node, machine, signed, opened>>
devices == <<work, sched, handover, receipt, cmd, server, conns, link, disk, agent, job>>
organization == <<user, dept, role, grant, identity, session, drawn>>
signIn == <<ticket, used, failure, totp, passkey, request>>
accounts == <<organization, signIn>>
vars == <<world, delegation, channel, devices, accounts>>

Solo == INSTANCE Delegation_proofs WITH
  Task <- {"solo"}, Caller <- {c1}, Loop <- {c2}, Legacy <- {}, ParentOf <- [t \in {"solo"} |-> None],
  Scheduled <- TRUE, MaxAttempt <- 2, Reported <- {"CANCELLED"},
  Asked <- {"submit_review", "complete"}

Upgraded == INSTANCE Delegation_proofs WITH
  Task <- {"old"}, Caller <- {c1}, Loop <- {c2}, Legacy <- {"old"}, ParentOf <- [t \in {"old"} |-> None],
  Scheduled <- TRUE, MaxAttempt <- 2, Reported <- {"RUNNING", "FAILED"},
  Asked <- {"start"}

Family == INSTANCE Delegation_proofs WITH
  Task <- {"parent", "child"}, Caller <- {c1}, Loop <- {}, Legacy <- {},
  ParentOf <- [t \in {"parent", "child"} |-> IF t = "child" THEN "parent" ELSE None],
  Scheduled <- FALSE, MaxAttempt <- 2, Reported <- {"FAILED"}, Asked <- Solo!Event

Identity == INSTANCE DeviceIdentity

Devices == INSTANCE DeviceTasks_proofs WITH
  Run <- {r1}, AttemptOf <- [r \in {r1} |-> 1], Cap <- 2, MaxConnection <- 2, MaxManaged <- 1,
  run <- work, outbox <- handover, result <- receipt, opened <- conns

Departments == INSTANCE SignIn_proofs WITH
  User <- {u1, u2}, Dept <- {"d1", "d2", "d3"}, Role <- {"admin"}, Subject <- {}, Bootstrap <- u1,
  Token <- {}, MaxPassword <- 2, Asked <- {"user", "department"},
  Caller <- {}, Member <- {}, Ticket <- {}, MaxTry <- 2, call <- request

Administration == INSTANCE SignIn_proofs WITH
  User <- {u1, u2}, Dept <- {}, Role <- {"admin"}, Subject <- {"s1", "s2"}, Bootstrap <- u1,
  Token <- {}, MaxPassword <- 3, Asked <- {"user", "role", "credential", "oidc"},
  Caller <- {}, Member <- {}, Ticket <- {}, MaxTry <- 2, call <- request

Passwords == INSTANCE SignIn_proofs WITH
  User <- {u1, u2}, Dept <- {}, Role <- {"admin"}, Subject <- {}, Bootstrap <- u1,
  Token <- {"t1"}, MaxPassword <- 4, Asked <- {"user", "credential", "login", "totp"},
  Caller <- {c1, c2}, Member <- {u2}, Ticket <- {"k1", "k2"}, MaxTry <- 2, call <- request

Passkeys == INSTANCE SignIn_proofs WITH
  User <- {u1, u2}, Dept <- {}, Role <- {"admin"}, Subject <- {"s1"}, Bootstrap <- u1,
  Token <- {"t1", "t2"}, MaxPassword <- 3,
  Asked <- {"user", "credential", "passkey", "oidc", "provider", "session"},
  Caller <- {c1}, Member <- {u2}, Ticket <- {"k1", "k2", "k3"}, MaxTry <- 2, call <- request

\* The instances are some that the theorems about their modules speak of.
ASSUME InstancesAreCovered ==
  /\ Solo!DelegationConstants /\ Upgraded!DelegationConstants /\ Family!DelegationConstants
  /\ Devices!DeviceConstants
  /\ Departments!AccountConstants /\ Administration!AccountConstants
  /\ Passwords!AccountConstants /\ Passkeys!AccountConstants

OfAccounts == {"departments", "administrators", "passwords", "passkeys"}

Init ==
  /\ \/ world = "departments" /\ Departments!Init
     \/ world \in {"solo", "upgraded", "family", "identity", "devices", "administrators"} /\ Administration!Init
     \/ world = "passwords" /\ Passwords!Init
     \/ world = "passkeys" /\ Passkeys!Init
  /\ IF world = "passwords" THEN Passwords!AccountInit ELSE Passkeys!AccountInit
  /\ Identity!Init
  /\ Devices!Init
  /\ \/ world = "upgraded" /\ Upgraded!Init
     \/ world = "family" /\ Family!Init
     \/ world \in {"solo", "identity", "devices"} \cup OfAccounts /\ Solo!Init

Next ==
  /\ UNCHANGED world
  /\ \/ /\ UNCHANGED <<channel, devices, accounts>>
        /\ \/ world = "solo" /\ Solo!Next
           \/ world = "upgraded" /\ Upgraded!Next
           \/ world = "family" /\ Family!Next
     \/ world = "identity" /\ Identity!Next /\ UNCHANGED <<delegation, devices, accounts>>
     \/ world = "devices" /\ Devices!Next /\ UNCHANGED <<delegation, channel, accounts>>
     \/ /\ UNCHANGED <<delegation, channel, devices>>
        /\ \/ world = "departments" /\ Departments!Next /\ UNCHANGED signIn
           \/ world = "administrators" /\ Administration!Next /\ UNCHANGED signIn
           \/ world = "passwords" /\ Passwords!SignInNext
           \/ world = "passkeys" /\ Passkeys!SignInNext

Spec == Init /\ [][Next]_vars

\* The delegation property of the installation at hand.
World(solo, upgraded, family) ==
  CASE world = "upgraded" -> upgraded [] world = "family" -> family [] OTHER -> solo

\* Rows, hand-overs and calls are well formed.
TypeOK == World(Solo!TypeOK, Upgraded!TypeOK, Family!TypeOK)

\* Nothing is in execution in or directly under a closed task.
ClosedTreeIsQuiet ==
  World(Solo!ClosedTreeIsQuiet, Upgraded!ClosedTreeIsQuiet, Family!ClosedTreeIsQuiet)

\* DONE rests on the newest run and its recorded result.
DoneRestsOnAResult ==
  World(Solo!DoneRestsOnAResult, Upgraded!DoneRestsOnAResult, Family!DoneRestsOnAResult)

\* The run a task waits for is with the outbox or the scheduler.
WaitingRunIsCared ==
  World(Solo!WaitingRunIsCared, Upgraded!WaitingRunIsCared, Family!WaitingRunIsCared)

\* A child counted as accepted was accepted.
DoneChildrenWereAccepted == world = "family" => Family!DoneChildrenWereAccepted

\* Ended attempts and recorded results never change.
AttemptsStandStill ==
  [][World(Solo!AttemptsKept, Upgraded!AttemptsKept, Family!AttemptsKept)]_vars

\* A machine whose renewal is not answered can still renew, and what makes a node
\* deliverable was reported over its present connection.
ConnectionsAreSound == Identity!MachineKeepsAWayIn /\ Identity!AppliedIsOfThisConnection

\* Running and finished runs are backed by the machine's inbox and receipts.
LedgerIsBackedByTheMachine == Devices!LedgerIsBackedByTheMachine

\* A lasting administrator with a password remains, and the tree of departments and the places of users in it agree.
OrganizationIsSound ==
  /\ Administration!AdministratorRemains
  /\ world = "departments" => Departments!OrganizationIsConsistent

\* Sessions rest on their grounds, and each ticket serves one request.
SignInHolds ==
  /\ world = "passwords" => Passwords!SessionRestsOnItsGrounds /\ Passwords!TicketsServeOnce
  /\ world = "passkeys" => Passkeys!SessionRestsOnItsGrounds /\ Passkeys!TicketsServeOnce

-----------------------------------------------------------------------------
(* Theorems.  The whole inherits what is proved of the delegated tasks, of *)
(* the machine's task loop and of accounts, since each behaviour is one of *)
(* a part; the identity of a machine is taken up here, for any bounds.     *)

\* The world decides which installation the delegated tasks are of.
LEMMA OneInstallation ==
  /\ Spec /\ world = "family" => Family!Spec /\ [](world = "family")
  /\ Spec /\ world = "upgraded" => Upgraded!Spec /\ [](world = "upgraded")
  /\ Spec /\ world \notin {"family", "upgraded"} => Solo!Spec /\ [](world \notin {"family", "upgraded"})
<1>1. [Next]_vars => UNCHANGED world
  BY DEF Next, vars
<1>2. /\ [Next]_vars /\ world = "family" => [Family!Next]_(Family!vars)
      /\ [Next]_vars /\ world = "upgraded" => [Upgraded!Next]_(Upgraded!vars)
      /\ [Next]_vars /\ world \notin {"family", "upgraded"} => [Solo!Next]_(Solo!vars)
  BY DEF Next, vars, delegation, Family!vars, Upgraded!vars, Solo!vars
<1>3. Init => /\ world = "family" => Family!Init
              /\ world = "upgraded" => Upgraded!Init
              /\ world \notin {"family", "upgraded"} => Solo!Init
  BY DEF Init, OfAccounts
<1>4. Spec /\ world = "family" => [](world = "family")
  <2>1. world = "family" /\ [Next]_vars => (world = "family")'
    BY <1>1
  <2>. QED BY <2>1, PTL DEF Spec
<1>5. Spec /\ world = "upgraded" => [](world = "upgraded")
  <2>1. world = "upgraded" /\ [Next]_vars => (world = "upgraded")'
    BY <1>1
  <2>. QED BY <2>1, PTL DEF Spec
<1>6. Spec /\ world \notin {"family", "upgraded"} => [](world \notin {"family", "upgraded"})
  <2>1. world \notin {"family", "upgraded"} /\ [Next]_vars => (world \notin {"family", "upgraded"})'
    BY <1>1
  <2>. QED BY <2>1, PTL DEF Spec
<1>. QED BY <1>2, <1>3, <1>4, <1>5, <1>6, PTL DEF Spec, Family!Spec, Upgraded!Spec, Solo!Spec

LEMMA ThreeInstallations ==
  world = "family" \/ world = "upgraded" \/ world \notin {"family", "upgraded"}
OBVIOUS

\* In no installation anything is in execution in or directly under a closed
\* task (Delegation_proofs).
THEOREM ClosedTreesAreQuiet == Spec => []ClosedTreeIsQuiet
<1>1. /\ Solo!Spec => []Solo!ClosedTreeIsQuiet
      /\ Upgraded!Spec => []Upgraded!ClosedTreeIsQuiet
      /\ Family!Spec => []Family!ClosedTreeIsQuiet
  BY InstancesAreCovered, Solo!ClosingIsQuiet, Upgraded!ClosingIsQuiet, Family!ClosingIsQuiet
<1>2. /\ world = "family" /\ Family!ClosedTreeIsQuiet => ClosedTreeIsQuiet
      /\ world = "upgraded" /\ Upgraded!ClosedTreeIsQuiet => ClosedTreeIsQuiet
      /\ world \notin {"family", "upgraded"} /\ Solo!ClosedTreeIsQuiet => ClosedTreeIsQuiet
  BY DEF ClosedTreeIsQuiet, World
<1>. QED BY <1>1, <1>2, OneInstallation, ThreeInstallations, PTL

\* DONE rests on the newest run and its recorded result (Delegation_proofs).
THEOREM DoneTasksRestOnResults == Spec => []DoneRestsOnAResult
<1>1. /\ Solo!Spec => []Solo!DoneRestsOnAResult
      /\ Upgraded!Spec => []Upgraded!DoneRestsOnAResult
      /\ Family!Spec => []Family!DoneRestsOnAResult
  BY InstancesAreCovered, Solo!AcceptanceRestsOnAResult, Upgraded!AcceptanceRestsOnAResult,
     Family!AcceptanceRestsOnAResult
<1>2. /\ world = "family" /\ Family!DoneRestsOnAResult => DoneRestsOnAResult
      /\ world = "upgraded" /\ Upgraded!DoneRestsOnAResult => DoneRestsOnAResult
      /\ world \notin {"family", "upgraded"} /\ Solo!DoneRestsOnAResult => DoneRestsOnAResult
  BY DEF DoneRestsOnAResult, World
<1>. QED BY <1>1, <1>2, OneInstallation, ThreeInstallations, PTL

\* The run a task waits for is with the outbox or the scheduler (Delegation_proofs).
THEOREM WaitingRunsAreCared == Spec => []WaitingRunIsCared
<1>1. /\ Solo!Spec => []Solo!WaitingRunIsCared
      /\ Upgraded!Spec => []Upgraded!WaitingRunIsCared
      /\ Family!Spec => []Family!WaitingRunIsCared
  BY InstancesAreCovered, Solo!NoWaitingRunIsLost, Upgraded!NoWaitingRunIsLost, Family!NoWaitingRunIsLost
<1>2. /\ world = "family" /\ Family!WaitingRunIsCared => WaitingRunIsCared
      /\ world = "upgraded" /\ Upgraded!WaitingRunIsCared => WaitingRunIsCared
      /\ world \notin {"family", "upgraded"} /\ Solo!WaitingRunIsCared => WaitingRunIsCared
  BY DEF WaitingRunIsCared, World
<1>. QED BY <1>1, <1>2, OneInstallation, ThreeInstallations, PTL

\* Ended attempts and recorded results never change (Delegation_proofs).
THEOREM EndedAttemptsStand == Spec => AttemptsStandStill
<1>1. /\ Solo!Spec => Solo!AttemptsStandStill
      /\ Upgraded!Spec => Upgraded!AttemptsStandStill
      /\ Family!Spec => Family!AttemptsStandStill
  BY InstancesAreCovered, Solo!HistoryStands, Upgraded!HistoryStands, Family!HistoryStands
<1>. DEFINE Kept == World(Solo!AttemptsKept, Upgraded!AttemptsKept, Family!AttemptsKept)
<1>2. /\ world = "family" /\ [Family!AttemptsKept]_(Family!vars) => [Kept]_vars
      /\ world = "upgraded" /\ [Upgraded!AttemptsKept]_(Upgraded!vars) => [Kept]_vars
      /\ world \notin {"family", "upgraded"} /\ [Solo!AttemptsKept]_(Solo!vars) => [Kept]_vars
  BY DEF World, Family!vars, Upgraded!vars, Solo!vars,
         Family!AttemptsKept, Upgraded!AttemptsKept, Solo!AttemptsKept
<1>. HIDE DEF Kept
<1>3. Spec => [][Kept]_vars
  BY <1>1, <1>2, OneInstallation, ThreeInstallations, PTL
     DEF Solo!AttemptsStandStill, Upgraded!AttemptsStandStill, Family!AttemptsStandStill
<1>. QED BY <1>3 DEF Kept, AttemptsStandStill

\* Running and finished runs are backed by the machine's files (DeviceTasks_proofs).
THEOREM MachineBacksTheLedger == Spec => []LedgerIsBackedByTheMachine
<1>1. Devices!Spec => []Devices!LedgerIsBackedByTheMachine
  BY InstancesAreCovered, Devices!LedgerIsBacked
<1>2. Init => Devices!Init
  BY DEF Init
<1>3. [Next]_vars => [Devices!Next]_(Devices!vars)
  BY DEF Next, vars, devices, Devices!vars
<1>. QED BY <1>1, <1>2, <1>3, PTL DEF Spec, Devices!Spec, LedgerIsBackedByTheMachine

-----------------------------------------------------------------------------
(* Accounts, in the four worlds that are about them; in the others they    *)
(* stay as the installation created them.                                  *)

\* The world decides which accounts there are and what may be asked of them.
LEMMA OneDirectory ==
  /\ Spec /\ world = "departments" => Departments!Spec /\ [](world = "departments")
  /\ Spec /\ world = "passwords" => Passwords!SignInSpec /\ [](world = "passwords")
  /\ Spec /\ world = "passkeys" => Passkeys!SignInSpec /\ [](world = "passkeys")
  /\ Spec /\ world \notin {"departments", "passwords", "passkeys"}
       => Administration!Spec /\ [](world \notin {"departments", "passwords", "passkeys"})
<1>1. [Next]_vars => UNCHANGED world
  BY DEF Next, vars
<1>2. /\ [Next]_vars /\ world = "departments" => [Departments!Next]_(Departments!orgVars)
      /\ [Next]_vars /\ world \notin {"departments", "passwords", "passkeys"}
           => [Administration!Next]_(Administration!orgVars)
  BY DEF Next, vars, accounts, organization, Departments!orgVars, Administration!orgVars
<1>3. /\ [Next]_vars /\ world = "passwords" => [Passwords!SignInNext]_(Passwords!vars)
      /\ [Next]_vars /\ world = "passkeys" => [Passkeys!SignInNext]_(Passkeys!vars)
  BY DEF Next, vars, accounts, organization, signIn, Passwords!vars, Passwords!orgVars, Passwords!accountVars,
         Passkeys!vars, Passkeys!orgVars, Passkeys!accountVars
<1>4. Init => /\ world = "departments" => Departments!Init
              /\ world = "passwords" => Passwords!Init /\ Passwords!AccountInit
              /\ world = "passkeys" => Passkeys!Init /\ Passkeys!AccountInit
              /\ world \notin {"departments", "passwords", "passkeys"} => Administration!Init
  BY DEF Init, OfAccounts
<1>5. Spec /\ world = "departments" => [](world = "departments")
  <2>1. world = "departments" /\ [Next]_vars => (world = "departments")'
    BY <1>1
  <2>. QED BY <2>1, PTL DEF Spec
<1>6. Spec /\ world = "passwords" => [](world = "passwords")
  <2>1. world = "passwords" /\ [Next]_vars => (world = "passwords")'
    BY <1>1
  <2>. QED BY <2>1, PTL DEF Spec
<1>7. Spec /\ world = "passkeys" => [](world = "passkeys")
  <2>1. world = "passkeys" /\ [Next]_vars => (world = "passkeys")'
    BY <1>1
  <2>. QED BY <2>1, PTL DEF Spec
<1>8. Spec /\ world \notin {"departments", "passwords", "passkeys"}
        => [](world \notin {"departments", "passwords", "passkeys"})
  <2>1. world \notin {"departments", "passwords", "passkeys"} /\ [Next]_vars
          => (world \notin {"departments", "passwords", "passkeys"})'
    BY <1>1
  <2>. QED BY <2>1, PTL DEF Spec
<1>. QED BY <1>2, <1>3, <1>4, <1>5, <1>6, <1>7, <1>8, PTL
         DEF Spec, Departments!Spec, Administration!Spec, Passwords!SignInSpec, Passkeys!SignInSpec

\* The worlds differ in their users' requests, not in who administrates.
LEMMA SameAdministrators ==
  /\ Departments!AdministratorRemains => Administration!AdministratorRemains
  /\ Passwords!AdministratorRemains => Administration!AdministratorRemains
  /\ Passkeys!AdministratorRemains => Administration!AdministratorRemains
BY DEF Departments!AdministratorRemains, Administration!AdministratorRemains,
       Passwords!AdministratorRemains, Passkeys!AdministratorRemains,
       Departments!Administrators, Administration!Administrators,
       Passwords!Administrators, Passkeys!Administrators,
       Departments!Active, Administration!Active, Passwords!Active, Passkeys!Active

\* What is proved of each directory (SignIn_proofs).
LEMMA DirectoriesStaySound ==
  /\ Departments!Spec => [](Departments!AdministratorRemains /\ Departments!OrganizationIsConsistent)
  /\ Administration!Spec => [](Administration!AdministratorRemains /\ Administration!OrganizationIsConsistent)
  /\ Passwords!SignInSpec => [](Passwords!SessionRestsOnItsGrounds /\ Passwords!TicketsServeOnce
                                 /\ Passwords!AdministratorRemains)
  /\ Passkeys!SignInSpec => [](Passkeys!SessionRestsOnItsGrounds /\ Passkeys!TicketsServeOnce
                                /\ Passkeys!AdministratorRemains)
BY InstancesAreCovered, Departments!OrganizationStaysSound, Administration!OrganizationStaysSound,
   Passwords!SignInStaysSound, Passkeys!SignInStaysSound

\* An administrator that can sign in remains, and the tree of departments and the
\* places of users in it agree (SignIn_proofs).
THEOREM OrganizationStands == Spec => []OrganizationIsSound
<1>1. /\ world = "departments" /\ Departments!AdministratorRemains /\ Departments!OrganizationIsConsistent
           => OrganizationIsSound
      /\ world = "passwords" /\ Passwords!AdministratorRemains => OrganizationIsSound
      /\ world = "passkeys" /\ Passkeys!AdministratorRemains => OrganizationIsSound
      /\ world \notin {"departments", "passwords", "passkeys"} /\ Administration!AdministratorRemains
           => OrganizationIsSound
  BY SameAdministrators DEF OrganizationIsSound
<1>2. \/ world = "departments" \/ world = "passwords" \/ world = "passkeys"
      \/ world \notin {"departments", "passwords", "passkeys"}
  OBVIOUS
<1>. QED BY <1>1, <1>2, OneDirectory, DirectoriesStaySound, PTL

\* Sessions rest on their grounds, and each ticket serves one request (SignIn_proofs).
THEOREM SessionsStand == Spec => []SignInHolds
<1>1. /\ world = "passwords" /\ Passwords!SessionRestsOnItsGrounds /\ Passwords!TicketsServeOnce => SignInHolds
      /\ world = "passkeys" /\ Passkeys!SessionRestsOnItsGrounds /\ Passkeys!TicketsServeOnce => SignInHolds
      /\ world = "departments" => SignInHolds
      /\ world \notin {"departments", "passwords", "passkeys"} => SignInHolds
  BY DEF SignInHolds
<1>2. \/ world = "departments" \/ world = "passwords" \/ world = "passkeys"
      \/ world \notin {"departments", "passwords", "passkeys"}
  OBVIOUS
<1>. QED BY <1>1, <1>2, OneDirectory, DirectoriesStaySound, PTL

-----------------------------------------------------------------------------
(* The identity of a machine.  Its epoch is that of the enrollment whose   *)
(* certificate it holds: never later than the node's.                      *)

IdentityInv ==
  /\ Identity!TypeOK
  /\ machine.epoch <= node.epoch
  /\ Identity!MachineKeepsAWayIn /\ Identity!AppliedIsOfThisConnection

\* The numbers of a row, and of the machine.
LEMMA RowTypes ==
  ASSUME Identity!TypeOK
  PROVE  /\ node \in Identity!NodeRow /\ node.status \in Identity!NodeStatus
         /\ node.revision \in Nat /\ node.applied \in Nat /\ node.epoch \in Nat /\ node.serial \in Nat
         /\ node.prev \in Nat /\ node.conn \in Nat /\ node.by \in Nat
         /\ node.valid \in BOOLEAN /\ node.replay \in BOOLEAN /\ node.late \in BOOLEAN
         /\ machine.serial \in Nat /\ machine.epoch \in Nat /\ machine.conn \in Nat /\ machine.revision \in Nat
BY DEF Identity!TypeOK, Identity!NodeRow

\* The row of a node whose connection is over.
LEMMA UnconnectedRow ==
  ASSUME Identity!TypeOK, NEW u, u = Identity!Unconnected(node)
  PROVE  /\ u \in Identity!NodeRow /\ u.applied = 0 /\ u.revision = node.revision /\ u.epoch = node.epoch
         /\ u.serial = node.serial /\ u.status = node.status /\ u.prev = node.prev /\ u.valid = node.valid
         /\ u.replay = node.replay /\ u.late = node.late
BY RowTypes DEF Identity!Unconnected, Identity!NodeRow

\* A new row that is good for the machine's certificate, and whose applied
\* revision is the present connection's, if it has one.
LEMMA GoodRow ==
  ASSUME IdentityInv, node' \in Identity!NodeRow, signed' \in Nat, opened' \in Nat,
         machine' \in [serial : Nat, epoch : Nat, conn : Nat, revision : Nat], machine'.epoch <= node'.epoch,
         Identity!MachineKeepsAWayIn',
         node'.applied # 0 => node'.applied = node'.revision /\ node'.conn # 0 /\ node'.by = node'.conn
  PROVE  IdentityInv'
BY DEF IdentityInv, Identity!TypeOK, Identity!AppliedIsOfThisConnection

\* What the administrator, time and the end of a connection do to the rows.
LEMMA RowsAlone ==
  ASSUME IdentityInv, UNCHANGED <<machine, signed, opened>>,
         \/ Identity!SetDevicePolicy \/ Identity!IssueDeviceEnrollment
         \/ Identity!ReplayEnds \/ Identity!CertificateEnds \/ Identity!LeaseEnds \/ Identity!DisconnectDevice
         \/ \E state \in Identity!NodeStatus : Identity!SetDesktopNodeState(state)
         \/ \E ok \in BOOLEAN : Identity!DeviceHeartbeat(ok)
  PROVE  IdentityInv'
<1>. USE DEF IdentityInv, Identity!MachineKeepsAWayIn, Identity!AppliedIsOfThisConnection,
             Identity!Authenticated, Identity!RenewalReplay
<1>0. /\ machine' \in [serial : Nat, epoch : Nat, conn : Nat, revision : Nat]
      /\ signed' \in Nat /\ opened' \in Nat
  BY DEF Identity!TypeOK
<1>1. CASE Identity!SetDevicePolicy
  <2>1. PICK u : u = Identity!Unconnected(node)
    OBVIOUS
  <2>2. node' = [u EXCEPT !.revision = u.revision + 1, !.code = FALSE, !.eligible = FALSE]
    BY <1>1, <2>1 DEF Identity!SetDevicePolicy
  <2>3. /\ node' \in Identity!NodeRow /\ node'.applied = 0 /\ node'.epoch = u.epoch /\ node'.serial = u.serial
        /\ node'.status = u.status /\ node'.prev = u.prev /\ node'.valid = u.valid
        /\ node'.replay = u.replay /\ node'.late = u.late
    <3>. HIDE DEF IdentityInv, Identity!MachineKeepsAWayIn, Identity!AppliedIsOfThisConnection,
                  Identity!Authenticated, Identity!RenewalReplay
    <3>1. Identity!TypeOK
      BY DEF IdentityInv
    <3>2. u \in Identity!NodeRow /\ u.applied = 0
      BY <2>1, <3>1, UnconnectedRow
    <3>3. u.revision + 1 \in Nat
      BY <3>2 DEF Identity!NodeRow
    <3>. QED BY <2>2, <3>2, <3>3 DEF Identity!NodeRow
  <2>. QED BY <1>0, <2>1, <2>3, RowTypes, UnconnectedRow, GoodRow
<1>2. CASE Identity!IssueDeviceEnrollment
  <2>1. node' \in Identity!NodeRow
    BY <1>2, RowTypes DEF Identity!IssueDeviceEnrollment, Identity!Unconnected, Identity!NodeRow, Identity!NodeStatus
  <2>. QED BY <1>0, <1>2, <2>1, RowTypes, GoodRow
           DEF Identity!IssueDeviceEnrollment, Identity!Unconnected, Identity!NodeRow
<1>3. CASE Identity!ReplayEnds
  <2>1. node' \in Identity!NodeRow
    BY <1>3, RowTypes DEF Identity!ReplayEnds, Identity!Unconnected, Identity!NodeRow, Identity!NodeStatus
  <2>. QED BY <1>0, <1>3, <2>1, RowTypes, GoodRow DEF Identity!ReplayEnds, Identity!Unconnected, Identity!NodeRow
<1>4. CASE Identity!CertificateEnds
  <2>1. node' \in Identity!NodeRow
    BY <1>4, RowTypes DEF Identity!CertificateEnds, Identity!Unconnected, Identity!NodeRow, Identity!NodeStatus
  <2>. QED BY <1>0, <1>4, <2>1, RowTypes, GoodRow DEF Identity!CertificateEnds, Identity!Unconnected, Identity!NodeRow
<1>5. CASE Identity!LeaseEnds
  <2>1. node' \in Identity!NodeRow
    BY <1>5, RowTypes DEF Identity!LeaseEnds, Identity!Unconnected, Identity!NodeRow, Identity!NodeStatus
  <2>. QED BY <1>0, <1>5, <2>1, RowTypes, GoodRow DEF Identity!LeaseEnds, Identity!Unconnected, Identity!NodeRow
<1>6. CASE Identity!DisconnectDevice
  <2>1. node' \in Identity!NodeRow
    BY <1>6, RowTypes DEF Identity!DisconnectDevice, Identity!Unconnected, Identity!NodeRow, Identity!NodeStatus
  <2>. QED BY <1>0, <1>6, <2>1, RowTypes, GoodRow DEF Identity!DisconnectDevice, Identity!Unconnected, Identity!NodeRow
<1>7. ASSUME NEW state \in Identity!NodeStatus, Identity!SetDesktopNodeState(state)
      PROVE  IdentityInv'
  <2>1. node' \in Identity!NodeRow
    BY <1>7, RowTypes DEF Identity!SetDesktopNodeState, Identity!Unconnected, Identity!NodeRow, Identity!NodeStatus
  <2>. QED BY <1>0, <1>7, <2>1, RowTypes, GoodRow
           DEF Identity!SetDesktopNodeState, Identity!Unconnected, Identity!NodeRow
<1>8. ASSUME NEW ok \in BOOLEAN, Identity!DeviceHeartbeat(ok)
      PROVE  IdentityInv'
  <2>. DEFINE converged == ok /\ machine.revision = node.revision
  <2>1. /\ node' = [node EXCEPT !.lease = TRUE, !.applied = IF converged THEN node.revision ELSE 0,
                      !.by = node.conn, !.eligible = converged /\ node.status # "DRAINING",
                      !.status = IF node.status = "DRAINING" THEN node.status
                                 ELSE IF converged THEN "ONLINE" ELSE "PENDING_ACTIVATION"]
        /\ machine.conn # 0 /\ node.conn = machine.conn /\ node.status # "REVOKED"
    BY <1>8 DEF Identity!DeviceHeartbeat, Identity!Current
  <2>2. converged \in BOOLEAN
    BY <1>8
  <2>. HIDE DEF converged
  <2>3. node' \in Identity!NodeRow
    BY <2>1, <2>2, RowTypes DEF Identity!NodeRow, Identity!NodeStatus
  <2>. QED BY <1>0, <2>1, <2>3, RowTypes, GoodRow DEF Identity!NodeRow
<1>. QED BY <1>1, <1>2, <1>3, <1>4, <1>5, <1>6, <1>7, <1>8

\* What changes the machine: a certificate, or the channel.
LEMMA RowsAndMachine ==
  ASSUME IdentityInv,
         \/ Identity!ConnectDevice \/ Identity!Desire \/ Identity!HangUp \/ Identity!Break
         \/ \E lost \in BOOLEAN : Identity!Enroll(lost) \/ Identity!Renew(lost)
  PROVE  IdentityInv'
<1>. USE DEF IdentityInv, Identity!MachineKeepsAWayIn, Identity!AppliedIsOfThisConnection,
             Identity!Authenticated, Identity!RenewalReplay
<1>0. signed \in Nat /\ opened \in Nat
  BY DEF Identity!TypeOK
<1>m. machine \in [serial : Nat, epoch : Nat, conn : Nat, revision : Nat]
  BY DEF Identity!TypeOK
<1>1. CASE Identity!ConnectDevice
  <2>1. /\ node' = [node EXCEPT !.conn = opened + 1, !.lease = TRUE, !.applied = 0, !.eligible = FALSE]
        /\ machine' = [machine EXCEPT !.conn = opened + 1, !.revision = 0]
        /\ opened' = opened + 1 /\ signed' = signed /\ opened + 1 \in Nat
    BY <1>0, <1>1 DEF Identity!ConnectDevice
  <2>2. /\ node' \in Identity!NodeRow /\ node'.applied = 0 /\ node'.epoch = node.epoch
        /\ node'.serial = node.serial /\ node'.status = node.status /\ node'.prev = node.prev
        /\ node'.valid = node.valid /\ node'.replay = node.replay /\ node'.late = node.late
    BY <2>1, RowTypes DEF Identity!NodeRow
  <2>3. /\ machine' \in [serial : Nat, epoch : Nat, conn : Nat, revision : Nat]
        /\ machine'.serial = machine.serial /\ machine'.epoch = machine.epoch
    BY <1>m, <2>1, RowTypes
  <2>. QED BY <1>0, <2>1, <2>2, <2>3, RowTypes, GoodRow
<1>2. CASE Identity!Desire
  BY <1>2, RowTypes DEF Identity!Desire, Identity!TypeOK
<1>3. CASE Identity!HangUp \/ Identity!Break
  BY <1>3, RowTypes DEF Identity!HangUp, Identity!Break, Identity!TypeOK
<1>4. ASSUME NEW lost \in BOOLEAN, Identity!Enroll(lost)
      PROVE  IdentityInv'
  <2>1. /\ signed' = signed + 1 /\ opened' = opened /\ signed + 1 \in Nat
        /\ machine' = IF lost THEN machine
                      ELSE [machine EXCEPT !.serial = node'.serial, !.epoch = node'.epoch]
        /\ node' = [Identity!Unconnected(node) EXCEPT !.code = FALSE, !.serial = signed + 1, !.valid = TRUE,
                      !.prev = 0, !.replay = FALSE, !.late = FALSE, !.epoch = @ + 1]
    BY <1>0, <1>4 DEF Identity!Enroll, Identity!EnrollDevice
  <2>u. PICK u : u = Identity!Unconnected(node)
    OBVIOUS
  <2>2. /\ node' \in Identity!NodeRow /\ node'.serial = signed + 1 /\ node'.epoch = node.epoch + 1
        /\ node'.valid /\ node'.applied = 0 /\ node'.serial \in Nat /\ node'.epoch \in Nat
    <3>1. node' = [u EXCEPT !.code = FALSE, !.serial = signed + 1, !.valid = TRUE, !.prev = 0, !.replay = FALSE,
                     !.late = FALSE, !.epoch = node.epoch + 1]
      BY <2>1, <2>u, UnconnectedRow
    <3>2. node.epoch + 1 \in Nat
      BY RowTypes
    <3>. HIDE DEF IdentityInv, Identity!MachineKeepsAWayIn, Identity!AppliedIsOfThisConnection,
                  Identity!Authenticated, Identity!RenewalReplay
    <3>3. Identity!TypeOK
      BY DEF IdentityInv
    <3>4. u \in Identity!NodeRow /\ u.applied = 0
      BY <2>u, <3>3, UnconnectedRow
    <3>. QED BY <2>1, <3>1, <3>2, <3>4 DEF Identity!NodeRow
  <2>3. /\ machine' \in [serial : Nat, epoch : Nat, conn : Nat, revision : Nat]
        /\ \/ machine'.epoch = machine.epoch
           \/ machine'.epoch = node'.epoch /\ machine'.serial = node'.serial
    <3>1. CASE lost
      BY <1>m, <2>1, <3>1
    <3>2. CASE ~lost
      <4>. DEFINE a == node'.serial
                  b == node'.epoch
      <4>1. a \in Nat /\ b \in Nat
        BY <2>2
      <4>2. machine' = [machine EXCEPT !.serial = a, !.epoch = b]
        BY <2>1, <3>2
      <4>. HIDE DEF a, b
      <4>3. /\ machine' \in [serial : Nat, epoch : Nat, conn : Nat, revision : Nat]
            /\ machine'.epoch = b /\ machine'.serial = a
        BY <1>m, <4>1, <4>2
      <4>. QED BY <4>3 DEF a, b
    <3>. QED BY <3>1, <3>2
  <2>. QED BY <1>0, <2>1, <2>2, <2>3, RowTypes, GoodRow
<1>5. ASSUME NEW lost \in BOOLEAN, Identity!Renew(lost)
      PROVE  IdentityInv'
  <2>1. /\ signed' = signed + 1 /\ opened' = opened /\ signed + 1 \in Nat
        /\ machine' = IF lost THEN machine ELSE [machine EXCEPT !.serial = node'.serial]
    BY <1>0, <1>5 DEF Identity!Renew, Identity!RotateDeviceCertificate
  <2>2. CASE Identity!RenewalReplay(machine.serial) /\ node' = node
    <3>1. machine' \in [serial : Nat, epoch : Nat, conn : Nat, revision : Nat]
      BY <1>m, <2>1, <2>2, RowTypes
    <3>2. machine'.serial \in {machine.serial, node.serial} /\ machine'.epoch = machine.epoch
      BY <1>m, <2>1, <2>2, RowTypes
    <3>. QED BY <1>0, <2>1, <2>2, <3>1, <3>2, RowTypes, GoodRow
  <2>3. CASE /\ Identity!Authenticated(machine.serial)
             /\ node' = [Identity!Unconnected(node) EXCEPT !.prev = node.serial, !.replay = TRUE, !.late = FALSE,
                           !.serial = signed + 1, !.valid = TRUE]
    <3>1. /\ node' \in Identity!NodeRow /\ node'.serial = signed + 1 /\ node'.prev = node.serial
          /\ node'.valid /\ node'.replay /\ node'.epoch = node.epoch /\ node'.applied = 0
      BY <2>1, <2>3, RowTypes DEF Identity!Unconnected, Identity!NodeRow
    <3>2. machine' \in [serial : Nat, epoch : Nat, conn : Nat, revision : Nat]
      BY <1>m, <2>1, <3>1
    <3>3. machine'.serial \in {machine.serial, node'.serial} /\ machine'.epoch = machine.epoch
      BY <1>m, <2>1
    <3>4. node.serial = machine.serial /\ machine.serial # 0
      BY <2>3
    <3>. QED BY <1>0, <2>1, <3>1, <3>2, <3>3, <3>4, RowTypes, GoodRow
  <2>. QED BY <1>5, <2>2, <2>3 DEF Identity!Renew, Identity!RotateDeviceCertificate
<1>. QED BY <1>1, <1>2, <1>3, <1>4, <1>5

\* A machine that renews without hearing the answer can renew again, and what
\* makes a node deliverable was reported over its present connection, whatever
\* was approved, renewed, lost or reconnected in between.
THEOREM ConnectionsStaySound == Spec => []ConnectionsAreSound
<1>1. Init => IdentityInv
  BY DEF Init, Identity!Init, IdentityInv, Identity!TypeOK, Identity!NodeRow, Identity!NodeStatus,
         Identity!MachineKeepsAWayIn, Identity!AppliedIsOfThisConnection
<1>2. IdentityInv /\ [Next]_vars => IdentityInv'
  <2>1. ASSUME IdentityInv, Identity!Next
        PROVE  IdentityInv'
    <3>. USE DEF Identity!SetDevicePolicy, Identity!IssueDeviceEnrollment, Identity!ReplayEnds,
                 Identity!CertificateEnds, Identity!LeaseEnds, Identity!DisconnectDevice
    <3>1. CASE \/ Identity!SetDevicePolicy \/ Identity!IssueDeviceEnrollment
               \/ Identity!ReplayEnds \/ Identity!CertificateEnds \/ Identity!LeaseEnds
               \/ Identity!DisconnectDevice
      BY <2>1, <3>1, RowsAlone
    <3>2. ASSUME NEW state \in Identity!NodeStatus, Identity!SetDesktopNodeState(state)
          PROVE  IdentityInv'
      BY <2>1, <3>2, RowsAlone DEF Identity!SetDesktopNodeState
    <3>3. ASSUME NEW ok \in BOOLEAN, Identity!DeviceHeartbeat(ok)
          PROVE  IdentityInv'
      BY <2>1, <3>3, RowsAlone DEF Identity!DeviceHeartbeat
    <3>. QED BY <2>1, <3>1, <3>2, <3>3, RowsAndMachine DEF Identity!Next
  <2>2. ASSUME IdentityInv, UNCHANGED channel
        PROVE  IdentityInv'
    BY <2>2 DEF channel, IdentityInv, Identity!TypeOK, Identity!MachineKeepsAWayIn,
         Identity!AppliedIsOfThisConnection, Identity!Authenticated, Identity!RenewalReplay
  <2>. QED BY <2>1, <2>2 DEF Next, vars
<1>3. IdentityInv => ConnectionsAreSound
  BY DEF IdentityInv, ConnectionsAreSound
<1>. QED BY <1>1, <1>2, <1>3, PTL DEF Spec
===============================================================================
