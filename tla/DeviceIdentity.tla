---------------------------- MODULE DeviceIdentity ----------------------------
(***************************************************************************)
(* The identity of a desktop machine and its management channel: policy    *)
(* revisions, the one-time enrollment code, the certificate and its        *)
(* renewal, the leased connection and the heartbeats that make the node    *)
(* eligible for work (governance internal/store devices.go and nodes.go,   *)
(* internal/device gateway.go, and the identity file of registry           *)
(* cmd/desktop-agent).  Every store call locks the node's row, so it is a  *)
(* step; a response may be lost after its step.                            *)
(***************************************************************************)
EXTENDS Naturals

CONSTANTS
  MaxRevision,    \* bound: policies approved
  MaxSerial,      \* bound: certificates signed
  MaxConnection   \* bound: connections opened

VARIABLES
  node,      \* the rows of the node and of its device connection
  machine,   \* the machine: its identity file and the channel it holds
  signed,    \* how many certificates the gateway signed
  opened     \* how many connections it opened

vars == <<node, machine, signed, opened>>

NodeStatus == {"PENDING_ACTIVATION", "ONLINE", "OFFLINE", "DRAINING", "REVOKED"}

\* A registered node without policy and a machine without a certificate.
\* "late" and "by" are history: the replay window of the last renewal closed,
\* and the connection that reported the applied revision.
Init ==
  /\ node = [status |-> "PENDING_ACTIVATION", eligible |-> FALSE, revision |-> 0, applied |-> 0,
             code |-> FALSE, epoch |-> 0, serial |-> 0, valid |-> FALSE, prev |-> 0,
             replay |-> FALSE, late |-> FALSE, conn |-> 0, lease |-> FALSE, by |-> 0]
  /\ machine = [serial |-> 0, epoch |-> 0, conn |-> 0, revision |-> 0]
  /\ signed = 0
  /\ opened = 0

\* deviceAuthenticated
Authenticated(serial) ==
  /\ node.status # "REVOKED"
  /\ serial # 0 /\ node.serial = serial /\ node.valid

\* deviceRenewalReplay
RenewalReplay(serial) ==
  /\ node.status # "REVOKED"
  /\ serial # 0 /\ node.prev = serial /\ node.replay /\ node.valid

\* Faulty variant: what was applied outlives the channel that reported it.
UnconnectedButApplied(n) == [n EXCEPT !.conn = 0, !.lease = FALSE]

\* The connection and what it reported are cleared together.
Unconnected(n) == [n EXCEPT !.conn = 0, !.lease = FALSE, !.applied = 0]

(***************************************************************************)
(* The administrator.                                                      *)
(***************************************************************************)
\* SetDevicePolicy: a new revision ends the channel and the pending code.
SetDevicePolicy ==
  /\ node.status # "REVOKED"
  /\ node.revision < MaxRevision
  /\ node' = [Unconnected(node) EXCEPT !.revision = @ + 1, !.code = FALSE, !.eligible = FALSE]
  /\ UNCHANGED <<machine, signed, opened>>

\* IssueDeviceEnrollment
IssueDeviceEnrollment ==
  /\ node.status = "PENDING_ACTIVATION" /\ node.revision > 0
  /\ node' = [node EXCEPT !.code = TRUE]
  /\ UNCHANGED <<machine, signed, opened>>

\* SetDesktopNodeState: only draining keeps the certificate.
SetDesktopNodeState(state) ==
  /\ state \in {"DRAINING", "REVOKED", "PENDING_ACTIVATION"}
  /\ node.status = "REVOKED" => state = "REVOKED"
  /\ LET n == [Unconnected(node) EXCEPT !.status = state, !.eligible = FALSE] IN
     node' = IF state = "DRAINING" THEN n
             ELSE [n EXCEPT !.code = FALSE, !.serial = 0, !.valid = FALSE, !.prev = 0,
                            !.replay = FALSE]
  /\ UNCHANGED <<machine, signed, opened>>

(***************************************************************************)
(* Enrollment and renewal.  The gateway signs before it asks the store.    *)
(***************************************************************************)
\* EnrollDevice: the code is spent on the certificate just signed.
EnrollDevice ==
  /\ node.status = "PENDING_ACTIVATION" /\ node.revision > 0 /\ node.code
  /\ signed < MaxSerial
  /\ signed' = signed + 1
  /\ node' = [Unconnected(node) EXCEPT !.code = FALSE, !.serial = signed + 1, !.valid = TRUE,
                !.prev = 0, !.replay = FALSE, !.late = FALSE, !.epoch = @ + 1]

\* enroll, of the gateway and of the agent: the machine keeps what reaches it.
Enroll(lost) ==
  /\ EnrollDevice
  /\ machine' = IF lost THEN machine
                ELSE [machine EXCEPT !.serial = node'.serial, !.epoch = node'.epoch]
  /\ UNCHANGED opened

\* Faulty variant: a renewal asked again with the old certificate rotates again.
RotateAnew(serial) ==
  /\ Authenticated(serial) \/ RenewalReplay(serial)
  /\ signed < MaxSerial
  /\ signed' = signed + 1
  /\ node' = [Unconnected(node) EXCEPT !.prev = node.serial, !.replay = TRUE, !.late = FALSE,
                !.serial = signed + 1, !.valid = TRUE]

\* RotateDeviceCertificate: asked again with the old certificate it answers the
\* stored one, otherwise it rotates and ends the channel.
RotateDeviceCertificate(serial) ==
  /\ signed < MaxSerial
  /\ signed' = signed + 1
  /\ \/ /\ RenewalReplay(serial)
        /\ UNCHANGED node
     \/ /\ ~RenewalReplay(serial) /\ Authenticated(serial)
        /\ node' = [Unconnected(node) EXCEPT !.prev = node.serial, !.replay = TRUE, !.late = FALSE,
                      !.serial = signed + 1, !.valid = TRUE]

\* renew, of the gateway, and renewIdentity: no channel is open meanwhile.
Renew(lost) ==
  /\ machine.conn = 0
  /\ RotateDeviceCertificate(machine.serial)
  /\ machine' = IF lost THEN machine ELSE [machine EXCEPT !.serial = node'.serial]
  /\ UNCHANGED opened

\* The five minutes of the replay window are over; the certificate expires.
ReplayEnds ==
  /\ node.replay
  /\ node' = [node EXCEPT !.replay = FALSE, !.late = TRUE]
  /\ UNCHANGED <<machine, signed, opened>>
CertificateEnds ==
  /\ node.valid
  /\ node' = [node EXCEPT !.valid = FALSE]
  /\ UNCHANGED <<machine, signed, opened>>

(***************************************************************************)
(* The channel.                                                            *)
(***************************************************************************)
\* ConnectDevice: a new connection takes the lease over from the old one.
ConnectDevice ==
  /\ machine.conn = 0
  /\ Authenticated(machine.serial)
  /\ opened < MaxConnection
  /\ opened' = opened + 1
  /\ node' = [node EXCEPT !.conn = opened + 1, !.lease = TRUE, !.applied = 0, !.eligible = FALSE]
  /\ machine' = [machine EXCEPT !.conn = opened + 1, !.revision = 0]
  /\ UNCHANGED signed

\* AuthenticateDevice and the lease, as the writer of connect asks for them.
Current(conn) == Authenticated(machine.serial) /\ node.conn = conn /\ node.lease

\* connect sends the desired policy once ...
Desire ==
  /\ machine.conn # 0 /\ machine.revision = 0
  /\ Current(machine.conn)
  /\ machine' = [machine EXCEPT !.revision = node.revision]
  /\ UNCHANGED <<node, signed, opened>>

\* ... and ends the channel when it is not the current one, or stale.
HangUp ==
  /\ machine.conn # 0
  /\ \/ ~Current(machine.conn)
     \/ machine.revision \notin {0, node.revision}
  /\ machine' = [machine EXCEPT !.conn = 0]
  /\ UNCHANGED <<node, signed, opened>>

\* The network ends it, or the machine does.
Break ==
  /\ machine.conn # 0
  /\ machine' = [machine EXCEPT !.conn = 0]
  /\ UNCHANGED <<node, signed, opened>>

\* DeviceHeartbeat: "converged" is a report of the approved artifacts, all of
\* them, at the current revision.
DeviceHeartbeat(ok) ==
  /\ machine.conn # 0 /\ Current(machine.conn)
  /\ LET converged == ok /\ machine.revision = node.revision IN
     node' = [node EXCEPT
       !.lease = TRUE,
       !.applied = IF converged THEN node.revision ELSE 0,
       !.by = node.conn,
       !.eligible = converged /\ node.status # "DRAINING",
       !.status = IF @ = "DRAINING" THEN @ ELSE IF converged THEN "ONLINE" ELSE "PENDING_ACTIVATION"]
  /\ UNCHANGED <<machine, signed, opened>>

\* DisconnectDevice, of a connection that is over: nothing if another took over.
DisconnectDevice ==
  /\ node.conn # 0 /\ node.conn # machine.conn
  /\ node' = [Unconnected(node) EXCEPT !.eligible = FALSE,
                                       !.status = IF @ = "ONLINE" THEN "OFFLINE" ELSE @]
  /\ UNCHANGED <<machine, signed, opened>>

\* Thirty seconds without a heartbeat.
LeaseEnds ==
  /\ node.lease
  /\ node' = [node EXCEPT !.lease = FALSE]
  /\ UNCHANGED <<machine, signed, opened>>

Next ==
  \/ SetDevicePolicy \/ IssueDeviceEnrollment \/ ConnectDevice \/ Desire \/ HangUp \/ Break
  \/ DisconnectDevice \/ LeaseEnds \/ ReplayEnds \/ CertificateEnds
  \/ \E state \in NodeStatus : SetDesktopNodeState(state)
  \/ \E lost \in BOOLEAN : Enroll(lost) \/ Renew(lost)
  \/ \E ok \in BOOLEAN : DeviceHeartbeat(ok)

Spec == Init /\ [][Next]_vars

(***************************************************************************)
(* Properties.                                                             *)
(***************************************************************************)
NodeRow ==
  [status : NodeStatus, eligible : BOOLEAN, revision : Nat, applied : Nat, code : BOOLEAN,
   epoch : Nat, serial : Nat, valid : BOOLEAN, prev : Nat, replay : BOOLEAN, late : BOOLEAN,
   conn : Nat, lease : BOOLEAN, by : Nat]

TypeOK ==
  /\ node \in NodeRow
  /\ machine \in [serial : Nat, epoch : Nat, conn : Nat, revision : Nat]
  /\ signed \in Nat /\ opened \in Nat

\* A renewal whose answers are lost does not lock the machine out: until the
\* replay window of the last rotation closes, the certificate in its identity
\* file is still good for renewing (RotateDeviceCertificate: "a lost renewal
\* response can be replayed").
MachineKeepsAWayIn ==
  (/\ machine.serial # 0 /\ machine.epoch = node.epoch /\ ~node.late
   /\ node.serial # 0 /\ node.valid /\ node.status # "REVOKED")
  => Authenticated(machine.serial) \/ RenewalReplay(machine.serial)

\* What makes a node deliverable was said over the channel that is current: the
\* applied revision is the approved one and the present connection reported it,
\* whatever policy change, renewal or reconnect came between (applied_revision
\* is what dispatchDeviceTask trusts).
AppliedIsOfThisConnection ==
  node.applied # 0 => /\ node.applied = node.revision
                      /\ node.conn # 0 /\ node.by = node.conn
===============================================================================
