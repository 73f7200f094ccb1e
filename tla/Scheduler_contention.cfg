\* Two instances race for leadership and one slot with two tasks, one of them governed and outranked by the
\* other, that are placed, queued, drained, cancelled and preempted.
CONSTANTS
  Instance = {i1, i2}
  Cluster = {}
  ClusterOf <- Unclustered
  Node = {n1}
  NodeCluster <- AnyNode
  Capacity <- OneSlot
  Task = {t1, t2}
  Binding <- Unbound
  Priority <- OneUrgent
  Deadline <- NoDeadline
  Waiting = {}
  Batch = 2
  Governed = {t2}
  Cancellable = {t1, t2}
  Finals = {"COMPLETED", "ABORTED"}
  Request = {r1, r2}
  MaxCalls = 3
  MaxFaults = 1
  Global = Global
  NoCluster = NoCluster
  NoInstance = NoInstance
  NoNode = NoNode
  NoTask = NoTask
SPECIFICATION Spec
SYMMETRY Alike
INVARIANTS TypeOK NoOvercommit LedgerFollows TokensFollowAttempts CancellingOnRecord
PROPERTIES SingleFlightSpec PlacedUnderCurrentLease AcknowledgedStays
