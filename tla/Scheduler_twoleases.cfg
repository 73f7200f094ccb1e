\* The global and the cluster lease lock different rows: the slot gate is not exclusive.
CONSTANTS
  Instance = {i1, i2}
  Cluster = {c1}
  ClusterOf <- AllInstances
  Node = {n1}
  NodeCluster <- AllNodes
  Capacity <- OneSlot
  Task = {t1, t2}
  Binding <- AllTasks
  Priority <- EqualPriority
  Deadline <- NoDeadline
  Waiting = {}
  Batch = 2
  Governed = {}
  Cancellable = {}
  Finals = {"COMPLETED"}
  Request = {r1, r2}
  MaxCalls = 2
  MaxFaults = 0
  Global = Global
  NoCluster = NoCluster
  NoInstance = NoInstance
  NoNode = NoNode
  NoTask = NoTask
SPECIFICATION Spec
SYMMETRY Alike
INVARIANTS NoOvercommit
