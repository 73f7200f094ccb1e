\* A node with a free slot and a waiting task find each other, under the global or the cluster lease,
\* though a round reads one task only and another one, that no node may run, waits behind it.
CONSTANTS
  Instance = {i1, i2}
  Cluster = {c1, c2}
  ClusterOf <- AllInstances
  Node = {n1}
  NodeCluster <- AllNodes
  Capacity <- OneSlot
  Task = {t1, t2}
  Binding <- OneElsewhere
  Priority <- EqualPriority
  Deadline <- RunnableFirst
  Waiting = {t1, t2}
  Batch = 1
  Governed = {}
  Cancellable = {}
  Finals = {"COMPLETED"}
  Request = {r1}
  MaxCalls = 2
  MaxFaults = 1
  Global = Global
  NoCluster = NoCluster
  NoInstance = NoInstance
  NoNode = NoNode
  NoTask = NoTask
SPECIFICATION FairSpec
PROPERTIES PlacedUnderCurrentLease WaitingWorkIsPlaced
