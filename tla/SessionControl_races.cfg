SPECIFICATION Spec
CONSTANTS
  Session = {s1}
  Realm = {r1}
  Instance = {i1, i2}
  Pulse = {p1, p2, p3}
  Offered = {"pause", "resume"}
  MaxAttempts = 2
  MaxFaults = 0
  NoRow = NoRow
  NoPulse = NoPulse
SYMMETRY Symmetry
INVARIANT TypeOK
INVARIANT AuditReplaysRow
PROPERTY ControlLogSpec
