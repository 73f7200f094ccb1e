SPECIFICATION Spec
CONSTANTS
  Session = {s1}
  Realm = {r1, r2}
  Instance = {i1, i2}
  Pulse = {p1, p2}
  Offered = {"pause", "resume", "stop", "abort", "approve", "replay"}
  MaxAttempts = 2
  MaxFaults = 2
  NoRow = NoRow
  NoPulse = NoPulse
SYMMETRY Symmetry
INVARIANT IInv
INVARIANT OneEffectPerRequest
INVARIANT AuditIsTrue
INVARIANT TurnsAreCared
