\* One service at a time: every behaviour of each within its bounds.
CONSTANTS
  Nil = Nil
  w1 = w1
  w2 = w2
  p = p
  q = q
  c1 = c1
  c2 = c2
  r1 = r1
  r2 = r2
  r3 = r3
  r4 = r4
SPECIFICATION Spec
CHECK_DEADLOCK FALSE
INVARIANT NodeLossHolds
INVARIANT FlowsHold
INVARIANT DocumentsHold
INVARIANT ConnectorsHold
INVARIANT RecordsHold
INVARIANT UsageHolds
INVARIANT ReleasesHold
PROPERTY WorkIsKept
PROPERTY RecordsAreKept
