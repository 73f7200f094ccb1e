\* What must come to an end, each in a world of its own.
SPECIFICATION FairSpec
CONSTANTS
  Nil = Nil
  NoRow = NoRow
  NoPulse = NoPulse
  i1 = i1
  i2 = i2
  p1 = p1
  p2 = p2
  w1 = w1
  w2 = w2
  z = z
CHECK_DEADLOCK FALSE
PROPERTY EverythingEnds
