\* Three pulses with their own ids: every order of arrival, time-out, cancellation, overstay and return.
SPECIFICATION FairSpec
CONSTANTS
  Pulse = {p1, p2, p3}
  NoPulse = NoPulse
  CorrelationOf <- UniqueIds
  MaxHold = 2
  WaitLimit = 1
  LastArrival = 2
  MaxClock = 4
INVARIANT QueueIsSound
INVARIANT FirstComeFirstServed
PROPERTY LockSpec
PROPERTY EveryCallReturns
PROPERTY NoTurnForEver
