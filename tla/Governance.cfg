CONSTANTS
  None = None
  c1 = c1
  c2 = c2
  r1 = r1
  u1 = u1
  u2 = u2
  MaxRevision = 2
  MaxSerial = 3
  MaxConnection = 2
SPECIFICATION Spec
CHECK_DEADLOCK FALSE
INVARIANT ClosedTreeIsQuiet
INVARIANT DoneRestsOnAResult
INVARIANT WaitingRunIsCared
INVARIANT ConnectionsAreSound
INVARIANT LedgerIsBackedByTheMachine
INVARIANT OrganizationIsSound
INVARIANT SignInHolds
PROPERTY AttemptsStandStill
