\* Two instances whose views of the ring differ for a while, one document, two editors.
SPECIFICATION DocSpec
CONSTANTS
  Instance = {1, 2}
  Client = {"a", "b"}
  MaxUpdate = 3
  MaxCrash = 0
  MaxEditors = 2
  RepliesLost = FALSE
CHECK_DEADLOCK FALSE
INVARIANT AckedSurvives
