\* Two replicas, one automation, one edit: a reading of before the edit is acted on after it.
CONSTANTS
  Automation = {1}
  Producer = {p1, p2}
  Expression = {{1, 3}, {2}}
  Existing = {1, 3}
  MaxTime = 2
  MaxEdit = 1
  None = None
SPECIFICATION CronSpec
INVARIANT FiresOnce
CHECK_DEADLOCK FALSE
