\* One skill, its author and an administrator, and one restart of governance.
SPECIFICATION SkillReleaseSpec
CONSTANTS
  Skill = {"s1"}
  Version = {1, 2}
  Content = {"good", "bad"}
  Loadable = {"good"}
  Admin = {"a"}
  MaxRestart = 1
  None = None
CHECK_DEADLOCK FALSE
INVARIANT BundleIsApproved
