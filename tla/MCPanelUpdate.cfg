\* A worker killed after it installed a release that does not serve leaves
\* nobody to act but an administrator, whose actions are bounded.
SPECIFICATION MCSpec
CONSTANTS
  Versions = {1, 2, 3}
  Broken = {3}
  Faults = {"write", "probe", "launch", "step", "restore", "health"}
  MaxEvents = 3
  MaxJobs = 2
INVARIANTS SpinnerIsWatched
PROPERTIES StatusIsTrue WatchingEnds
CHECK_DEADLOCK FALSE
