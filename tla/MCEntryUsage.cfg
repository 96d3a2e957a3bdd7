SPECIFICATION MCSpec
CONSTANTS
  Ifaces = {eth0, eth1}
  Home = eth0
  Schedules <- MCSchedules
  Monthly <- MCMonthly
  Horizon = 9
  MaxBytes = 1
  Foreign = 1
  MaxEvents = 3
  FewEvents = 2
  LastTick = 18
  Creations = {1, 4}
  BucketZones = {0, 4}
  Keeps <- MCKeeps
  Outages = {3}
  FirstYear = 2027
  LastMonth = 27
  Zones <- MCZones
  ResetDays = {1, 5, 28, 31}
  ResetHours = {0, 2}
  Away = {0, 1500, 3500}
INVARIANTS NothingInvented ExactWhenComplete EstimateCountsOnce HistoryWithinRecorded
PROPERTIES MeasuredNeverFalls PeriodsAreExact
CHECK_DEADLOCK FALSE
