SPECIFICATION MCSpec
CONSTANTS
  b1 = b1
  b2 = b2
  Stopped = Stopped
  Bases <- TwoBases
  Faults <- AllFaults
  Events <- AllEvents
  MaxEvents = 3
INVARIANTS InstalledMatches CoreRunsSaved
PROPERTIES PausesFollowUsage
