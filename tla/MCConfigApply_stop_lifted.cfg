SPECIFICATION OpenSpec
CONSTANTS
  b1 = b1
  b2 = b2
  Stopped = Stopped
  Bases <- OneBase
  Faults <- NoFaults
  Events <- QuotaEvents
  MaxEvents = 3
INVARIANTS AppliedIsWhatRuns
