SPECIFICATION FairSpec
CONSTANTS
  Gateways = {g}
  Peers = {p, q}
  Dirs = {"tx", "rx"}
  Tampers = {"flush", "double", "bury"}
  Faults = {"command", "save", "undo"}
  MaxLives = 4
  MaxBytes = 0
  MaxEvents = 3
INVARIANTS HealthyIsCounted NothingForgotten
PROPERTIES CleanedUp
