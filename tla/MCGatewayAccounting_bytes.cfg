SPECIFICATION Spec
CONSTANTS
  Gateways = {g}
  Peers = {p, q}
  Dirs = {"tx"}
  Tampers = {"zero", "reboot"}
  Faults = {"command", "save"}
  MaxLives = 3
  MaxBytes = 3
  MaxEvents = 3
INVARIANTS NoByteCountedTwice ReadingsCredited
