\* Every interleaving of the loop, the worker and one handler.
CONSTANTS
  Nobody = Nobody
  Poll = poll
  Workers = {worker}
  Handlers = {h1}
  MaxUsage = 1
  MaxEvents = 1
  Enforcers = {e}
  Others = {a, b}
SPECIFICATION MCSpec
INVARIANTS NeverUnnoticed LocksNeverBlock
PROPERTIES SavedStopKept
