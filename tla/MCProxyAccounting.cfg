\* Two samplers, core restarts, panel restarts, and saves across midnight; two connections
\* of two core processes; two changes of a file by two processes, two damages, one power
\* failure.
CONSTANTS
  poll = poll
  handler = handler
  Nobody = Nobody
  Samplers = {poll, handler}
  MaxGeneration = 2
  MaxBytes = 2
  MaxDay = 2
  ReliableIdentity = TRUE
  Apps = {1, 2}
  MaxConnections = 2
  MaxAppBytes = 3
  MaxRows = 1
  panel = panel
  admin = admin
  Processes = {panel, admin}
  Commands = {admin}
  first = first
  second = second
  Changes = {first, second}
  MaxDamages = 2
  MaxLosses = 1
  Absent = Absent
  Broken = Broken
SPECIFICATION MCSpec
SYMMETRY Symmetry
INVARIANTS NoByteCountedTwice NothingSkipped HistoryExact SharesAddUp FilesAreSound
PROPERTIES PartialMarkSurvives LedgerSpec
\* A panel whose only file is damaged before its first save does not start.
CHECK_DEADLOCK FALSE
