\* A save, the failing reload after it, and a switch of the old row.
SPECIFICATION HeardSpec
CONSTANTS
  Keys = {1}
  MaxVer = 2
  MaxField = 2
INVARIANTS SaveSurvives
