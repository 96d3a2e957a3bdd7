SPECIFICATION MCSpec
CONSTANTS
  Formats = {auto, clash}
  AutoFormat = auto
  auto = auto
  clash = clash
  MaxVer = 1
  MaxUrl = 2
  Keys = {1, 2}
  MaxListVer = 2
  MaxField = 2
  Interval = 3
  Timeout = 2
  StaleAge = 3
  Periods = {1, 2}
  MaxLoads = 2
  Tables <- MCTables
  MaxGen = 1
  MinYear = 1970
  MaxYear = 9999
  Years <- MCYears
  Days <- MCDays
  MaxNights = 1
  MaxValue = 1
  MaxPuts = 2
  Widths = {1, 2}
  MaxWidth = 12
  Largest = 4
  Smallest = 2
  Step = 1
  MaxLength = 7
INVARIANTS KeysMatch TabsAreTrue PickerIsSound SectionsSaveAlone TitleFits
PROPERTIES NothingOlder SavedIsKept LoadingEnds
