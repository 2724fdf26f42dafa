CONSTANTS
  Programs <- MCPrograms
  PageWords = 2
  MAPPING_SLOTS = 3
  PagingLevels = 3
  TableFan = 2
  NumFrames = 5
  StackPage = 9
  IpcPage = 14
SPECIFICATION PsSpec
INVARIANTS
  SharedPagesLoaded
CHECK_DEADLOCK FALSE
