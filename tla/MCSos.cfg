SPECIFICATION SosSpec
CONSTANTS
  CnodeSlots = 4
  CnodesPerNode = 2
  TopSlots = 7
  MappingSlots = 2
  BootSlots = 8
  BootCnodes = 3
  MaxUts = 4
  TotalUts = 10
  FramesPerPage = 3
  FrameLimit = 7
  MaxSide = 1
  NumPages = 4
  Top = 2
  StructsPerPage = 3
  MaxGrow = 1
  Irqs = {"net", "wdog", "timer"}
  NumBits = 3
  Failing = {"timer"}
  Programs <- MCPrograms
  PageWords = 2
  MAPPING_SLOTS = 3
  PagingLevels = 3
  TableFan = 2
  NumFrames = 5
  StackPage = 9
  IpcPage = 14
  AreaStart = 1
  AreaSize = 4
  DmaStart = 8
  DmaSize = 20
  DMA_ALIGN_BITS = 3
  CacheLine = 4
  Sizes = {1, 3, 5}
  Aligns = {4, 8}
  HalfBits = 2
  MaxCount = 15
INVARIANTS
  AssertsHold
  ListsWellFormed
  HeldAreAllocated
  FramesAccounted
  SlotsAccounted
  CnodesConsistent
  MemoryPartitioned
  IrqsKept
  ImageInPlace
  MappedFramesKept
  StartSound
  ArenasApart
  TimestampTrue
PROPERTIES
  ImplementsPool
  ReusesBeforeGrowing
  SplitsOnlyIfNeeded
  EveryIrqHandled
