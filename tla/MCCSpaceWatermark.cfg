SPECIFICATION CSpaceSpec
CONSTANTS
  CnodeSlots = 4
  CnodesPerNode = 2
  TopSlots = 7
  MappingSlots = 1
  BootSlots = 9
  BootCnodes = 3
  MaxUts = 8
INVARIANT
  WatermarkFree
CHECK_DEADLOCK FALSE
