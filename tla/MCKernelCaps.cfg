CONSTANTS
  MemBits = 2
  Root = {r1, r2, r3}
  Boot = r1
  None = none
  Badges = {1}
  Radices = {1}
  UntypedBits = {1}
  ChunkBits = 1
  MaxCaps = 4
  MaxWindow = 2
SYMMETRY RootSymmetry
SPECIFICATION Spec
INVARIANTS
  NoCapFailure
  MdbWellFormed
  RevokeReaches
  FinalExact
  MemoryOneUse
  FreeIsClean
  PreemptedProgress
