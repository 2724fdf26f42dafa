CONSTANTS
  root1 = root1
  root2 = root2
  dir1 = dir1
  tab1 = tab1
  tab2 = tab2
  frame1 = frame1
  frame2 = frame2
  large1 = large1
  MaxCaps = 6
  Objects = {pool1, root1, root2, dir1, tab1, tab2, frame1, frame2, large1}
  BootPool = pool1
  Kind <- MCKind
  Depth = 3
  Entries = 3
  NumPools = 1
  Addrs = {0}
  Nil = nil
SPECIFICATION MCSpec
INVARIANTS
  WalksReachOwned
  TranslationsCurrent
PROPERTY NoStrayUnmap
