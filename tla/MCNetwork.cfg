SPECIFICATION Spec
CONSTANTS
  Irqs = {"net", "wdog"}
  NumBits = 2
  Failing = {}
  Clients = {"c1", "c2", "c3"}
  RingSize = 2
  LoopScore = 1
  NumSlots = 1
  DescrNum = 2
  Packets = {"p", "q"}
INVARIANTS
  WakeupsKept
  RxInOrder
  TxInOrder
PROPERTIES
  RepliesRight
  RingDrains
  CallsReceived
  RingsMove
