SPECIFICATION LoopSpec
CONSTANTS
  Irqs = {"net", "wdog"}
  NumBits = 2
  Failing = {}
  Clients = {"c1"}
  RingSize = 1
  LoopScore = 1
  NumSlots = 1
PROPERTIES
  NoReplyToOne
CHECK_DEADLOCK FALSE
