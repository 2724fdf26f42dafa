CONSTANTS
  root = root
  a = a
  b = b
  e1 = e1
  Threads = {root, a, b}
  Root = root
  Idle = idle
  None = none
  Prios = {0, 2}
  TopPrio = 2
  WordBits = 4
  TimeSlice = 1
  Eps = {e1}
  Ntfns = {n1}
  Irqs = {i1}
  Slots = {s1}
  Granting = {a}
  FaultEp <- MCFaultEp
SPECIFICATION Spec
INVARIANT SendsAreNotFaults
