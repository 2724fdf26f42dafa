SPECIFICATION DispatchSpec
CONSTANTS
  Irqs = {"net", "wdog", "timer"}
  NumBits = 3
  Failing = {"timer"}
PROPERTIES
  AllBitsChecked
CHECK_DEADLOCK FALSE
