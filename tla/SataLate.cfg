SPECIFICATION Spec
CONSTANTS
  NPorts = 2
  NSlots = 2
  Lbas = {"sector1", "sector2"}
  HeapSizes = {3}
  Timings = {FALSE}
INVARIANT ReadIntegrity
CHECK_DEADLOCK FALSE
