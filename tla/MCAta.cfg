SPECIFICATION Spec
CONSTANTS
  Byte = 4
  Nibble = 2
  Values = {"a", "b"}
  Blank = "blank"
  MaxPolls = 2
  MaxCalls = 3
  Slots <- MCSlots
  Machines <- MCMachines
  Lbas <- MCLbas
INVARIANTS
  ReadsSeeWrites
  FoundAreReal
PROPERTIES
  CallReturns
CHECK_DEADLOCK FALSE
