SPECIFICATION Spec
CONSTANTS
  Word = 6
  Bytes = {0, 1}
INVARIANTS MemsetFills
CHECK_DEADLOCK FALSE
