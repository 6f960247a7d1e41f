SPECIFICATION Spec
CONSTANTS
  NPorts = 2
  NSlots = 2
  Lbas = {"sector1", "sector2"}
  HeapSizes = {1, 2, 3}
  Timings = {TRUE, FALSE}
INVARIANTS PromptReadIntegrity DmaIntoOwnBuffer AllDisksFound BufferAtHand
PROPERTIES IssuedCommandsStable ConfiguredStopped CallReturns
CHECK_DEADLOCK FALSE
