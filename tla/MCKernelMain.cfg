SPECIFICATION Spec
CONSTANTS
  Cells = 2
  ClusterSize = 2
  Word = 256
  EndMark = 248
  MaxSecondary = 3
  Mapped = 1
  Stray <- MCStray
  Junk <- MCJunk
  Stale <- MCStale
  Hello <- MCHello
  Machines <- MCMachines
  Callers <- MCCallers
INVARIANTS
  OpenExact
  ReadExact
  ReadsInVolume
  HelloPrinted
PROPERTIES
  FsCallsBalanced
  Ends
CHECK_DEADLOCK FALSE
