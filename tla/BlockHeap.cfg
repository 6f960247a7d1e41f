SPECIFICATION Spec
CONSTANTS
  Total = 6
  BlockSize = 2
  StartAddr = 4
  Word = 64
  Sizes = {0, 1, 4, 5, 14}
  Alignments = {0, 3, 4, 8, 16}
INVARIANTS TypeOK Disjoint TableMatchesLive Usable NothingPassed
PROPERTIES ImplementsContract CallReturns
