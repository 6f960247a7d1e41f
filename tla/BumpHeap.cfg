SPECIFICATION Spec
CONSTANTS
  Start = 5
  Size = 16
  Word = 64
  Sizes = {0, 2, 3, 7}
  Aligns = {0, 3, 4, 8, 32}
INVARIANTS GrantsDisjoint GrantsPlaced RefusalJustified
