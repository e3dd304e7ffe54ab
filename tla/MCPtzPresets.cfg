SPECIFICATION Spec
CONSTANTS
  PTZ_PRESET_ALLNUM = 4
  Marked = {1}
  Special = {3, 4}
  Clear = 3
  Names = {a, b}
  MaxLost = 1
  MaxCuts = 1
SYMMETRY NameSymmetry
INVARIANTS BoardKnown NamesKept
PROPERTY RestartKeeps
