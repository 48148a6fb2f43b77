CONSTANTS
  Keys = {1, 2}
  Families = {"f", "g"}
  Qualifiers = {"q", "r"}
  Metas = {0, 1}
  Bytes <- MCBytes
  Values <- MCValues
  Sizes = {0, 2}
  CellValues <- MCCellValues
  MaxCells = 3
  MaxResets = 1
  Reversed = TRUE
SPECIFICATION EncodingSpec
INVARIANTS NeverRejects RowRebuilt
CHECK_DEADLOCK FALSE
