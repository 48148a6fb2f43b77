CONSTANTS
  Keys = {1, 2}
  Families <- MCFamilies
  Qualifiers <- MCQualifiers
  Metas = {0, 1}
  Bytes <- MCBytes
  Values <- MCValues
  Sizes <- MCSizes
  MaxCells = 2
  Reversed = FALSE
SPECIFICATION Spec
INVARIANTS TypeOK ScanOrdered SplitAccounting NothingLeftBetweenRows RowsWellFormed
PROPERTY SplitValueExact
CHECK_DEADLOCK FALSE
