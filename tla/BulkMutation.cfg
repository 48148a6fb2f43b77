CONSTANTS
  LongNames = {"long"}
  BadNames = {"a/b"}
  LongKeys = {"long"}
  MaxMutations = 2
  MaxMicros = 5000
  TokenWindow = 1
  Tables = {"t", "", "long", "a/b"}
  RowKeys = {"k", "", "long"}
  Families = {"f", "", "long", "a/b"}
  Qualifiers = {"q"}
  Timestamps <- MCTimestamps
  Clocks <- MCClocks
  TokenLengths = {7, 8}
  Protos <- MCProtos
  Options <- MCOptions
  Requested <- MCRequested
  BytesOf <- MCBytesOf
  KeyBytes = 3
  TokenBytes = 22
  BaseSize = 4
  Rows <- MCRows
  MaxChanges = 3
SPECIFICATION Spec
INVARIANTS TypeOK SplitKeepsEntries RequestsWithinLimits ReplayHarmless
CHECK_DEADLOCK FALSE
