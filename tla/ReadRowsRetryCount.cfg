CONSTANTS
  Table = {1, 3}
  ScanKeys = {2}
  Queries <- MCOneQuery
  RetryPolicy <- MCRetryTwo
  Deadlines <- MCDeadlines
  StreamBuffer = 1
  Codes = {"Unavailable", "Internal"}
  RetryInfos = {0, 2}
  MaxResets = 1
SPECIFICATION Spec
INVARIANT RetriesAreExtraAttempts
CHECK_DEADLOCK FALSE
