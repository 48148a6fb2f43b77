CONSTANTS
  Table = {1, 3, 4}
  ScanKeys = {2}
  Queries <- MCQueries
  RetryPolicy <- MCRetry
  Deadlines <- MCDeadlines
  StreamBuffer = 1
  Codes = {"Unavailable", "Internal"}
  RetryInfos = {0, 2}
  MaxResets = 1
SPECIFICATION ClientSpec
INVARIANTS RowsExact HonestServerAccepted ProgressConsistent TelemetryBalanced
PROPERTIES AttemptsBounded ImplementsRowStream DropEndsOperation ReadTerminates
CHECK_DEADLOCK FALSE
