CONSTANTS
  Entries <- MCEntries
  BaseSize = 4
  Policy <- MCPolicy
  RetryPolicy <- MCRetry
  Deadlines <- MCDeadlines
  Failures <- MCFailures
SPECIFICATION Spec
INVARIANT RetrySafetyReported
CHECK_DEADLOCK FALSE
