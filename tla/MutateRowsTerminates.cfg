CONSTANTS
  Entries <- MCEntries
  BaseSize = 4
  Policy <- MCPolicySerial
  RetryPolicy <- MCRetry
  Deadlines <- MCDeadlines
  Failures <- MCFailures
SPECIFICATION FairSpec
PROPERTY MutateTerminates
CHECK_DEADLOCK FALSE
