CONSTANTS
  Entries <- MCEntries
  BaseSize = 4
  Policy <- MCPolicy
  RetryPolicy <- MCRetry
  Deadlines <- MCDeadlines
  Failures <- MCFailuresInfo
SPECIFICATION Spec
INVARIANTS TypeOK EntriesAccountedOnce ReportsMatchAnswers RetriesExhausted TelemetryAddsUp
PROPERTY SendsJustified
CHECK_DEADLOCK FALSE
