CONSTANTS
  Margin = 15
  RetryDelay = 5
  Lifetimes = {0, 10, 18}
  MaxHandles = 2
  MaxLatency = 1
  MaxFailures = 2
  Names <- MCNames
  Sizes = {0, 1, 2}
  RawChoices <- MCRaw
  MaxCalls = 2
SPECIFICATION ClientSpec
INVARIANTS ClientTypeOK RefreshOwned AlwaysAuthorized LoadAgrees ConfigUsable RequestsAuthenticated
PROPERTY Recovers
CHECK_DEADLOCK FALSE
