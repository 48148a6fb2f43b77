CONSTANTS
  Keys = {1, 2, 3, 4, 5, 6}
  StartKeys = {0, 3, 7}
  EndKeys = {3, 5}
  TooLong = {7}
  Limits = {0, 2, 9}
  MaxLimit = 8
  MaxKeys = 1
  MaxRanges = 2
  MaxByte = 1
  MaxLength = 2
SPECIFICATION PrefixSpec
INVARIANTS ResumeExact ResumeLimit SelectsWhatWasAsked
CHECK_DEADLOCK FALSE
