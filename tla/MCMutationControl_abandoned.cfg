\* Does an attempt start on an abandoned publication?
SPECIFICATION Spec
CONSTANTS
  Keys = {k1}
  NoKey = NoKey
  Workers = {w1}
  MaxSequence = 1
  MaxRetryAttempts = 2
  MaxCrashes = 0
  StorageMayFail = FALSE
CHECK_DEADLOCK FALSE
PROPERTY AbandonedNotRetried
