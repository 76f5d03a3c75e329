\* Two concurrent calls: is the request sent again once committed?
SPECIFICATION Spec
CONSTANTS
  Keys = {k1}
  NoKey = NoKey
  Workers = {w1, w2}
  MaxSequence = 1
  MaxRetryAttempts = 2
  MaxCrashes = 0
  StorageMayFail = FALSE
CHECK_DEADLOCK FALSE
PROPERTY NotResentOnceCommitted
