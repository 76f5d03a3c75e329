\* Two concurrent calls on one payload, a restart, a storage that may fail.
SPECIFICATION Spec
CONSTANTS
  Keys = {k1}
  NoKey = NoKey
  Workers = {w1, w2}
  MaxSequence = 2
  MaxRetryAttempts = 3
  MaxCrashes = 1
  StorageMayFail = TRUE
CHECK_DEADLOCK FALSE
SYMMETRY Symmetry
INVARIANTS
  CommittedOnce
  KeyAllocatedOnce
  AttemptSentOnce
  DeliveredNotForgotten
