\* One call at a time on one payload, with restarts, under fairness.
SPECIFICATION FairSpec
CONSTANTS
  Keys = {k1}
  NoKey = NoKey
  Workers = {w1}
  MaxSequence = 2
  MaxRetryAttempts = 3
  MaxCrashes = 2
  StorageMayFail = FALSE
CHECK_DEADLOCK FALSE
INVARIANT InFlightOwned
PROPERTIES
  OverdueNeedsRuling
  ImplementsLedger
  AttemptSettles
