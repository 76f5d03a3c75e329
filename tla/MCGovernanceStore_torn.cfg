\* A crash between the mutation log and the state file.
SPECIFICATION Spec
CONSTANTS
  c1 = c1
  c2 = c2
  Callers = {c1, c2}
  MaxBatch = 2
  MaxRecords = 1
  MaxEntries = 2
  MaxCalls = 3
  MaxCrashes = 1
  StorageMayFail = FALSE
INVARIANT OnlyTamperingBreaksLog
CHECK_DEADLOCK FALSE
