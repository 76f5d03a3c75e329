\* Two calls at a time; any write may fail, and the process may die once.
SPECIFICATION FairSpec
CONSTANTS
  c1 = c1
  c2 = c2
  Callers = {c1, c2}
  MaxBatch = 2
  MaxRecords = 3
  MaxEntries = 2
  MaxCalls = 4
  MaxCrashes = 1
  StorageMayFail = TRUE
INVARIANTS
  SequencesContiguous
  StateNotAhead
  ReportedIsStored
  LogVerifies
PROPERTY CallsSettle
CHECK_DEADLOCK FALSE
