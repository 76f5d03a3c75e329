\* Two missions on one session, with failures and a crash in between.
SPECIFICATION Spec
CONSTANTS
  NumSubtasks = 3
  DependsOn <- Join
  Lanes <- JoinLanes
  LaneOf <- JoinRoles
  MinInflight <- JoinMin
  MaxInflight <- JoinMax
  ScaleStep = 1
  Threshold = 2
  InOrder <- Sorted
  GuardsOn = TRUE
  StorageMayFail = TRUE
  MaxCalls = 3
  MaxRuns = 2
  MaxResumes = 0
  MaxCrashes = 1
CHECK_DEADLOCK FALSE
INVARIANTS
  WorkPreserved
  BoundedConcurrency
  CompletedMeansAll
  CheckpointsComplete
  NeverDeadlocks
PROPERTY
  DependenciesFirst
