\* A mission and a resume under fairness, with failures and a crash.
SPECIFICATION FairSpec
CONSTANTS
  NumSubtasks = 3
  DependsOn <- Join
  Lanes <- JoinLanes
  LaneOf <- JoinRoles
  MinInflight <- JoinMin
  MaxInflight <- JoinMax
  ScaleStep = 1
  Threshold = 2
  InOrder <- Sorted
  GuardsOn = TRUE
  StorageMayFail = TRUE
  MaxCalls = 3
  MaxRuns = 1
  MaxResumes = 1
  MaxCrashes = 1
CHECK_DEADLOCK FALSE
PROPERTY MissionEnds
