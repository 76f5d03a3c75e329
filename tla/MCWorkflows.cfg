\* Every component, one after another.
SPECIFICATION Spec
CONSTANTS
  Parts = {"access", "captures", "rollouts", "operator", "recovery", "compliance", "quota", "dataset", "drafts",
           "package", "outcomes", "bridge", "gateway", "task"}
  RolePolicy <- TheRolePolicy
  ScopeRegistry <- TheScopeRegistry
  TokenRequests <- TheTokenRequests
  MaxTokens = 3
  MaxAccessCalls = 3
  MaxRestarts = 1
  Drafts = {"draft"}
  Ratings <- TheRatings
  Writers = {"w1", "w2"}
  Cohort <- TheCohort
  Fields = {"fields"}
  MinOutcomes = 1
  MinScore = 60
  MaxRejectDelta = 10
  MaxEntries = 3
  MaxExperiments = 2
  MaxEdits = 1
  Calls = {"c1", "c2"}
  ApprovalTokens = {"r", "b", "u"}
  TokenScope <- TheTokenScope
  EvidenceFiles = {"f", "g"}
  Contents = {"x", "y"}
  MaxCheckpoints = 2
  MaxManifests = 1
  MaxFileChanges = 2
  DatasetTasks = {"t1", "t2"}
  Blocks = {"b"}
  ValidBlocks = {"b"}
  DatasetTypes = {"instruction_qa"}
  Thresholds = {75}
  MinRowCount = 1
  CallerIds = {"release"}
  Builders = {"p1", "p2"}
  MaxBuilds = 2
  MaxSourceChanges = 1
  MaxJobs = 2
  MaxCancels = 1
  MaxJobStarts = 2
  Requests = {"q1", "q2"}
  BearerTokens = {"op", "sys"}
  TokenRecord <- TheTokenRecord
  PossibleFaults = {"override chain", "attestation allowlist", "dependency drift"}
  RateLimit = 1
  MaxStreams = 1
  MaxMinutes = 1
  MaxFaultChanges = 1
  Rankings <- TheRankings
  LintRejected = {"bad"}
  CandidateLimit = 2
  Runners = {"r1", "r2"}
  MaxRuns = 2
  MaxTransitions = 1
  TaskSources = {"task"}
  MaxTaskDrafts = 2
  Packagers = {"p1", "p2"}
  Texts = {"m1", "m2"}
  Summaries = {"x", "y"}
  Recorders = {"w1", "w2"}
  Keys = {"k1", "k2"}
  DecisionKeys = {"k1", "k2"}
  Payloads = {"a", "b"}
  MaxOutcomes = 2
  MaxDamages = 1
  RequiredChecks = {"c1"}
  MaxAge = 0
  Targets = {"t"}
  MaxRecords = 4
  MaxTime = 1
  MaxTruncations = 1
  Mcps = {"m1", "m2"}
  TokenCosts = {1, 2}
  Attempts = {"a1"}
  McpPerMinute = 1
  GlobalPerMinute = 1
  RequestsPerDay = 1
  TokensPerDay = 1
  PublishesPerHour = 1
  PublishesPerDay = 2
  WriteTokensPerDay = 2
  TogglesPerMinute = 1
  AttemptTtl = 1
  MinutesPerHour = 1
  MinutesPerDay = 2
  MaxQuotaMinutes = 2
  MaxEvents = 4
  Tasks = {"t1"}
  TaskCalls = {"e1", "e2"}
  TaskFailures = 1
  MaxTaskRestarts = 1
INVARIANTS
  TypesOK
  AccessAccountable
  ExperimentsGoverned
  OperationsAuthorized
  DatasetsCleared
  DraftsConsistent
  ReleasesWithinLimits
  ServicesKeepTrack
PROPERTY
  StepsPermitted
CHECK_DEADLOCK FALSE
