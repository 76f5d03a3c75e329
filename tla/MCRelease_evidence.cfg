\* Overlapping commands on one offer, a crash and an edit of the bundle.
SPECIFICATION ReleaseSpec
CONSTANTS
  Kind = "submission"
  Targets = {"market"}
  DeliveryTargets = {"courier"}
  Procs = {p1, p2}
  NoProc = NoProc
  Ended = Ended
  Keys = {k1, k2}
  NoKey = NoKey
  Payloads = {file, note}
  FilePayloads = {file}
  Contents = {h1, h2}
  NoContent = NoContent
  Sources <- AllSources
  ProductLine <- Line
  Tier <- TheTier
  PlatformConfig <- Market
  DeliveryConfig <- Courier
  MaxBuilds = 1
  MaxEdits = 1
  Reported = {"submitted_pending_review", "published_confirmed", "delivery_in_progress"}
  MaxEvents = 2
  MaxExports = 1
  MaxOutcomes = 2
  MaxVerifies = 1
  MaxCrashes = 1
CHECK_DEADLOCK FALSE
SYMMETRY Symmetry
INVARIANTS
  VerificationPasses
  KeyRecordedOnce
  DeliveryFollowsSubmission
PROPERTY
  AppendOnlyWithinBundle
