\* The offer is generated again after an export.
SPECIFICATION ReleaseSpec
CONSTANTS
  Kind = "submission"
  Targets = {"market"}
  DeliveryTargets = {"courier"}
  Procs = {p1}
  NoProc = NoProc
  Ended = Ended
  Keys = {k1, k2}
  NoKey = NoKey
  Payloads = {file, note}
  FilePayloads = {file}
  Contents = {h1, h2}
  NoContent = NoContent
  Sources <- AllSources
  ProductLine <- Line
  Tier <- TheTier
  PlatformConfig <- Market
  DeliveryConfig <- Courier
  MaxBuilds = 2
  MaxEdits = 0
  Reported = {"submitted_pending_review", "published_confirmed", "delivery_in_progress"}
  MaxEvents = 2
  MaxExports = 1
  MaxOutcomes = 0
  MaxVerifies = 0
  MaxCrashes = 0
CHECK_DEADLOCK FALSE
PROPERTY
  NeverRewritten
