\* One caller and the processor, with restarts, crashes and failed writes.
CONSTANTS
  FailureThreshold = 1
  SuccessThreshold = 1
  None = None
  MaxFlushes = 2
  Callers = {c1}
  Processor = processor
  MaxLength = 2
  MaxRequests = 2
SPECIFICATION FairSpec
INVARIANTS
  NothingStranded
  LeaseOwned
  TripsInTime
  InArrivalOrder
PROPERTIES
  RestartResumes
  QueueMoves
  ShutdownReturns
