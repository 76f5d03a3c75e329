----------------------------- MODULE Supervisor -----------------------------
(***************************************************************************)
(* supervisor/supervisor-v1.js over its parts: the circuit breaker of one  *)
(* skill, the request queue (supervisor/request-queue.js), and the state   *)
(* manager with its persistent store, which keeps the queue and the        *)
(* breaker across restarts.                                                *)
(*                                                                         *)
(* Callers run the skill's handler directly; the queue processor runs it   *)
(* for one queued request at a time.  A step is what runs between two      *)
(* awaits: of a handler, of the state file, of a flush.                    *)
(***************************************************************************)
EXTENDS CircuitBreaker, PersistentStore, FiniteSets

CONSTANTS
  Callers,      \* that call execute themselves, one call at a time each
  Processor,    \* the queue's own call of execute
  MaxLength,    \* queueMaxLength
  MaxRequests   \* bound: requests ever put into the queue

ASSUME SupervisorAssumption ==
  /\ Processor \notin Callers
  /\ MaxLength \in Nat \ {0}
  /\ MaxRequests \in Nat

Executors == Callers \cup {Processor}

VARIABLES
  phase,      \* how far initialize() is: "new", "loading", "ready"
  stopping,   \* isShuttingDown
  queue,      \* requestQueue: requests are numbered as they are accepted
  active,     \* queueProcessorActive
  at,         \* each execution: "free", "running", or "probing" with a lease
  entry,      \* the breaker's entry for the skill
  \* history
  accepted,   \* the requests that were accepted, in any process
  started,    \* the last request that this process took from the queue
  streak,     \* failures in a row the breaker has been told of, to the threshold
  left        \* what the last shutdown left, if its flush loses nothing

processVars == <<phase, stopping, queue, active, at, entry, accepted, started,
                 streak, left>>
vars == <<storeVars, processVars>>

Requests  == 1..MaxRequests
Snapshots == [queue : Seq(Requests), entry : Entry]
ASSUME NoneAssumption == None \notin Snapshots
Left      == [queue : Seq(Requests), working : BOOLEAN]

Snapshot(q, e) == [queue |-> q, entry |-> Exported(e)]

StoreOK ==
  /\ disk \in Snapshots \cup {None} /\ pending \in Snapshots \cup {None}
  /\ writing \in Snapshots \cup {None} /\ latest \in Snapshots \cup {None}
  /\ timer \in BOOLEAN /\ closed \in BOOLEAN /\ dropped \in BOOLEAN
  /\ chain \in Seq(Flushes)

ProcessOK ==
  /\ phase \in {"new", "loading", "ready"} /\ stopping \in BOOLEAN
  /\ queue \in Seq(Requests) /\ Len(queue) <= MaxLength
  /\ active \in BOOLEAN
  /\ at \in [Executors -> {"free", "running", "probing"}]
  /\ entry \in Entry
  /\ accepted \in 0..MaxRequests /\ started \in 0..MaxRequests
  /\ streak \in 0..FailureThreshold
  /\ left \in Left \cup {None}

TypeOK == StoreOK /\ ProcessOK

ProcessInit ==
  /\ phase = "new" /\ stopping = FALSE
  /\ queue = <<>> /\ active = FALSE
  /\ at = [x \in Executors |-> "free"]
  /\ entry = NewEntry
  /\ started = 0 /\ streak = 0

Init == StoreInit(None) /\ ProcessInit /\ accepted = 0 /\ left = None

\* scheduleStatePersist: a snapshot of what this step leaves.
Persist(q, e) ==
  IF phase = "ready" /\ ~ stopping THEN ScheduleWrite(Snapshot(q, e))
  ELSE UNCHANGED storeVars
\* recordSuccess and recordFailure ask for one if the state has changed.
PersistTransition(e) ==
  IF e.state # entry.state THEN Persist(queue, e) ELSE UNCHANGED storeVars

-----------------------------------------------------------------------------
(* initialize: the file is read, and what follows runs without yielding.    *)

Initialize ==
  /\ phase = "new"
  /\ phase' = "loading"
  /\ UNCHANGED <<storeVars, stopping, queue, active, at, entry, accepted,
                 started, streak, left>>

\* restorePersistentState takes the place of what the process did so far.
Restored_Appends(stored) == queue \o stored
Restored(stored) ==
  IF Len(stored) <= MaxLength THEN stored ELSE SubSeq(stored, 1, MaxLength)

Loaded ==
  /\ phase = "loading"
  /\ phase' = "ready"
  /\ latest' = disk
  /\ left' = None
  /\ IF disk = None THEN UNCHANGED <<queue, entry, streak>>
     ELSE /\ queue' = Restored(disk.queue)
          /\ entry' = Imported(disk.entry)
          /\ streak' = IF disk.entry.state = "CLOSED"
                       THEN disk.entry.failureCount ELSE FailureThreshold
  /\ UNCHANGED <<disk, pending, timer, writing, chain, closed, dropped, stopping,
                 active, at, accepted, started>>

\* The read fails, or the file is not what it should be: it is ignored, and the
\* next snapshot replaces it.
LoadFails ==
  /\ phase = "loading"
  /\ phase' = "ready"
  /\ left' = None
  /\ UNCHANGED <<storeVars, stopping, queue, active, at, entry, accepted,
                 started, streak>>

-----------------------------------------------------------------------------
(* Requests and their execution.                                            *)

Room_OffByOne == Len(queue) <= MaxLength
Room == Len(queue) < MaxLength

\* A request is accepted in every phase, and even while shutting down.
Enqueue ==
  /\ accepted < MaxRequests
  /\ Room
  /\ accepted' = accepted + 1
  /\ queue' = Append(queue, accepted + 1)
  /\ Persist(queue', entry)
  /\ UNCHANGED <<phase, stopping, active, at, entry, started, streak, left>>

\* The gate of execute lets x through, and its handler is awaited.
Admit(x) ==
  /\ ~ stopping /\ Allowed(entry)
  /\ entry' = CheckBeforeRequest(entry)
  /\ at' = [at EXCEPT ![x] = IF TakesLease(entry) THEN "probing" ELSE "running"]

Execute(x) ==
  /\ at[x] = "free"
  /\ Admit(x)
  /\ UNCHANGED <<storeVars, phase, stopping, queue, active, accepted, started,
                 streak, left>>

\* processQueue: the request at the head is taken, whether the breaker then lets
\* it run or not.
ProcessQueue ==
  /\ phase = "ready" /\ ~ stopping /\ ~ active
  /\ queue # <<>>
  /\ queue' = Tail(queue) /\ started' = Head(queue)
  /\ Persist(queue', entry)
  /\ \/ Admit(Processor) /\ active' = TRUE
     \/ ~ Allowed(entry) /\ UNCHANGED <<entry, at, active>>
  /\ UNCHANGED <<phase, stopping, accepted, streak, left>>

\* The handler's promise settles.  The processor may take its next request.
Settle_StaysActive(x) == at' = [at EXCEPT ![x] = "free"] /\ UNCHANGED active
Settle(x) ==
  /\ at' = [at EXCEPT ![x] = "free"]
  /\ active' = (active /\ x # Processor)

Succeed_Unrecorded(x) ==
  /\ at[x] # "free"
  /\ Settle(x)
  /\ entry' = entry
  /\ streak' = 0
  /\ PersistTransition(entry')
  /\ UNCHANGED <<phase, stopping, queue, accepted, started, left>>
Succeed(x) ==
  /\ at[x] # "free"
  /\ Settle(x)
  /\ entry' = RecordSuccess(entry)
  /\ streak' = 0
  /\ PersistTransition(entry')
  /\ UNCHANGED <<phase, stopping, queue, accepted, started, left>>

Fail(x) ==
  /\ at[x] # "free"
  /\ Settle(x)
  /\ entry' = RecordFailure(entry)
  /\ streak' = IF streak = FailureThreshold THEN streak ELSE streak + 1
  /\ PersistTransition(entry')
  /\ UNCHANGED <<phase, stopping, queue, accepted, started, left>>

\* getStatus also moves the breaker on, and schedules nothing.
GetStatus ==
  /\ entry' = MoveOpenToHalfOpenIfReady(entry)
  /\ UNCHANGED <<storeVars, phase, stopping, queue, active, at, accepted,
                 started, streak, left>>

\* timeoutMs goes by.
TimePasses ==
  /\ entry.state = "OPEN"
  /\ entry' = [entry EXCEPT !.elapsed = TRUE]
  /\ UNCHANGED <<storeVars, phase, stopping, queue, active, at, accepted,
                 started, streak, left>>

-----------------------------------------------------------------------------
(* The store, and the end of the process.                                   *)

StoreStep ==
  /\ \/ TimerFires /\ UNCHANGED left
     \/ WriteEnds /\ UNCHANGED left
     \/ WriteFails /\ left' = IF dropped' THEN None ELSE left
  /\ UNCHANGED <<phase, stopping, queue, active, at, entry, accepted, started, streak>>

\* shutdown.  The queue is cleared after its last snapshot was taken.  Before
\* the state manager is initialized there is nothing to close.
Shutdown ==
  /\ ~ stopping
  /\ stopping' = TRUE
  /\ queue' = <<>>
  /\ IF phase = "ready" THEN Close ELSE UNCHANGED storeVars
  /\ left' = IF phase # "ready" THEN left
             ELSE IF latest = None \/ dropped THEN None
             ELSE [queue |-> queue, working |-> entry.state = "CLOSED"]
  /\ UNCHANGED <<phase, active, at, entry, accepted, started, streak>>

ProcessEnds ==
  /\ StoreEnds
  /\ phase' = "new" /\ stopping' = FALSE
  /\ queue' = <<>> /\ active' = FALSE
  /\ at' = [x \in Executors |-> "free"]
  /\ entry' = NewEntry
  /\ started' = 0 /\ streak' = 0
  /\ UNCHANGED accepted

\* shutdown has returned, and the process exits.
Exit == stopping /\ ~ Closing /\ ProcessEnds /\ UNCHANGED left
Crash == ProcessEnds /\ left' = None

-----------------------------------------------------------------------------
Next ==
  \/ Initialize \/ Loaded \/ LoadFails
  \/ Enqueue \/ ProcessQueue
  \/ \E x \in Callers : Execute(x)
  \/ \E x \in Executors : Succeed(x) \/ Fail(x)
  \/ GetStatus \/ TimePasses
  \/ StoreStep
  \/ Shutdown \/ Exit \/ Crash

Spec == Init /\ [][Next]_vars

\* Timers fire, and file operations and handlers end.  Nobody has to call.
Fairness ==
  /\ WF_vars(StoreStep)
  /\ WF_vars(ProcessQueue)
  /\ \A x \in Executors : WF_vars(Succeed(x) \/ Fail(x))
FairSpec == Spec /\ Fairness

-----------------------------------------------------------------------------
(* Properties.                                                              *)

\* A process that starts after a shutdown whose flush lost nothing finds the
\* queue as it was when the shutdown began, and a breaker that was not closed
\* is open.
RestartResumes ==
  [][Loaded /\ left # None
       => queue' = left.queue /\ (entry'.state = "CLOSED") = left.working]_vars

\* A snapshot that waits has a timer or a flush that will write it.
NothingStranded == pending # None => timer \/ writing # None

\* Requests are taken in the order of their arrival and none of them twice by
\* one process, whatever a restart put back.
InArrivalOrder ==
  \A i \in DOMAIN queue :
    started < queue[i] /\ \A j \in DOMAIN queue : i < j => queue[i] < queue[j]

\* The lease of a half-open breaker belongs to a call that is still running, so
\* no breaker is closed to its skill for good.
LeaseOwned ==
  entry.state = "HALF_OPEN" /\ entry.halfOpenInFlight
    => \E x \in Executors : at[x] = "probing"

\* However many calls overlap, and however late they settle, a breaker that has
\* been told of FailureThreshold failures in a row is not closed.
TripsInTime == entry.state = "CLOSED" => streak < FailureThreshold

\* A request that waits is taken from the queue, unless its process stops: the
\* processor outlives handlers that fail and a breaker that refuses.
Waiting(r) == \E i \in DOMAIN queue : queue[i] = r
QueueMoves ==
  \A r \in Requests :
    phase = "ready" /\ ~ stopping /\ Waiting(r) ~> ~ Waiting(r)

\* shutdown returns, whatever else is being written or fails.
ShutdownReturns == Closing ~> ~ Closing
=============================================================================
