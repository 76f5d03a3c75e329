------------------------------ MODULE BridgeJobs ------------------------------
(***************************************************************************)
(* The jobs of the bridge: the store that keeps them in memory and writes  *)
(* the whole of it after every change (bridge/state-store.ts), the worker  *)
(* that runs them one at a time (bridge/worker.ts) and the requests that   *)
(* create and cancel them while it does (bridge/server.ts).  A change is   *)
(* in memory at once; its writing is awaited, and writings overlap on one  *)
(* temporary file.                                                         *)
(***************************************************************************)
EXTENDS Naturals, Sequences, SequencesExt, FiniteSets

CONSTANTS
  MaxJobs,       \* bound: jobs, named in the order of their creation
  MaxCancels,    \* bound: requests to cancel
  MaxJobStarts   \* bound: starts of the process

ASSUME BridgeAssumption == MaxJobs \in Nat /\ MaxCancels \in Nat /\ MaxJobStarts \in Nat \ {0}

VARIABLES
  jobs,          \* job -> status in memory, "absent" before it is created
  queue,         \* the worker's queue
  looping,       \* the worker takes jobs from its queue
  worker,        \* [pc, job]
  writes,        \* caller -> [phase, jobs]: its writing of the store, and what it writes
  temporary,     \* index.json.tmp: jobs, torn or none
  storedJobs,    \* index.json
  inbox,         \* the jobs delivered to supervisor.inbox.md since the start
  stranded,      \* jobs whose request or whose processing ended in an exception
  withdrawn,     \* jobs cancelled since the start while they were queued
  overlapped,    \* the last writing to begin was not alone, or has failed
  cancels, jobStarts

bridgeVars == <<jobs, queue, looping, worker, writes, temporary, storedJobs, inbox, stranded, withdrawn,
                overlapped, cancels, jobStarts>>

Jobs == 1..MaxJobs
JobStatuses == {"absent", "queued", "running", "succeeded", "failed", "cancelled"}
NoJobs == [j \in Jobs |-> "absent"]
Torn == [j \in Jobs |-> "torn"]
NoFile == [j \in Jobs |-> "no file"]
Worker == 0
Cancellation == MaxJobs + 1
Callers == 0..(MaxJobs + 1)      \* a job stands for the request that creates it
NoWriting == [phase |-> "none", jobs |-> NoJobs]
Resting == [pc |-> "resting", job |-> 0]

BridgeTypeOK ==
  /\ jobs \in [Jobs -> JobStatuses] /\ queue \in Seq(Jobs) /\ looping \in BOOLEAN
  /\ worker \in [pc : {"resting", "starting", "delivering", "finishing", "failing", "finished", "failed"}, job : Jobs \cup {0}]
  /\ writes \in [Callers -> [phase : {"none", "writing", "renaming"}, jobs : [Jobs -> JobStatuses]]]
  /\ storedJobs \in [Jobs -> JobStatuses] \cup {Torn} /\ temporary \in [Jobs -> JobStatuses] \cup {Torn, NoFile}
  /\ inbox \subseteq Jobs /\ stranded \subseteq Jobs /\ withdrawn \subseteq Jobs /\ overlapped \in BOOLEAN
  /\ cancels \in 0..MaxCancels /\ jobStarts \in 0..MaxJobStarts

BridgeInit ==
  /\ jobs = NoJobs /\ queue = <<>> /\ looping = FALSE /\ worker = Resting
  /\ writes = [c \in Callers |-> NoWriting] /\ temporary = NoFile /\ storedJobs = NoJobs
  /\ inbox = {} /\ stranded = {} /\ withdrawn = {} /\ overlapped = FALSE /\ cancels = 0 /\ jobStarts = 1
-----------------------------------------------------------------------------
(* The store *)

Alone(c) == \A d \in Callers \ {c} : writes[d].phase = "none"

UpdateStatus_Before(c, j, status) ==
  /\ jobs' = [jobs EXCEPT ![j] = status]
  /\ writes' = [writes EXCEPT ![c] = [phase |-> "writing", jobs |-> jobs]]
  /\ overlapped' = ~Alone(c)

\* The status changes in memory, and the whole memory is what gets written.
UpdateStatus(c, j, status) ==
  /\ jobs' = [jobs EXCEPT ![j] = status]
  /\ writes' = [writes EXCEPT ![c] = [phase |-> "writing", jobs |-> jobs']]
  /\ overlapped' = ~Alone(c)

\* Two writings of the temporary file at once may mix in it.
WriteTemporary(c) ==
  /\ writes[c].phase = "writing"
  /\ writes' = [writes EXCEPT ![c].phase = "renaming"]
  /\ \/ temporary' = writes[c].jobs
     \/ /\ \E d \in Callers \ {c} : writes[d].phase = "writing"
        /\ temporary' = Torn
  /\ UNCHANGED <<jobs, queue, looping, worker, storedJobs, inbox, stranded, withdrawn, overlapped, cancels, jobStarts>>

\* What follows when the writing that a caller awaits has ended: a created job is
\* put in the worker's queue, the worker goes on to the next step.
Enqueued(j) == IF Contains(queue, j) THEN queue ELSE Append(queue, j)
Resume(c) ==
  /\ queue' = IF c \in Jobs THEN Enqueued(c) ELSE queue
  /\ looping' = (looping \/ c \in Jobs)
  /\ worker' = IF c # Worker THEN worker
               ELSE [worker EXCEPT !.pc = IF @ = "starting" THEN "delivering"
                                          ELSE IF @ = "finishing" THEN "finished" ELSE "failed"]

RenameTemporary(c) ==
  /\ writes[c].phase = "renaming" /\ temporary # NoFile
  /\ storedJobs' = temporary /\ temporary' = NoFile
  /\ writes' = [writes EXCEPT ![c] = NoWriting]
  /\ Resume(c)
  /\ UNCHANGED <<jobs, inbox, stranded, withdrawn, overlapped, cancels, jobStarts>>

\* The disk fails, or the other writing has renamed the temporary file.  A job that
\* cannot be finished is recorded as failed, which is written as well; any other
\* exception ends the request, or the worker's loop until the next request.
WriteFails(c) ==
  /\ writes[c].phase # "none"
  /\ IF c = Worker /\ worker.pc = "finishing"
     THEN /\ jobs' = [jobs EXCEPT ![worker.job] = "failed"]
          /\ writes' = [writes EXCEPT ![c] = [phase |-> "writing", jobs |-> jobs']]
          /\ worker' = [worker EXCEPT !.pc = "failing"]
          /\ UNCHANGED <<looping, stranded>>
     ELSE /\ writes' = [writes EXCEPT ![c] = NoWriting]
          /\ stranded' = stranded \cup (IF c = Worker THEN {worker.job} ELSE {c} \cap Jobs)
          /\ looping' = (looping /\ c # Worker)
          /\ worker' = IF c = Worker THEN Resting ELSE worker
          /\ UNCHANGED jobs
  /\ overlapped' = TRUE
  /\ UNCHANGED <<queue, temporary, storedJobs, inbox, withdrawn, cancels, jobStarts>>
-----------------------------------------------------------------------------
(* Requests *)

CreateJob ==
  /\ \E j \in Jobs :
       /\ jobs[j] = "absent" /\ \A i \in 1..(j - 1) : jobs[i] # "absent"
       /\ writes[j].phase = "none"
       /\ UpdateStatus(j, j, "queued")
  /\ UNCHANGED <<queue, looping, worker, temporary, storedJobs, inbox, stranded, withdrawn, cancels, jobStarts>>

\* A job is cancelled whatever its status is.
CancelJob(j) ==
  /\ jobs[j] # "absent" /\ writes[Cancellation].phase = "none"
  /\ cancels < MaxCancels /\ cancels' = cancels + 1
  /\ withdrawn' = IF jobs[j] = "queued" THEN withdrawn \cup {j} ELSE withdrawn
  /\ UpdateStatus(Cancellation, j, "cancelled")
  /\ UNCHANGED <<queue, looping, worker, temporary, storedJobs, inbox, stranded, jobStarts>>
-----------------------------------------------------------------------------
(* The worker *)

Runnable_Any(j) == TRUE
Runnable(j) == jobs[j] # "absent" /\ jobs[j] # "cancelled"

TakeJob ==
  /\ looping /\ worker = Resting
  /\ IF queue = <<>>
     THEN looping' = FALSE /\ UNCHANGED <<jobs, queue, worker, writes, overlapped>>
     ELSE /\ queue' = Tail(queue) /\ UNCHANGED looping
          /\ IF Runnable(Head(queue))
             THEN /\ worker' = [pc |-> "starting", job |-> Head(queue)]
                  /\ UpdateStatus(Worker, Head(queue), "running")
             ELSE UNCHANGED <<jobs, worker, writes, overlapped>>
  /\ UNCHANGED <<temporary, storedJobs, inbox, stranded, withdrawn, cancels, jobStarts>>

\* The status is not looked at again.  Before the delivery an exception ends the
\* loop; one in it, or after it, makes the job fail.
DeliverJob ==
  /\ worker.pc = "delivering"
  /\ \/ /\ inbox' = inbox \cup {worker.job}
        /\ \/ UpdateStatus(Worker, worker.job, "succeeded") /\ worker' = [worker EXCEPT !.pc = "finishing"]
           \/ UpdateStatus(Worker, worker.job, "failed") /\ worker' = [worker EXCEPT !.pc = "failing"]
        /\ UNCHANGED <<looping, stranded>>
     \/ /\ UpdateStatus(Worker, worker.job, "failed") /\ worker' = [worker EXCEPT !.pc = "failing"]
        /\ UNCHANGED <<inbox, looping, stranded>>
     \/ /\ looping' = FALSE /\ worker' = Resting /\ stranded' = stranded \cup {worker.job}
        /\ UNCHANGED <<inbox, jobs, writes, overlapped>>
  /\ UNCHANGED <<queue, temporary, storedJobs, withdrawn, cancels, jobStarts>>

\* The last entry of the log is written, and the report of a failure.  A job that
\* has succeeded fails if its log cannot be written.
EndJob ==
  /\ worker.pc \in {"finished", "failed"}
  /\ \/ /\ worker' = Resting /\ looping' \in {looping, looping /\ worker.pc = "finished"}
        /\ UNCHANGED <<jobs, writes, overlapped>>
     \/ /\ worker.pc = "finished" /\ worker' = [worker EXCEPT !.pc = "failing"]
        /\ UpdateStatus(Worker, worker.job, "failed") /\ UNCHANGED looping
  /\ UNCHANGED <<queue, temporary, storedJobs, inbox, stranded, withdrawn, cancels, jobStarts>>
-----------------------------------------------------------------------------
\* A running job is queued again, the last one created first; a file that cannot
\* be read is taken for no jobs at all.  The store is written before anything else.
Recovered_AsStored == IF storedJobs = Torn THEN NoJobs ELSE storedJobs
Recovered ==
  IF storedJobs = Torn THEN NoJobs
  ELSE [j \in Jobs |-> IF storedJobs[j] = "running" THEN "queued" ELSE storedJobs[j]]
LastCreatedFirst(q, waiting) == ToSet(q) = waiting /\ \A i, k \in DOMAIN q : i < k => q[i] > q[k]
BridgeRestart ==
  /\ jobStarts < MaxJobStarts /\ jobStarts' = jobStarts + 1
  /\ jobs' = Recovered /\ storedJobs' = Recovered /\ temporary' = NoFile
  /\ queue' \in {q \in SeqOf(Jobs, MaxJobs) : LastCreatedFirst(q, {j \in Jobs : jobs'[j] = "queued"})}
  /\ looping' = (queue' # <<>>) /\ worker' = Resting /\ writes' = [c \in Callers |-> NoWriting]
  /\ inbox' = {} /\ stranded' = {} /\ withdrawn' = {} /\ overlapped' = FALSE
  /\ UNCHANGED cancels

BridgeNext ==
  \/ CreateJob \/ TakeJob \/ DeliverJob \/ EndJob \/ BridgeRestart
  \/ \E j \in Jobs : CancelJob(j)
  \/ \E c \in Callers : WriteTemporary(c) \/ RenameTemporary(c) \/ WriteFails(c)

BridgeSpec == BridgeInit /\ [][BridgeNext]_bridgeVars
-----------------------------------------------------------------------------
(* Properties *)

\* A job waits in the worker's queue or for the request that creates it, and a
\* running job is the one the worker has, unless an exception ended the request
\* or the processing: so it is after a restart, too (init, enqueueQueuedJobs).
NoneForgotten ==
  \A j \in Jobs \ stranded :
    /\ jobs[j] = "queued" => Contains(queue, j) \/ writes[j].phase # "none"
    /\ jobs[j] = "running" => worker.job = j

\* A job cancelled before its turn came is not delivered to the supervisor, though
\* it stays in the queue (processJob).
WithdrawnNotDelivered == withdrawn \cap inbox = {}

\* Once the last writing has ended, and was alone, the file holds what the memory
\* holds (persist).
StoredWhenAlone ==
  ~overlapped /\ (\A c \in Callers : writes[c].phase = "none") => storedJobs = jobs
=============================================================================
