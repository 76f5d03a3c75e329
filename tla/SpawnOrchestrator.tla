-------------------------- MODULE SpawnOrchestrator --------------------------
(***************************************************************************)
(* A mission of core/spawn-orchestrator.js, with the files it works on:    *)
(* the session's lane queue (core/lane-queue.js, changed synchronously)    *)
(* and the runtime state (state/persistent-store.js), which holds the open *)
(* loops and which every writer loads, changes and saves with no lock.     *)
(*                                                                         *)
(* A process runs either one mission or one resume, and then exits.  Its   *)
(* scheduler runs without yielding from the moment it wakes until it waits *)
(* again; a subtask's call settles and wakes it in one step.  Calls        *)
(* interleave with each other and with the recording of a failure.         *)
(***************************************************************************)
EXTENDS Naturals, Sequences, FiniteSets, SequencesExt

CONSTANTS
  NumSubtasks,     \* the steps of the mission's template
  DependsOn,       \* of each subtask: the subtasks it depends on
  Lanes, LaneOf,   \* one lane per role; its concurrency key is the lane's own
  MinInflight, MaxInflight,  \* of each lane
  ScaleStep,       \* laneScaling.scaleStep
  Threshold,       \* checkpointing.completedSubtaskThreshold, 0 for none
  InOrder,         \* of each set of open loops: the loops by their identifiers
  GuardsOn,        \* whether mission timeout and stall detection may fire
  StorageMayFail,  \* whether an update of the runtime state may fail
  MaxCalls,        \* bound: calls at one time, what the lanes admit together
  MaxRuns,         \* bound: missions started on this session
  MaxResumes,      \* bound: resumes of the session
  MaxCrashes       \* bound: processes that die on the way

Subtasks == 1..NumSubtasks

\* buildPlan's output: a step depends on earlier steps, limits are positive.
ASSUME PlanAssumption ==
  /\ NumSubtasks \in Nat \ {0}
  /\ DependsOn \in [Subtasks -> SUBSET Subtasks]
  /\ \A s \in Subtasks : \A d \in DependsOn[s] : d < s
  /\ LaneOf \in [Subtasks -> Lanes]
  /\ MinInflight \in [Lanes -> Nat \ {0}]
  /\ MaxInflight \in [Lanes -> Nat \ {0}]
  /\ \A l \in Lanes : MinInflight[l] <= MaxInflight[l]
ASSUME SettingsAssumption ==
  /\ ScaleStep \in Nat \ {0}
  /\ Threshold \in Nat
  /\ InOrder \in [SUBSET Subtasks -> Seq(Subtasks)]
  /\ GuardsOn \in BOOLEAN
  /\ StorageMayFail \in BOOLEAN
  /\ MaxCalls \in Nat /\ MaxRuns \in Nat /\ MaxResumes \in Nat /\ MaxCrashes \in Nat

Calls == 1..MaxCalls

VARIABLES
  \* files
  queue,        \* the lane queue of the session
  runtime,      \* the runtime state: open loops, and the mission's status
  mission,      \* the status in the mission's own status.json
  \* the process
  loop,         \* where executePlan or resumePendingWork is
  next,         \* the subtask being enqueued and registered
  limit,        \* current_inflight of each lane
  completed, failed,    \* completedSubtasks, failedSubtasks
  checkpoints,  \* writtenCheckpointIds
  at, task,     \* what each call of runSubtask does, and for which subtask
  read,         \* the runtime state that a call has loaded
  fatal,        \* fatalError
  writes,       \* writeMissionStatus calls left once the mission has failed
  recordRead,   \* the runtime state that one of them has loaded
  requeued,     \* what resumePendingWork has still to execute
  \* history and bounds
  registered,   \* subtasks that were registered as open loops
  done,         \* subtasks that have completed, in any process
  runs, resumes, crashes

files   == <<queue, runtime, mission>>
calls   == <<at, task, read>>
memory  == <<next, limit, completed, failed, checkpoints, fatal, writes,
             recordRead, requeued>>
history == <<registered, done, runs, resumes, crashes>>
vars    == <<files, loop, memory, calls, history>>

Statuses    == {"none", "running", "paused", "failed", "completed"}
RuntimeFile == [loops : SUBSET Subtasks, status : Statuses]
NoFile      == [loops |-> {}, status |-> "none"]

\* Where the scheduler is.  It yields to other callbacks only at an await.
Loop ==
  {"idle", "enqueue", "register", "top", "dispatch", "waiting", "failing",
   "recording", "saving", "exiting", "completed", "resuming"}
Yields == loop \in {"waiting", "recording", "saving", "exiting"}

FilesOK ==
  /\ queue \in Seq(Subtasks)
  /\ runtime \in RuntimeFile
  /\ mission \in Statuses

MemoryOK ==
  /\ loop \in Loop
  /\ next \in 1..(NumSubtasks + 1)
  /\ limit \in [Lanes -> Nat \ {0}]
  /\ completed \subseteq Subtasks /\ failed \subseteq Subtasks
  /\ checkpoints \subseteq {"stage", "threshold"} \X Nat
  /\ fatal \in {"none", "paused", "failed", "deadlock"}
  /\ writes \in 0..2
  /\ recordRead \in RuntimeFile
  /\ requeued \in Seq(Subtasks)

CallsOK ==
  /\ at \in [Calls -> {"free", "running", "loading", "saving", "detached", "rejected"}]
  /\ task \in [Calls -> Subtasks \cup {0}]
  /\ \A c \in Calls : at[c] # "free" => task[c] \in Subtasks
  /\ read \in [Calls -> RuntimeFile]

HistoryOK ==
  /\ registered \subseteq Subtasks /\ done \subseteq Subtasks
  /\ runs \in 0..MaxRuns /\ resumes \in 0..MaxResumes /\ crashes \in 0..MaxCrashes

TypeOK == FilesOK /\ MemoryOK /\ CallsOK /\ HistoryOK

Init ==
  /\ queue = <<>> /\ runtime = NoFile /\ mission = "none"
  /\ loop = "idle" /\ next = 1
  /\ limit = MinInflight
  /\ completed = {} /\ failed = {} /\ checkpoints = {}
  /\ at = [c \in Calls |-> "free"]
  /\ task = [c \in Calls |-> 0]
  /\ read = [c \in Calls |-> NoFile]
  /\ fatal = "none" /\ writes = 0 /\ recordRead = NoFile /\ requeued = <<>>
  /\ registered = {} /\ done = {}
  /\ runs = 0 /\ resumes = 0 /\ crashes = 0

\* The process ends, and its memory and its calls with it.
ProcessEnds ==
  /\ loop' = "idle"
  /\ next' = 1
  /\ limit' = MinInflight
  /\ completed' = {} /\ failed' = {} /\ checkpoints' = {}
  /\ at' = [c \in Calls |-> "free"]
  /\ task' = [c \in Calls |-> 0]
  /\ read' = [c \in Calls |-> NoFile]
  /\ fatal' = "none" /\ writes' = 0 /\ recordRead' = NoFile /\ requeued' = <<>>

-----------------------------------------------------------------------------
(* A mission starts: its subtasks are enqueued and registered, in order.    *)

\* agent-spawner's executePlan, after the approvals and the plan.  No other call
\* runs yet, so the update of the runtime state is one step.
Start ==
  /\ loop = "idle"
  /\ runs < MaxRuns
  /\ runs' = runs + 1
  /\ mission' = "running"
  /\ runtime' = [runtime EXCEPT !.status = "running"]
  /\ loop' = "enqueue"
  /\ UNCHANGED <<queue, memory, calls, registered, done, resumes, crashes>>

Enqueue ==
  /\ loop = "enqueue"
  /\ next <= NumSubtasks
  /\ queue' = Append(queue, next)
  /\ loop' = "register"
  /\ UNCHANGED <<runtime, mission, memory, calls, history>>

\* registerOpenLoop
Register ==
  /\ loop = "register"
  /\ runtime' = [runtime EXCEPT !.loops = @ \cup {next}]
  /\ registered' = registered \cup {next}
  /\ next' = next + 1
  /\ loop' = IF next = NumSubtasks THEN "top" ELSE "enqueue"
  /\ UNCHANGED <<queue, mission, limit, completed, failed, checkpoints, fatal, writes,
                 recordRead, requeued, calls, done, runs, resumes, crashes>>

\* The error leaves executePlan at once, with the queue as it is.
RegisterFails ==
  /\ StorageMayFail
  /\ loop = "register"
  /\ fatal' = "failed"
  /\ loop' = "recording"
  /\ writes' = 2
  /\ UNCHANGED <<files, next, limit, completed, failed, checkpoints, recordRead,
                 requeued, calls, history>>

-----------------------------------------------------------------------------
(* The scheduler.                                                           *)

\* Variants named <definition>_<fault> are the same code with one fault; each is
\* used to see that a property notices the fault, and by no specification.
Satisfied_Any(s) == DependsOn[s] = {} \/ DependsOn[s] \cap completed # {}
Satisfied_Open(s) == DependsOn[s] \cap runtime.loops = {}
Satisfied(s)    == DependsOn[s] \subseteq completed
Doomed(s)       == DependsOn[s] \cap failed # {}

\* A call counts for its lane until it settles; one that timed out has settled,
\* though its dispatch goes on.
Counted == {c \in Calls : at[c] \in {"running", "loading", "saving"}}
LaneInflight(l) == Cardinality({c \in Counted : LaneOf[task[c]] = l})

CanDispatch_Unlimited(s) == Satisfied(s) /\ ~Doomed(s)
CanDispatch(s) ==
  /\ Satisfied(s)
  /\ ~Doomed(s)
  /\ LaneInflight(LaneOf[s]) < limit[LaneOf[s]]

ReadyQueued(l) ==
  Cardinality({i \in DOMAIN queue : /\ LaneOf[queue[i]] = l
                                    /\ Satisfied(queue[i])
                                    /\ ~Doomed(queue[i])})

\* applyLaneScalingIfNeeded
Scaled(l) ==
  IF ReadyQueued(l) > limit[l] /\ limit[l] < MaxInflight[l]
  THEN Min({MaxInflight[l], limit[l] + ScaleStep})
  ELSE IF ReadyQueued(l) = 0 /\ LaneInflight(l) = 0 /\ limit[l] > MinInflight[l]
  THEN IF limit[l] > MinInflight[l] + ScaleStep THEN limit[l] - ScaleStep ELSE MinInflight[l]
  ELSE limit[l]

ScaleLanes == limit' = [l \in Lanes |-> Scaled(l)]

Fatal(how) ==
  /\ fatal' = how
  /\ loop' = "failing"

\* evaluateExecutionGuards: the clock decides.
GuardFires == GuardsOn /\ Fatal("paused")

\* The head of the loop of executePlan.
Wake ==
  /\ loop = "top"
  /\ ScaleLanes
  /\ \/ GuardFires
     \/ loop' = "dispatch" /\ UNCHANGED fatal
  /\ UNCHANGED <<files, next, completed, failed, checkpoints, writes, recordRead,
                 requeued, calls, history>>

FirstFree(c) == at[c] = "free" /\ \A d \in Calls : d < c => at[d] # "free"

\* The head of the queue goes to a call of runSubtask.
Dispatch(c) ==
  /\ loop = "dispatch"
  /\ queue # <<>>
  /\ CanDispatch(Head(queue))
  /\ FirstFree(c)
  /\ queue' = Tail(queue)
  /\ at' = [at EXCEPT ![c] = "running"]
  /\ task' = [task EXCEPT ![c] = Head(queue)]
  /\ UNCHANGED <<runtime, mission, loop, memory, read, history>>

\* runSubtask cannot append to the mailboxes: it fails before its first await, and
\* the scheduler goes on before it hears of it.
DispatchFails(c) ==
  /\ StorageMayFail
  /\ loop = "dispatch"
  /\ queue # <<>>
  /\ CanDispatch(Head(queue))
  /\ FirstFree(c)
  /\ queue' = Tail(queue)
  /\ at' = [at EXCEPT ![c] = "rejected"]
  /\ task' = [task EXCEPT ![c] = Head(queue)]
  /\ failed' = failed \cup {Head(queue)}
  /\ UNCHANGED <<runtime, mission, loop, next, limit, completed, checkpoints, fatal,
                 writes, recordRead, requeued, read, history>>

\* PHASE18_SUBTASK_DEPENDENCY_FAILED
DependencyFailed ==
  /\ loop = "dispatch"
  /\ queue # <<>>
  /\ Doomed(Head(queue))
  /\ Fatal("failed")
  /\ UNCHANGED <<files, next, limit, completed, failed, checkpoints, writes, recordRead,
                 requeued, calls, history>>

\* The head of the queue cannot go yet, for its dependencies or its lane.
Blocked == queue # <<>> /\ ~Doomed(Head(queue)) /\ ~CanDispatch(Head(queue))

NoMore  == queue = <<>> \/ Blocked

\* What is in flight: a call that was rejected is, until the scheduler awaits it.
Rejected == {c \in Calls : at[c] = "rejected"}
InFlight == Counted \cup Rejected

Wait ==
  /\ loop = "dispatch"
  /\ NoMore
  /\ InFlight # {}
  /\ Rejected = {}
  /\ loop' = "waiting"
  /\ UNCHANGED <<files, memory, calls, history>>

\* The wait ends at once with the rejection.
RejectionArrives ==
  /\ loop = "dispatch"
  /\ NoMore
  /\ Rejected # {}
  /\ Fatal("failed")
  /\ UNCHANGED <<files, next, limit, completed, failed, checkpoints, writes, recordRead,
                 requeued, calls, history>>

\* PHASE18_SUBTASK_DEADLOCK, unless a guard fires first
Stuck ==
  /\ loop = "dispatch"
  /\ Blocked
  /\ InFlight = {}
  /\ GuardFires \/ Fatal("deadlock")
  /\ UNCHANGED <<files, next, limit, completed, failed, checkpoints, writes, recordRead,
                 requeued, calls, history>>

\* All is settled: the outputs are saved and synthesizeAndPersist records it.
Complete ==
  /\ loop = "dispatch"
  /\ queue = <<>>
  /\ InFlight = {}
  /\ mission' = "completed"
  /\ runtime' = [runtime EXCEPT !.status = "completed"]
  /\ loop' = "completed"
  /\ UNCHANGED <<queue, memory, calls, history>>

\* schedulerTickMs go by and nothing settles.
Tick ==
  /\ loop = "waiting"
  /\ ScaleLanes
  /\ \/ GuardFires
     \/ loop' = "top" /\ UNCHANGED fatal
  /\ UNCHANGED <<files, next, completed, failed, checkpoints, writes, recordRead,
                 requeued, calls, history>>

-----------------------------------------------------------------------------
(* The calls of runSubtask.                                                 *)

Free(c) ==
  /\ at' = [at EXCEPT ![c] = "free"]
  /\ task' = [task EXCEPT ![c] = 0]
  /\ read' = [read EXCEPT ![c] = NoFile]

\* A call that settles wakes the scheduler, if it waits; a first failure is fatal.
WakeWith_Swallows(how) ==
  \/ loop = "waiting" /\ how # "paused" /\ loop' = "top" /\ UNCHANGED fatal
  \/ loop = "waiting" /\ how = "paused" /\ Fatal(how)
  \/ loop # "waiting" /\ UNCHANGED <<loop, fatal>>
WakeWith(how) ==
  \/ loop = "waiting" /\ how = "none" /\ loop' = "top" /\ UNCHANGED fatal
  \/ loop = "waiting" /\ how # "none" /\ Fatal(how)
  \/ loop # "waiting" /\ UNCHANGED <<loop, fatal>>

\* The dispatch answers with a completed result.
TaskCompletes(c) ==
  /\ Yields
  /\ at[c] = "running"
  /\ at' = [at EXCEPT ![c] = "loading"]
  /\ completed' = completed \cup {task[c]}
  /\ done' = done \cup {task[c]}
  /\ UNCHANGED <<files, loop, next, limit, failed, checkpoints, fatal, writes, recordRead,
                 requeued, task, read, registered, runs, resumes, crashes>>

\* The dispatch throws, or answers with a result that is not completed.
TaskFails(c) ==
  /\ Yields
  /\ at[c] = "running"
  /\ failed' = failed \cup {task[c]}
  /\ Free(c)
  /\ WakeWith("failed")
  /\ UNCHANGED <<files, next, limit, completed, checkpoints, writes, recordRead, requeued,
                 history>>

\* PHASE18_SUBTASK_TIMEOUT: the call settles, and the dispatch goes on.
TaskTimesOut(c) ==
  /\ Yields
  /\ at[c] = "running"
  /\ failed' = failed \cup {task[c]}
  /\ at' = [at EXCEPT ![c] = "detached"]
  /\ WakeWith("paused")
  /\ UNCHANGED <<files, next, limit, completed, checkpoints, writes, recordRead, requeued,
                 task, read, history>>

\* Its late answer is dropped.
DetachedAnswers(c) ==
  /\ Yields
  /\ at[c] = "detached"
  /\ Free(c)
  /\ UNCHANGED <<files, loop, memory, history>>

\* loadRuntimeState
Loaded == runtime

\* resolveOpenLoop loads the runtime state ...
ResolveLoad(c) ==
  /\ Yields
  /\ at[c] = "loading"
  /\ read' = [read EXCEPT ![c] = Loaded]
  /\ at' = [at EXCEPT ![c] = "saving"]
  /\ UNCHANGED <<files, loop, memory, task, history>>

\* The stage of a subtask, from the subtasks it depends on.
Stage[s \in Subtasks] ==
  IF DependsOn[s] = {} THEN 1 ELSE 1 + Max({Stage[d] : d \in DependsOn[s]})

StageMembers(n) == {s \in Subtasks : Stage[s] = n}
ContiguousCompleted == Cardinality({n \in Subtasks : 1..n \subseteq completed})
ThresholdsUpTo(n) ==
  IF Threshold = 0 THEN {} ELSE {m \in 1..n : m % Threshold = 0}

CheckpointsFor_Before(s) ==
  {<<"stage", n>> : n \in {m \in Subtasks : m = Stage[s] /\ StageMembers(m) \subseteq completed \ {s}}}
  \cup {<<"threshold", n>> : n \in ThresholdsUpTo(ContiguousCompleted)}

\* maybeWriteCheckpointsForSubtask
CheckpointsFor(s) ==
  {<<"stage", n>> : n \in {m \in Subtasks : m = Stage[s] /\ StageMembers(m) \subseteq completed}}
  \cup {<<"threshold", n>> : n \in ThresholdsUpTo(ContiguousCompleted)}

Resolved_InFlight(file, s) ==
  [file EXCEPT !.loops = @ \ ({s} \cup {task[c] : c \in Counted})]
Resolved(file, s) == [file EXCEPT !.loops = @ \ {s}]

\* ... and saves it without the loop; the checkpoints follow, and the call settles.
ResolveSave(c) ==
  /\ Yields
  /\ at[c] = "saving"
  /\ runtime' = Resolved(read[c], task[c])
  /\ checkpoints' = checkpoints \cup CheckpointsFor(task[c])
  /\ Free(c)
  /\ WakeWith("none")
  /\ UNCHANGED <<queue, mission, next, limit, completed, failed, writes, recordRead,
                 requeued, history>>

\* The update cannot be read or written: a completed subtask fails the mission.
ResolveFails(c) ==
  /\ StorageMayFail
  /\ Yields
  /\ at[c] \in {"loading", "saving"}
  /\ failed' = failed \cup {task[c]}
  /\ Free(c)
  /\ WakeWith("failed")
  /\ UNCHANGED <<files, next, limit, completed, checkpoints, writes, recordRead, requeued,
                 history>>

-----------------------------------------------------------------------------
(* The end of a mission.                                                    *)

\* A completed mission: the process ends.
ExitCompleted ==
  /\ loop = "completed"
  /\ ProcessEnds
  /\ UNCHANGED <<files, history>>

\* The error leaves executePlan: the session's queue is drained on the way.
Fail ==
  /\ loop = "failing"
  /\ queue' = <<>>
  /\ loop' = "recording"
  /\ writes' = 2
  /\ UNCHANGED <<runtime, mission, next, limit, completed, failed, checkpoints, fatal,
                 recordRead, requeued, calls, history>>

FailureStatus == IF fatal = "paused" THEN "paused" ELSE "failed"

\* writeMissionStatus, from executePlan and again from spawnMission: status.json is
\* written, and the runtime state loaded ...
RecordLoad ==
  /\ loop = "recording"
  /\ mission' = FailureStatus
  /\ recordRead' = Loaded
  /\ loop' = "saving"
  /\ UNCHANGED <<queue, runtime, next, limit, completed, failed, checkpoints, fatal,
                 writes, requeued, calls, history>>

Recorded == loop' = IF writes = 1 THEN "exiting" ELSE "recording"

\* ... and saved with the mission's status.
RecordSave ==
  /\ loop = "saving"
  /\ runtime' = [recordRead EXCEPT !.status = FailureStatus]
  /\ writes' = writes - 1
  /\ Recorded
  /\ UNCHANGED <<queue, mission, next, limit, completed, failed, checkpoints, fatal,
                 recordRead, requeued, calls, history>>

RecordFails_Retries ==
  /\ StorageMayFail
  /\ loop = "saving"
  /\ loop' = "recording"
  /\ UNCHANGED <<files, next, limit, completed, failed, checkpoints, fatal, writes,
                 recordRead, requeued, calls, history>>

RecordFails ==
  /\ StorageMayFail
  /\ loop = "saving"
  /\ writes' = writes - 1
  /\ Recorded
  /\ UNCHANGED <<files, next, limit, completed, failed, checkpoints, fatal, recordRead,
                 requeued, calls, history>>

\* run-research-task exits, whatever still runs.
ExitFailed ==
  /\ loop = "exiting"
  /\ ProcessEnds
  /\ UNCHANGED <<files, history>>

\* The process dies.  A resume dies between two of its executions.
Crash ==
  /\ loop # "idle"
  /\ crashes < MaxCrashes
  /\ crashes' = crashes + 1
  /\ ProcessEnds
  /\ UNCHANGED <<files, registered, done, runs, resumes>>

-----------------------------------------------------------------------------
(* A resume, in a process of its own.                                       *)

\* requeueOpenLoops
Requeue == InOrder[runtime.loops]

\* resumeMission marks the mission paused; every open loop goes on the lane
\* queue, from where nothing in a resume takes it.
Resume ==
  /\ loop = "idle"
  /\ mission # "none"
  /\ resumes < MaxResumes
  /\ resumes' = resumes + 1
  /\ mission' = "paused"
  /\ runtime' = [runtime EXCEPT !.status = "paused"]
  /\ requeued' = Requeue
  /\ queue' = queue \o Requeue
  /\ loop' = "resuming"
  /\ UNCHANGED <<next, limit, completed, failed, checkpoints, fatal, writes, recordRead,
                 calls, registered, done, runs, crashes>>

\* The supervisor or the governance refuses a task, or its result is not
\* completed: the next one follows.
ResumeSkips ==
  /\ loop = "resuming"
  /\ requeued # <<>>
  /\ requeued' = Tail(requeued)
  /\ UNCHANGED <<files, loop, next, limit, completed, failed, checkpoints, fatal, writes,
                 recordRead, calls, history>>

\* An approved task is executed, and completes.
ResumeExecutes ==
  /\ loop = "resuming"
  /\ requeued # <<>>
  /\ requeued' = Tail(requeued)
  /\ done' = done \cup {Head(requeued)}
  /\ UNCHANGED <<files, loop, next, limit, completed, failed, checkpoints, fatal, writes,
                 recordRead, calls, registered, runs, resumes, crashes>>

\* An approval or an execution throws, or there is no more: the process ends.
ResumeEnds ==
  /\ loop = "resuming"
  /\ ProcessEnds
  /\ UNCHANGED <<files, history>>

-----------------------------------------------------------------------------
Schedule ==
  \/ Enqueue
  \/ Register \/ RegisterFails
  \/ Wake \/ DependencyFailed \/ Wait \/ RejectionArrives \/ Stuck \/ Complete
  \/ \E c \in Calls : Dispatch(c) \/ DispatchFails(c)
  \/ Fail
  \/ RecordLoad \/ RecordSave \/ RecordFails
  \/ ExitCompleted \/ ExitFailed

Resuming == ResumeSkips \/ ResumeExecutes \/ ResumeEnds

CallSettles(c) ==
  \/ TaskCompletes(c)
  \/ TaskFails(c)
  \/ TaskTimesOut(c)
  \/ ResolveLoad(c)
  \/ ResolveSave(c)
  \/ ResolveFails(c)

Next ==
  \/ Start
  \/ Schedule
  \/ Tick
  \/ \E c \in Calls : CallSettles(c) \/ DetachedAnswers(c)
  \/ Resume
  \/ Resuming
  \/ Crash

Spec == Init /\ [][Next]_vars

\* The scheduler goes on and a resumed task answers.  Every call settles, within
\* defaultSubtaskTimeoutMs and the time of a file operation, however many ticks pass
\* meanwhile: strong fairness, as its callbacks wait while the scheduler runs.
\* Nobody has to start a mission or a resume.
Fairness ==
  /\ WF_vars(Schedule)
  /\ WF_vars(Resuming)
  /\ \A c \in Calls : SF_vars(CallSettles(c))

FairSpec == Spec /\ Fairness

-----------------------------------------------------------------------------
(* Properties.                                                              *)

\* Unfinished work is durable: a subtask that was registered and has not completed
\* is in the open loops, whatever overlapping updates, timeouts, failures and
\* crashes come in between.
WorkPreserved == registered \ done \subseteq runtime.loops

\* A lane never works on more than its max_inflight, counting the dispatches that
\* have timed out and go on: nothing is dispatched after a timeout.
BoundedConcurrency ==
  \A l \in Lanes :
    /\ limit[l] \in MinInflight[l]..MaxInflight[l]
    /\ Cardinality({c \in Calls : /\ at[c] \notin {"free", "rejected"}
                                 /\ LaneOf[task[c]] = l})
         <= MaxInflight[l]

\* A mission is reported as completed only when every subtask has completed in it,
\* none has failed, and no call is left behind.
CompletedMeansAll ==
  loop = "completed" =>
    /\ completed = Subtasks
    /\ failed = {}
    /\ \A c \in Calls : at[c] = "free"

\* In whatever order the subtasks settle, a completed mission has written the
\* checkpoint of every stage and of every threshold.
CheckpointsComplete ==
  loop = "completed" =>
    /\ \A s \in Subtasks : <<"stage", Stage[s]>> \in checkpoints
    /\ \A n \in ThresholdsUpTo(NumSubtasks) : <<"threshold", n>> \in checkpoints

\* On a session that starts empty the head of the queue always becomes
\* dispatchable: PHASE18_SUBTASK_DEADLOCK does not occur.  (It may occur on a queue
\* that a dead process or a resume has left behind.)
NeverDeadlocks == runs = 1 /\ resumes = 0 => fatal # "deadlock"

\* Dependencies first: in a mission a subtask completes after those it depends on.
\* (A resume executes the open loops whatever they depend on.)
DependenciesFirst ==
  [][\A s \in done' \ done : loop # "resuming" => DependsOn[s] \subseteq done]_vars

\* A mission, or a resume, always comes to an end.
MissionEnds == loop # "idle" ~> loop = "idle"
=============================================================================
