----------------------- MODULE SpawnOrchestratorProofs -----------------------
(***************************************************************************)
(* Proofs about SpawnOrchestrator, for every plan, every number of lanes,  *)
(* calls, missions, resumes and crashes: the types, that unfinished work   *)
(* stays in the open loops, that a completed mission has completed every   *)
(* subtask and written every checkpoint, that dependencies come first, that *)
(* lanes stay bounded and that a mission never waits for nothing.          *)
(***************************************************************************)
EXTENDS SpawnOrchestrator, SequenceTheorems, FiniteSetTheorems, WellFoundedInduction, TLAPS

-----------------------------------------------------------------------------
(* Types.                                                                   *)

FatalKinds == {"none", "paused", "failed", "deadlock"}

\* What leaves a group of variables alone keeps its type.
LEMMA Frames ==
  /\ FilesOK /\ UNCHANGED files => FilesOK'
  /\ CallsOK /\ UNCHANGED calls => CallsOK'
  /\ HistoryOK /\ UNCHANGED history => HistoryOK'
  /\ MemoryOK /\ UNCHANGED <<loop, memory>> => MemoryOK'
BY DEF files, calls, history, memory, FilesOK, CallsOK, HistoryOK, MemoryOK

\* The scheduler moves, and at most its error changes.
LEMMA SchedulerMoves ==
  ASSUME MemoryOK, loop' \in Loop, fatal' \in FatalKinds,
         UNCHANGED <<next, limit, completed, failed, checkpoints, writes, recordRead,
                     requeued>>
  PROVE  MemoryOK'
BY DEF MemoryOK, FatalKinds

LEMMA Positions ==
  {"idle", "enqueue", "register", "top", "dispatch", "waiting", "failing",
   "recording", "saving", "exiting", "completed", "resuming"} = Loop
BY DEF Loop

LEMMA WakeTypes ==
  ASSUME MemoryOK, NEW how \in {"none", "failed", "paused"}, WakeWith(how)
  PROVE  loop' \in Loop /\ fatal' \in FatalKinds
BY DEF WakeWith, Fatal, MemoryOK, Loop, FatalKinds

\* A process that ends starts again from nothing.
LEMMA EndTypes == ProcessEnds => MemoryOK' /\ CallsOK'
<1> SUFFICES ASSUME ProcessEnds PROVE MemoryOK' /\ CallsOK'
  OBVIOUS
<1> USE PlanAssumption DEF ProcessEnds
<1>1. NoFile \in RuntimeFile
  BY DEF NoFile, RuntimeFile, Statuses
<1>2. CallsOK'
  BY <1>1 DEF CallsOK
<1>3. limit' \in [Lanes -> Nat \ {0}] /\ next' \in 1..(NumSubtasks + 1)
  OBVIOUS
<1>4. requeued' \in Seq(Subtasks)
  BY EmptySeq
<1>5. MemoryOK'
  BY <1>1, <1>3, <1>4 DEF MemoryOK, Loop
<1> QED
  BY <1>2, <1>5

LEMMA FreeTypes ==
  ASSUME CallsOK, NEW c \in Calls, Free(c)
  PROVE  CallsOK'
<1>1. NoFile \in RuntimeFile
  BY DEF NoFile, RuntimeFile, Statuses
<1> QED
  BY <1>1 DEF CallsOK, Free

LEMMA MinOfTwo ==
  ASSUME NEW a \in Nat, NEW b \in Nat
  PROVE  Min({a, b}) \in {a, b} /\ Min({a, b}) <= a /\ Min({a, b}) <= b
<1>1. \E x \in {a, b} : \A y \in {a, b} : x <= y
  <2>1. CASE a <= b
    BY <2>1
  <2>2. CASE ~(a <= b)
    BY <2>2
  <2> QED
    BY <2>1, <2>2
<1> QED
  BY <1>1 DEF Min

\* applyLaneScalingIfNeeded keeps every limit between the minimum and the maximum.
LEMMA ScaledBounds ==
  ASSUME NEW l \in Lanes, limit[l] \in MinInflight[l]..MaxInflight[l]
  PROVE  Scaled(l) \in MinInflight[l]..MaxInflight[l]
<1> USE PlanAssumption, SettingsAssumption
<1>1. /\ MinInflight[l] \in Nat \ {0} /\ MaxInflight[l] \in Nat \ {0}
      /\ limit[l] \in Nat /\ ScaleStep \in Nat \ {0}
  OBVIOUS
<1>2. Min({MaxInflight[l], limit[l] + ScaleStep}) \in MinInflight[l]..MaxInflight[l]
  <2> DEFINE up == limit[l] + ScaleStep
             m  == Min({MaxInflight[l], up})
  <2>1. up \in Nat /\ up >= MinInflight[l] /\ MaxInflight[l] \in Nat
    BY <1>1
  <2> HIDE DEF up
  <2>2. m \in {MaxInflight[l], up} /\ m <= MaxInflight[l]
    BY <2>1, MinOfTwo, Zenon
  <2> HIDE DEF m
  <2>3. m \in MinInflight[l]..MaxInflight[l]
    BY <1>1, <2>1, <2>2
  <2> QED
    BY <2>3 DEF m, up
<1> QED
  BY <1>1, <1>2 DEF Scaled

LEMMA ThresholdTypes == \A n \in Nat : ThresholdsUpTo(n) \subseteq Nat
BY DEF ThresholdsUpTo

LEMMA CheckpointTypes ==
  ASSUME NEW s
  PROVE  CheckpointsFor(s) \subseteq {"stage", "threshold"} \X Nat
<1>1. IsFiniteSet(Subtasks)
  BY PlanAssumption, FS_Interval DEF Subtasks
<1>2. ContiguousCompleted \in Nat
  BY <1>1, FS_Subset, FS_CardinalityType DEF ContiguousCompleted
<1> QED
  BY <1>2, ThresholdTypes, PlanAssumption DEF CheckpointsFor, Subtasks

\* What a counter is while its loop runs: a subtask that is registered exists, and
\* a failed mission that is being recorded has a write left.
Counting ==
  /\ loop = "register" => next <= NumSubtasks
  /\ loop \in {"recording", "saving"} => writes > 0

TypeInv == TypeOK /\ Counting

LEMMA TypeInit == Init => TypeInv
<1> SUFFICES ASSUME Init PROVE TypeInv
  OBVIOUS
<1> USE PlanAssumption, SettingsAssumption DEF Init
<1>1. NoFile \in RuntimeFile
  BY DEF NoFile, RuntimeFile, Statuses
<1>2. queue \in Seq(Subtasks) /\ requeued \in Seq(Subtasks)
  BY EmptySeq
<1>3. FilesOK
  BY <1>1, <1>2 DEF FilesOK, Statuses
<1>4. limit \in [Lanes -> Nat \ {0}] /\ next \in 1..(NumSubtasks + 1)
  OBVIOUS
<1>5. MemoryOK
  BY <1>1, <1>2, <1>4 DEF MemoryOK, Loop
<1>6. CallsOK
  BY <1>1 DEF CallsOK
<1>7. HistoryOK
  BY DEF HistoryOK
<1>8. Counting
  BY DEF Counting
<1> QED
  BY <1>3, <1>5, <1>6, <1>7, <1>8 DEF TypeInv, TypeOK

\* The files: every write of the runtime state saves a whole state.
LEMMA FilesStep == TypeInv /\ [Next]_vars => FilesOK'
<1> SUFFICES ASSUME TypeInv, [Next]_vars PROVE FilesOK'
  OBVIOUS
<1> USE PlanAssumption, SettingsAssumption DEF TypeInv, TypeOK
<1>1. CASE UNCHANGED files
  BY <1>1, Frames
<1>2. CASE Start
  BY <1>2 DEF Start, FilesOK, RuntimeFile, Statuses
<1>3. CASE Enqueue
  <2>1. next \in Subtasks
    BY <1>3 DEF Enqueue, MemoryOK, Subtasks
  <2> QED
    BY <1>3, <2>1, AppendProperties DEF Enqueue, FilesOK
<1>4. CASE Register
  <2>1. next \in Subtasks
    BY <1>4 DEF Register, MemoryOK, Subtasks, Counting
  <2> QED
    BY <1>4, <2>1 DEF Register, FilesOK, RuntimeFile
<1>5. ASSUME NEW c \in Calls, Dispatch(c) \/ DispatchFails(c) PROVE FilesOK'
  <2>1. queue' = Tail(queue) /\ queue # <<>> /\ UNCHANGED <<runtime, mission>>
    BY <1>5 DEF Dispatch, DispatchFails
  <2> QED
    BY <2>1, HeadTailProperties DEF FilesOK
<1>6. CASE Complete
  BY <1>6 DEF Complete, FilesOK, RuntimeFile, Statuses
<1>7. CASE Fail
  BY <1>7, EmptySeq DEF Fail, FilesOK
<1>8. CASE RecordLoad \/ RecordSave
  BY <1>8 DEF RecordLoad, RecordSave, FailureStatus, FilesOK, MemoryOK, RuntimeFile, Statuses
<1>9. ASSUME NEW c \in Calls, ResolveSave(c) PROVE FilesOK'
  BY <1>9 DEF ResolveSave, Resolved, CallsOK, FilesOK, RuntimeFile
<1>10. CASE Resume
  <2>1. Requeue \in Seq(Subtasks)
    BY DEF Requeue, FilesOK, RuntimeFile
  <2> QED
    BY <1>10, <2>1, ConcatProperties DEF Resume, FilesOK, RuntimeFile, Statuses
<1>11. CASE Next
  <2>1. CASE Schedule
    <3>1. CASE RegisterFails \/ Wake \/ DependencyFailed \/ Wait \/ RejectionArrives \/ Stuck
      BY <3>1, <1>1 DEF RegisterFails, Wake, DependencyFailed, Wait, RejectionArrives, Stuck
    <3>2. CASE RecordFails \/ ExitCompleted \/ ExitFailed
      BY <3>2, <1>1 DEF RecordFails, ExitCompleted, ExitFailed
    <3> QED
      BY <2>1, <3>1, <3>2, <1>3, <1>4, <1>5, <1>6, <1>7, <1>8 DEF Schedule
  <2>2. ASSUME NEW c \in Calls, CallSettles(c) \/ DetachedAnswers(c) PROVE FilesOK'
    <3>1. CASE ResolveSave(c)
      BY <3>1, <1>9
    <3>2. CASE ~ResolveSave(c)
      BY <2>2, <3>2, <1>1
         DEF CallSettles, DetachedAnswers, TaskCompletes, TaskFails, TaskTimesOut,
             ResolveLoad, ResolveFails
    <3> QED
      BY <3>1, <3>2
  <2>3. CASE Tick \/ Crash \/ Resuming
    BY <2>3, <1>1 DEF Tick, Crash, Resuming, ResumeSkips, ResumeExecutes, ResumeEnds
  <2> QED
    BY <1>11, <2>1, <2>2, <2>3, <1>2, <1>10 DEF Next
<1> QED
  BY <1>1, <1>11 DEF vars

LEMMA HistoryStep == TypeInv /\ [Next]_vars => HistoryOK'
<1> SUFFICES ASSUME TypeInv, [Next]_vars PROVE HistoryOK'
  OBVIOUS
<1> USE SettingsAssumption DEF TypeInv, TypeOK
<1>1. CASE UNCHANGED history
  BY <1>1, Frames
<1>2. CASE Start
  BY <1>2 DEF Start, HistoryOK
<1>3. CASE Register
  <2>1. next \in Subtasks
    BY <1>3, PlanAssumption DEF Register, MemoryOK, Subtasks, Counting
  <2> QED
    BY <1>3, <2>1 DEF Register, HistoryOK
<1>4. ASSUME NEW c \in Calls, TaskCompletes(c) PROVE HistoryOK'
  BY <1>4 DEF TaskCompletes, CallsOK, HistoryOK
<1>5. CASE Crash
  BY <1>5 DEF Crash, HistoryOK
<1>6. CASE Resume
  BY <1>6 DEF Resume, HistoryOK
<1>7. CASE ResumeExecutes
  BY <1>7, HeadTailProperties DEF ResumeExecutes, HistoryOK, MemoryOK
<1>8. CASE Next
  <2>1. CASE Schedule
    <3>1. CASE \/ Enqueue \/ RegisterFails \/ Wake \/ DependencyFailed \/ Wait \/ RejectionArrives
               \/ Stuck \/ Complete \/ Fail \/ RecordLoad \/ RecordSave \/ RecordFails
               \/ ExitCompleted \/ ExitFailed
      BY <3>1, <1>1
         DEF Enqueue, RegisterFails, Wake, DependencyFailed, Wait, RejectionArrives, Stuck,
             Complete, Fail, RecordLoad, RecordSave, RecordFails, ExitCompleted, ExitFailed
    <3>2. ASSUME NEW c \in Calls, Dispatch(c) \/ DispatchFails(c) PROVE HistoryOK'
      BY <3>2, <1>1 DEF Dispatch, DispatchFails
    <3> QED
      BY <2>1, <3>1, <3>2, <1>3 DEF Schedule
  <2>2. ASSUME NEW c \in Calls, CallSettles(c) \/ DetachedAnswers(c) PROVE HistoryOK'
    <3>1. CASE TaskCompletes(c)
      BY <3>1, <1>4
    <3>2. CASE ~TaskCompletes(c)
      BY <2>2, <3>2, <1>1
         DEF CallSettles, DetachedAnswers, TaskFails, TaskTimesOut, ResolveLoad, ResolveSave,
             ResolveFails
    <3> QED
      BY <3>1, <3>2
  <2>3. CASE Tick \/ ResumeSkips \/ ResumeEnds
    BY <2>3, <1>1 DEF Tick, ResumeSkips, ResumeEnds
  <2> QED
    BY <1>8, <2>1, <2>2, <2>3, <1>2, <1>5, <1>6, <1>7 DEF Next, Resuming
<1> QED
  BY <1>1, <1>8 DEF vars

LEMMA CallsStep == TypeInv /\ [Next]_vars => CallsOK'
<1> SUFFICES ASSUME TypeInv, [Next]_vars PROVE CallsOK'
  OBVIOUS
<1> USE DEF TypeInv, TypeOK
<1>1. CASE UNCHANGED calls
  BY <1>1, Frames
<1>2. ASSUME NEW c \in Calls, Dispatch(c) \/ DispatchFails(c) PROVE CallsOK'
  <2>1. Head(queue) \in Subtasks
    <3>1. queue # <<>>
      BY <1>2 DEF Dispatch, DispatchFails
    <3> QED
      BY <3>1, HeadTailProperties DEF FilesOK
  <2>2. CASE Dispatch(c)
    BY <2>1, <2>2 DEF Dispatch, CallsOK
  <2>3. CASE DispatchFails(c)
    BY <2>1, <2>3 DEF DispatchFails, CallsOK
  <2> QED
    BY <1>2, <2>2, <2>3
<1>3. ASSUME NEW c \in Calls, CallSettles(c) PROVE CallsOK'
  <2>1. CASE TaskCompletes(c)
    BY <2>1 DEF TaskCompletes, CallsOK
  <2>2. CASE TaskTimesOut(c)
    BY <2>2 DEF TaskTimesOut, CallsOK
  <2>3. CASE ResolveLoad(c)
    BY <2>3 DEF ResolveLoad, Loaded, CallsOK, FilesOK
  <2>4. CASE TaskFails(c) \/ ResolveSave(c) \/ ResolveFails(c)
    BY <2>4, FreeTypes DEF TaskFails, ResolveSave, ResolveFails
  <2> QED
    BY <1>3, <2>1, <2>2, <2>3, <2>4 DEF CallSettles
<1>4. ASSUME NEW c \in Calls, DetachedAnswers(c) PROVE CallsOK'
  BY <1>4, FreeTypes DEF DetachedAnswers
<1>5. CASE ProcessEnds
  BY <1>5, EndTypes
<1>6. CASE Next
  <2>1. CASE Schedule
    <3>1. CASE \/ Enqueue \/ Register \/ RegisterFails \/ Wake \/ DependencyFailed \/ Wait
               \/ RejectionArrives \/ Stuck \/ Complete \/ Fail \/ RecordLoad \/ RecordSave
               \/ RecordFails
      BY <3>1, <1>1
         DEF Enqueue, Register, RegisterFails, Wake, DependencyFailed, Wait,
             RejectionArrives, Stuck, Complete, Fail, RecordLoad, RecordSave, RecordFails
    <3>2. CASE ExitCompleted \/ ExitFailed
      BY <3>2, <1>5 DEF ExitCompleted, ExitFailed
    <3> QED
      BY <2>1, <3>1, <3>2, <1>2 DEF Schedule
  <2>2. CASE Start \/ Tick \/ Resume \/ ResumeSkips \/ ResumeExecutes
    BY <2>2, <1>1 DEF Start, Tick, Resume, ResumeSkips, ResumeExecutes
  <2>3. CASE ResumeEnds \/ Crash
    BY <2>3, <1>5 DEF ResumeEnds, Crash
  <2> QED
    BY <1>6, <2>1, <2>2, <2>3, <1>3, <1>4 DEF Next, Resuming
<1> QED
  BY <1>1, <1>6 DEF vars

\* The steps of a call move the scheduler at most, and add to the completed, the
\* failed and the checkpoints.
LEMMA CallMemory ==
  ASSUME MemoryOK, CallsOK, NEW c \in Calls, CallSettles(c) \/ DetachedAnswers(c)
  PROVE  MemoryOK'
<1> USE DEF MemoryOK
<1>1. CASE TaskCompletes(c)
  BY <1>1 DEF TaskCompletes, CallsOK
<1>2. CASE TaskFails(c)
  <2>1. loop' \in Loop /\ fatal' \in FatalKinds
    BY <1>2, WakeTypes DEF TaskFails
  <2> QED
    BY <1>2, <2>1 DEF TaskFails, CallsOK, FatalKinds
<1>3. CASE TaskTimesOut(c)
  <2>1. loop' \in Loop /\ fatal' \in FatalKinds
    BY <1>3, WakeTypes DEF TaskTimesOut
  <2> QED
    BY <1>3, <2>1 DEF TaskTimesOut, CallsOK, FatalKinds
<1>4. CASE ResolveSave(c)
  <2>1. loop' \in Loop /\ fatal' \in FatalKinds
    BY <1>4, WakeTypes DEF ResolveSave
  <2>2. checkpoints' \subseteq {"stage", "threshold"} \X Nat
    BY <1>4, CheckpointTypes DEF ResolveSave
  <2> QED
    BY <1>4, <2>1, <2>2 DEF ResolveSave, FatalKinds
<1>5. CASE ResolveFails(c)
  <2>1. loop' \in Loop /\ fatal' \in FatalKinds
    BY <1>5, WakeTypes DEF ResolveFails
  <2> QED
    BY <1>5, <2>1 DEF ResolveFails, CallsOK, FatalKinds
<1>6. CASE ResolveLoad(c) \/ DetachedAnswers(c)
  BY <1>6, Frames DEF ResolveLoad, DetachedAnswers
<1> QED
  BY <1>1, <1>2, <1>3, <1>4, <1>5, <1>6 DEF CallSettles

LEMMA MemoryStep == TypeInv /\ [Next]_vars => MemoryOK'
<1> SUFFICES ASSUME TypeInv, [Next]_vars PROVE MemoryOK'
  OBVIOUS
<1> USE PlanAssumption, SettingsAssumption DEF TypeInv, TypeOK
<1>1. CASE UNCHANGED <<loop, memory>>
  BY <1>1, Frames
<1>2. CASE Start \/ Enqueue \/ Wait \/ Complete
  BY <1>2, SchedulerMoves
     DEF Start, Enqueue, Wait, Complete, memory, Loop, MemoryOK, FatalKinds
<1>3. CASE DependencyFailed \/ RejectionArrives \/ Stuck
  BY <1>3, SchedulerMoves
     DEF DependencyFailed, RejectionArrives, Stuck, GuardFires, Fatal, Loop, FatalKinds
<1>4. CASE Register
  BY <1>4 DEF Register, MemoryOK, Counting, Loop
<1>5. CASE RegisterFails
  BY <1>5 DEF RegisterFails, MemoryOK, Loop
<1>6. CASE Wake \/ Tick
  <2>1. limit' \in [Lanes -> Nat \ {0}]
    <3>1. ASSUME NEW l \in Lanes PROVE Scaled(l) \in Nat \ {0}
      <4>1. /\ limit[l] \in Nat \ {0} /\ MinInflight[l] \in Nat \ {0}
            /\ MaxInflight[l] \in Nat \ {0} /\ ScaleStep \in Nat \ {0}
        BY DEF MemoryOK
      <4>2. Min({MaxInflight[l], limit[l] + ScaleStep}) \in Nat \ {0}
        <5> DEFINE up == limit[l] + ScaleStep
        <5>1. up \in Nat \ {0} /\ MaxInflight[l] \in Nat
          BY <4>1
        <5> HIDE DEF up
        <5>2. Min({MaxInflight[l], up}) \in {MaxInflight[l], up}
          BY <5>1, MinOfTwo, Zenon
        <5> QED
          BY <4>1, <5>1, <5>2 DEF up
      <4> QED
        BY <4>1, <4>2 DEF Scaled
    <3> QED
      BY <1>6, <3>1 DEF Wake, Tick, ScaleLanes
  <2>2. loop' \in Loop /\ fatal' \in FatalKinds
    BY <1>6 DEF Wake, Tick, GuardFires, Fatal, Loop, FatalKinds, MemoryOK
  <2> QED
    BY <1>6, <2>1, <2>2 DEF Wake, Tick, MemoryOK, FatalKinds
<1>7. ASSUME NEW c \in Calls, DispatchFails(c) PROVE MemoryOK'
  <2>1. Head(queue) \in Subtasks
    <3>1. queue # <<>>
      BY <1>7 DEF DispatchFails
    <3> QED
      BY <3>1, HeadTailProperties DEF FilesOK
  <2> QED
    BY <1>7, <2>1 DEF DispatchFails, MemoryOK
<1>8. CASE Fail
  BY <1>8 DEF Fail, MemoryOK, Loop
<1>9. CASE RecordLoad
  BY <1>9 DEF RecordLoad, Loaded, MemoryOK, FilesOK, Loop
<1>10. CASE RecordSave \/ RecordFails
  BY <1>10 DEF RecordSave, RecordFails, Recorded, MemoryOK, Counting, Loop
<1>11. CASE ProcessEnds
  BY <1>11, EndTypes
<1>12. CASE Resume
  BY <1>12 DEF Resume, Requeue, MemoryOK, FilesOK, RuntimeFile, Loop
<1>13. CASE ResumeSkips \/ ResumeExecutes
  <2>1. requeued' \in Seq(Subtasks)
    <3>1. requeued # <<>> /\ requeued' = Tail(requeued)
      BY <1>13 DEF ResumeSkips, ResumeExecutes
    <3> QED
      BY <3>1, HeadTailProperties DEF MemoryOK
  <2> QED
    BY <1>13, <2>1 DEF ResumeSkips, ResumeExecutes, MemoryOK
<1>14. CASE Next
  <2>1. CASE Schedule
    <3>1. ASSUME NEW c \in Calls, Dispatch(c) PROVE MemoryOK'
      BY <3>1, <1>1 DEF Dispatch
    <3> QED
      BY <2>1, <3>1, <1>2, <1>3, <1>4, <1>5, <1>6, <1>7, <1>8, <1>9, <1>10, <1>11
         DEF Schedule, ExitCompleted, ExitFailed
  <2>2. CASE Resuming \/ Crash
    BY <2>2, <1>11, <1>13 DEF Resuming, ResumeEnds, Crash
  <2> QED
    BY <1>14, <2>1, <2>2, <1>2, <1>6, <1>12, CallMemory DEF Next
<1> QED
  BY <1>1, <1>14 DEF vars

LEMMA CountingStep == TypeInv /\ [Next]_vars => Counting'
<1> SUFFICES ASSUME TypeInv, [Next]_vars PROVE Counting'
  OBVIOUS
<1> USE DEF TypeInv, TypeOK, Counting
<1>1. CASE UNCHANGED <<loop, memory>>
  BY <1>1 DEF memory
<1>2. CASE loop' \notin {"register", "recording", "saving"}
  BY <1>2
<1>3. CASE loop' = loop /\ UNCHANGED <<next, writes>>
  BY <1>3
<1>4. CASE Schedule
  <2>1. CASE Enqueue \/ RegisterFails \/ Fail \/ RecordLoad
    BY <2>1 DEF Enqueue, RegisterFails, Fail, RecordLoad, memory
  <2>2. CASE Register
    BY <2>2 DEF Register
  <2>3. CASE RecordSave \/ RecordFails
    BY <2>3 DEF RecordSave, RecordFails, Recorded, MemoryOK
  <2>4. CASE Wake \/ DependencyFailed \/ Wait \/ RejectionArrives \/ Stuck \/ Complete
    BY <2>4, <1>2
       DEF Wake, DependencyFailed, Wait, RejectionArrives, Stuck, Complete, GuardFires, Fatal
  <2>5. ASSUME NEW c \in Calls, Dispatch(c) \/ DispatchFails(c) PROVE Counting'
    BY <2>5, <1>3 DEF Dispatch, DispatchFails, memory
  <2>6. CASE ExitCompleted \/ ExitFailed
    BY <2>6, <1>2 DEF ExitCompleted, ExitFailed, ProcessEnds
  <2> QED
    BY <1>4, <2>1, <2>2, <2>3, <2>4, <2>5, <2>6 DEF Schedule
<1>5. ASSUME NEW c \in Calls, CallSettles(c) \/ DetachedAnswers(c) PROVE Counting'
  <2>1. CASE \E how \in {"none", "failed", "paused"} : WakeWith(how)
    <3>1. \/ loop' \in {"top", "failing"}
          \/ loop' = loop
      BY <2>1 DEF WakeWith, Fatal
    <3>2. UNCHANGED <<next, writes>>
      BY <1>5 DEF CallSettles, DetachedAnswers, TaskCompletes, TaskFails, TaskTimesOut,
                  ResolveLoad, ResolveSave, ResolveFails, memory
    <3> QED
      BY <3>1, <3>2, <1>2, <1>3
  <2>2. CASE UNCHANGED loop
    BY <1>5, <2>2, <1>3
       DEF CallSettles, DetachedAnswers, TaskCompletes, TaskFails, TaskTimesOut,
           ResolveLoad, ResolveSave, ResolveFails, memory
  <2> QED
    BY <1>5, <2>1, <2>2
       DEF CallSettles, DetachedAnswers, TaskCompletes, TaskFails, TaskTimesOut,
           ResolveLoad, ResolveSave, ResolveFails
<1>6. CASE Start \/ Tick \/ Resume
  BY <1>6, <1>2 DEF Start, Tick, Resume, GuardFires, Fatal
<1>7. CASE Resuming
  BY <1>7, <1>2, <1>3
     DEF Resuming, ResumeSkips, ResumeExecutes, ResumeEnds, ProcessEnds
<1>8. CASE Crash
  BY <1>8, <1>2 DEF Crash, ProcessEnds
<1>9. CASE UNCHANGED vars
  BY <1>9, <1>1 DEF vars
<1> QED
  BY <1>4, <1>5, <1>6, <1>7, <1>8, <1>9 DEF Next

LEMMA TypeStep == TypeInv /\ [Next]_vars => TypeInv'
BY FilesStep, MemoryStep, CallsStep, HistoryStep, CountingStep DEF TypeInv, TypeOK

\* Every variable keeps its type: in particular a recording failure writes the
\* mission's status at most twice, and nothing is dispatched that is no subtask.
THEOREM TypeCorrect == Spec => []TypeOK
<1>1. TypeInv => TypeOK
  BY DEF TypeInv
<1> QED
  BY <1>1, TypeInit, TypeStep, PTL DEF Spec

-----------------------------------------------------------------------------
(* Unfinished work.                                                         *)

\* Calls exist only between the registration of a mission and its exit: before
\* and during a resume there are none.
NoCalls ==
  loop \in {"idle", "enqueue", "register", "resuming"} =>
    \A c \in Calls : at[c] = "free"

\* What overwrites the runtime state was read when every unfinished subtask was
\* in it; and only a completed subtask has its loop resolved.
ReadsKeepWork ==
  /\ \A c \in Calls : at[c] = "saving" => registered \ done \subseteq read[c].loops
  /\ \A c \in Calls : at[c] \in {"loading", "saving"} => task[c] \in done
  /\ loop = "saving" => registered \ done \subseteq recordRead.loops

WorkInv == NoCalls /\ ReadsKeepWork /\ WorkPreserved

LEMMA WorkInit == Init => WorkInv
BY DEF Init, WorkInv, NoCalls, ReadsKeepWork, WorkPreserved

\* Only the scheduler moves, to where calls may exist and nothing has been read.
LEMMA WorkKept ==
  ASSUME WorkInv, UNCHANGED <<runtime, calls, registered, done, recordRead>>,
         \/ loop' = loop
         \/ loop' \notin {"idle", "enqueue", "register", "resuming", "saving"}
  PROVE  WorkInv'
BY DEF WorkInv, NoCalls, ReadsKeepWork, WorkPreserved, calls

LEMMA WorkEnds ==
  ASSUME WorkPreserved, ProcessEnds, UNCHANGED <<runtime, registered, done>>
  PROVE  WorkInv'
BY DEF WorkInv, NoCalls, ReadsKeepWork, WorkPreserved, ProcessEnds

LEMMA CallWork ==
  ASSUME TypeOK, WorkInv, NEW c \in Calls, CallSettles(c) \/ DetachedAnswers(c)
  PROVE  WorkInv'
<1> USE DEF WorkInv, TypeOK
<1>1. /\ at \in [Calls -> {"free", "running", "loading", "saving", "detached", "rejected"}]
      /\ task \in [Calls -> Subtasks \cup {0}]
      /\ read \in [Calls -> RuntimeFile]
      /\ runtime \in RuntimeFile
  BY DEF CallsOK, FilesOK
<1>2. Yields /\ UNCHANGED <<registered, recordRead>>
  BY DEF CallSettles, DetachedAnswers, TaskCompletes, TaskFails, TaskTimesOut, ResolveLoad,
         ResolveSave, ResolveFails, history, memory
<1>3. loop' = loop \/ loop' \in {"top", "failing"}
  BY DEF CallSettles, DetachedAnswers, TaskCompletes, TaskFails, TaskTimesOut, ResolveLoad,
         ResolveSave, ResolveFails, WakeWith, Fatal
<1>4. NoCalls'
  BY <1>2, <1>3 DEF NoCalls, Yields
<1>5. CASE TaskCompletes(c)
  <2>1. /\ at' = [at EXCEPT ![c] = "loading"]
        /\ done' = done \cup {task[c]}
        /\ UNCHANGED <<runtime, task, read, loop>>
    BY <1>5 DEF TaskCompletes, files
  <2>2. WorkPreserved' /\ ReadsKeepWork'
    BY <1>1, <1>2, <2>1 DEF WorkPreserved, ReadsKeepWork
  <2> QED
    BY <1>4, <2>2
<1>6. CASE TaskFails(c) \/ TaskTimesOut(c) \/ ResolveFails(c) \/ DetachedAnswers(c)
  <2>1. /\ \A d \in Calls : at'[d] \in {"loading", "saving"} => at[d] = at'[d] /\ d # c
        /\ \A d \in Calls : d # c => task'[d] = task[d] /\ read'[d] = read[d]
        /\ UNCHANGED <<runtime, done>>
    BY <1>6, <1>1
       DEF TaskFails, TaskTimesOut, ResolveFails, DetachedAnswers, Free, files, history
  <2>2. WorkPreserved' /\ ReadsKeepWork'
    BY <1>2, <1>3, <2>1 DEF WorkPreserved, ReadsKeepWork
  <2> QED
    BY <1>4, <2>2
<1>7. CASE ResolveLoad(c)
  <2>1. /\ at' = [at EXCEPT ![c] = "saving"]
        /\ read' = [read EXCEPT ![c] = runtime]
        /\ at[c] = "loading"
        /\ UNCHANGED <<runtime, task, done, loop>>
    BY <1>7 DEF ResolveLoad, Loaded, files, history
  <2>2. WorkPreserved' /\ ReadsKeepWork'
    BY <1>1, <1>2, <2>1 DEF WorkPreserved, ReadsKeepWork
  <2> QED
    BY <1>4, <2>2
<1>8. CASE ResolveSave(c)
  <2>1. /\ runtime'.loops = read[c].loops \ {task[c]}
        /\ at[c] = "saving"
        /\ done' = done
        /\ \A d \in Calls : at'[d] \in {"loading", "saving"} => at[d] = at'[d] /\ d # c
        /\ \A d \in Calls : d # c => task'[d] = task[d] /\ read'[d] = read[d]
    BY <1>8, <1>1 DEF ResolveSave, Resolved, RuntimeFile, Free, history
  <2>2. WorkPreserved' /\ ReadsKeepWork'
    BY <1>2, <1>3, <2>1 DEF WorkPreserved, ReadsKeepWork
  <2> QED
    BY <1>4, <2>2
<1> QED
  BY <1>5, <1>6, <1>7, <1>8 DEF CallSettles

LEMMA WorkStep == TypeInv /\ WorkInv /\ [Next]_vars => WorkInv'
<1> SUFFICES ASSUME TypeInv, WorkInv, [Next]_vars PROVE WorkInv'
  OBVIOUS
<1>1. runtime \in RuntimeFile /\ recordRead \in RuntimeFile /\ loop \in Loop
  BY DEF TypeInv, TypeOK, FilesOK, MemoryOK
<1>2. CASE Start
  BY <1>1, <1>2 DEF Start, RuntimeFile, memory, calls, WorkInv, NoCalls, ReadsKeepWork, WorkPreserved
<1>3. CASE Enqueue
  BY <1>3 DEF Enqueue, memory, calls, history, WorkInv, NoCalls, ReadsKeepWork, WorkPreserved
<1>4. CASE Register
  <2>1. /\ runtime'.loops = runtime.loops \cup {next}
        /\ registered' = registered \cup {next}
        /\ \A c \in Calls : at[c] = "free"
        /\ loop' \in {"top", "enqueue"}
        /\ UNCHANGED <<done, calls>>
    BY <1>1, <1>4 DEF Register, RuntimeFile, WorkInv, NoCalls
  <2> QED
    BY <2>1 DEF calls, WorkInv, NoCalls, ReadsKeepWork, WorkPreserved
<1>5. CASE RegisterFails
  BY <1>5, WorkKept DEF RegisterFails, files, history
<1>6. CASE \/ Wake \/ DependencyFailed \/ Wait \/ RejectionArrives \/ Stuck \/ Fail \/ Tick
  BY <1>6, WorkKept
     DEF Wake, DependencyFailed, Wait, RejectionArrives, Stuck, Fail, Tick, GuardFires, Fatal,
         files, history, memory
<1>7. ASSUME NEW c \in Calls, Dispatch(c) \/ DispatchFails(c) PROVE WorkInv'
  <2>1. /\ loop = "dispatch" /\ loop' = loop
        /\ UNCHANGED <<runtime, registered, done, recordRead, read>>
    BY <1>7 DEF Dispatch, DispatchFails, memory, history
  <2>2. /\ \A d \in Calls : at'[d] \in {"loading", "saving"} => at[d] = at'[d] /\ d # c
        /\ \A d \in Calls : d # c => task'[d] = task[d]
    BY <1>7 DEF Dispatch, DispatchFails, TypeInv, TypeOK, CallsOK
  <2> QED
    BY <2>1, <2>2 DEF WorkInv, NoCalls, ReadsKeepWork, WorkPreserved
<1>8. CASE Complete
  BY <1>1, <1>8 DEF Complete, RuntimeFile, memory, calls, history, WorkInv, NoCalls, ReadsKeepWork,
                    WorkPreserved
<1>9. CASE RecordLoad
  BY <1>9 DEF RecordLoad, Loaded, calls, history, WorkInv, NoCalls, ReadsKeepWork, WorkPreserved
<1>10. CASE RecordSave
  <2>1. /\ runtime'.loops = recordRead.loops
        /\ loop = "saving" /\ loop' \in {"exiting", "recording"}
        /\ UNCHANGED <<calls, registered, done>>
    BY <1>1, <1>10 DEF RecordSave, Recorded, RuntimeFile, history
  <2> QED
    BY <2>1 DEF calls, WorkInv, NoCalls, ReadsKeepWork, WorkPreserved
<1>11. CASE RecordFails
  BY <1>11, WorkKept DEF RecordFails, Recorded, files, history
<1>12. CASE ExitCompleted \/ ExitFailed \/ ResumeEnds \/ Crash
  BY <1>12, WorkEnds DEF ExitCompleted, ExitFailed, ResumeEnds, Crash, files, history, WorkInv
<1>13. CASE Resume
  BY <1>1, <1>13 DEF Resume, RuntimeFile, calls, WorkInv, NoCalls, ReadsKeepWork, WorkPreserved
<1>14. CASE ResumeSkips \/ ResumeExecutes
  BY <1>14 DEF ResumeSkips, ResumeExecutes, files, history, calls, WorkInv, NoCalls, ReadsKeepWork,
               WorkPreserved
<1>15. CASE UNCHANGED vars
  BY <1>15, WorkKept DEF vars, files, memory, calls, history
<1>16. CASE Schedule
  BY <1>16, <1>3, <1>4, <1>5, <1>6, <1>7, <1>8, <1>9, <1>10, <1>11, <1>12 DEF Schedule
<1> QED
  BY <1>2, <1>6, <1>12, <1>13, <1>14, <1>15, <1>16, CallWork DEF Next, Resuming, TypeInv

\* Unfinished work is durable: whatever overlapping updates, failures, timeouts and
\* crashes come in between, a subtask that was registered and has not completed is
\* in the open loops of the runtime state, where the next resume finds it.
THEOREM WorkPreservedHolds == Spec => []WorkPreserved
<1>1. WorkInv => WorkPreserved
  BY DEF WorkInv
<1> QED
  BY <1>1, TypeInit, TypeStep, WorkInit, WorkStep, PTL DEF Spec

-----------------------------------------------------------------------------
(* Dependencies, and what completed means.                                  *)

\* A call works on a subtask whose dependencies have completed, and what has
\* completed in this process has completed.
Supported ==
  /\ completed \subseteq done
  /\ \A c \in Calls :
       at[c] \in {"running", "loading", "saving", "detached"} =>
         DependsOn[task[c]] \subseteq completed

\* A subtask is taken up: it waits in the queue, runs, has completed or has failed.
TakenUp(s) ==
  \/ s \in completed
  \/ s \in failed
  \/ \E i \in DOMAIN queue : queue[i] = s
  \/ \E c \in Calls : at[c] = "running" /\ task[c] = s

\* While a mission is scheduled every subtask that was enqueued is taken up, a
\* failure is fatal as soon as the scheduler has heard of it, and no call has
\* timed out.
Accounted ==
  /\ loop \in {"idle", "resuming"} => next = 1
  /\ loop = "enqueue" => \A s \in Subtasks : s < next => TakenUp(s)
  /\ loop = "register" => \A s \in Subtasks : s <= next => TakenUp(s)
  /\ loop \in {"top", "dispatch", "waiting"} => \A s \in Subtasks : TakenUp(s)
  /\ loop \in {"idle", "enqueue", "register", "top", "waiting", "resuming"} => failed = {}
  /\ loop \in {"top", "waiting"} => Rejected = {}
  /\ loop = "dispatch" /\ failed # {} => Rejected # {}
  /\ loop \in {"top", "dispatch", "waiting"} => \A c \in Calls : at[c] # "detached"

ScheduleInv == Supported /\ Accounted /\ CompletedMeansAll

LEMMA ScheduleInit == Init => ScheduleInv
<1> SUFFICES ASSUME Init PROVE ScheduleInv
  OBVIOUS
<1>1. Supported /\ CompletedMeansAll
  BY DEF Init, Supported, CompletedMeansAll
<1>2. Accounted
  BY DEF Init, Accounted
<1> QED
  BY <1>1, <1>2 DEF ScheduleInv

LEMMA SupportedStep == TypeInv /\ Supported /\ [Next]_vars => Supported'
<1> SUFFICES ASSUME TypeInv, Supported, [Next]_vars PROVE Supported'
  OBVIOUS
<1>1. /\ at \in [Calls -> {"free", "running", "loading", "saving", "detached", "rejected"}]
      /\ task \in [Calls -> Subtasks \cup {0}]
  BY DEF TypeInv, TypeOK, CallsOK
<1> DEFINE Busy == {"running", "loading", "saving", "detached"}
<1>2. ASSUME completed' = completed, done \subseteq done', UNCHANGED <<at, task>>
      PROVE  Supported'
  BY <1>2 DEF Supported
<1>3. ASSUME NEW c \in Calls, CallSettles(c) \/ DetachedAnswers(c) PROVE Supported'
  <2>1. CASE TaskCompletes(c)
    BY <1>1, <2>1 DEF TaskCompletes, Supported
  <2>2. CASE ~TaskCompletes(c)
    <3>1. /\ \A d \in Calls : at'[d] \in Busy => at[d] \in Busy /\ task'[d] = task[d]
          /\ UNCHANGED <<completed, done>>
      <4>1. CASE TaskFails(c) \/ ResolveSave(c) \/ ResolveFails(c) \/ DetachedAnswers(c)
        BY <1>1, <4>1
           DEF TaskFails, ResolveSave, ResolveFails, DetachedAnswers, Free, history, memory
      <4>2. CASE TaskTimesOut(c) \/ ResolveLoad(c)
        BY <1>1, <4>2 DEF TaskTimesOut, ResolveLoad, history, memory
      <4> QED
        BY <1>3, <2>2, <4>1, <4>2 DEF CallSettles
    <3> QED
      BY <3>1 DEF Supported
  <2> QED
    BY <2>1, <2>2
<1>4. ASSUME NEW c \in Calls, Dispatch(c) \/ DispatchFails(c) PROVE Supported'
  <2>1. CASE Dispatch(c)
    <3>1. /\ at' = [at EXCEPT ![c] = "running"]
          /\ task' = [task EXCEPT ![c] = Head(queue)]
          /\ DependsOn[Head(queue)] \subseteq completed
          /\ UNCHANGED <<completed, done>>
      BY <2>1 DEF Dispatch, CanDispatch, Satisfied, memory, history
    <3> QED
      BY <1>1, <3>1 DEF Supported
  <2>2. CASE DispatchFails(c)
    BY <1>1, <2>2 DEF DispatchFails, Supported, history
  <2> QED
    BY <1>4, <2>1, <2>2
<1>5. CASE ProcessEnds
  BY <1>5 DEF ProcessEnds, Supported
<1>6. CASE Schedule
  <2>1. CASE \/ Enqueue \/ Register \/ RegisterFails \/ Wake \/ DependencyFailed \/ Wait
             \/ RejectionArrives \/ Stuck \/ Complete \/ Fail \/ RecordLoad \/ RecordSave
             \/ RecordFails
    BY <2>1, <1>2
       DEF Enqueue, Register, RegisterFails, Wake, DependencyFailed, Wait, RejectionArrives,
           Stuck, Complete, Fail, RecordLoad, RecordSave, RecordFails, calls, memory, history
  <2> QED
    BY <1>6, <2>1, <1>4, <1>5 DEF Schedule, ExitCompleted, ExitFailed
<1>7. CASE Start \/ Tick \/ Resume \/ ResumeSkips \/ ResumeExecutes \/ UNCHANGED vars
  BY <1>7, <1>2
     DEF Start, Tick, Resume, ResumeSkips, ResumeExecutes, vars, calls, memory, history
<1> QED
  BY <1>3, <1>5, <1>6, <1>7 DEF Next, Resuming, ResumeEnds, Crash

\* A step that leaves what takes up a subtask leaves it taken up.
LEMMA StaysTakenUp ==
  ASSUME NEW s \in Subtasks, TakenUp(s), completed \subseteq completed',
         failed \subseteq failed', queue' = queue,
         \A c \in Calls : at[c] = "running" =>
           \/ at'[c] = "running" /\ task'[c] = task[c]
           \/ task[c] \in completed' \cup failed'
  PROVE  TakenUp(s)'
BY DEF TakenUp

\* Where the scheduler is not while a mission is scheduled, nothing is accounted.
LEMMA AccountedElsewhere ==
  ASSUME loop' \in {"failing", "recording", "saving", "exiting", "completed"}
  PROVE  Accounted'
BY DEF Accounted

LEMMA AccountedEnds == ProcessEnds => Accounted'
BY DEF ProcessEnds, Accounted

\* The head of the queue is taken up anew, and what is behind it moves forward.
LEMMA HeadTaken ==
  ASSUME queue \in Seq(Subtasks), queue # <<>>, queue' = Tail(queue),
         NEW s \in Subtasks, TakenUp(s),
         completed' = completed, failed \subseteq failed',
         \A c \in Calls : at[c] = "running" => at'[c] = "running" /\ task'[c] = task[c],
         \/ Head(queue) \in failed'
         \/ \E c \in Calls : at'[c] = "running" /\ task'[c] = Head(queue)
  PROVE  TakenUp(s)'
<1>1. /\ Len(queue) \in Nat /\ DOMAIN queue = 1..Len(queue)
      /\ Tail(queue) \in Seq(Subtasks)
      /\ Len(Tail(queue)) = Len(queue) - 1
      /\ \A i \in 1..Len(Tail(queue)) : Tail(queue)[i] = queue[i + 1]
  BY LenProperties, HeadTailProperties
<1>2. DOMAIN Tail(queue) = 1..(Len(queue) - 1)
  BY <1>1, LenProperties
<1>3. CASE \E i \in DOMAIN queue : queue[i] = s
  <2>1. PICK i \in DOMAIN queue : queue[i] = s
    BY <1>3
  <2>2. CASE i = 1
    <3>1. Head(queue) = s
      BY <2>1, <2>2
    <3> QED
      BY <3>1 DEF TakenUp
  <2>3. CASE i # 1
    <3>1. i - 1 \in 1..(Len(queue) - 1) /\ Tail(queue)[i - 1] = queue[(i - 1) + 1]
      BY <1>1, <2>1, <2>3
    <3>2. i - 1 \in DOMAIN queue' /\ queue'[i - 1] = s
      BY <1>1, <1>2, <2>1, <3>1
    <3> QED
      BY <3>2 DEF TakenUp
  <2> QED
    BY <2>2, <2>3
<1>4. CASE ~\E i \in DOMAIN queue : queue[i] = s
  BY <1>4 DEF TakenUp
<1> QED
  BY <1>3, <1>4

LEMMA DispatchAccounted ==
  ASSUME TypeOK, Accounted, NEW c \in Calls, Dispatch(c) \/ DispatchFails(c)
  PROVE  Accounted'
<1> USE DEF TypeOK
<1>1. /\ loop = "dispatch" /\ loop' = "dispatch" /\ queue # <<>> /\ queue' = Tail(queue)
      /\ completed' = completed /\ at[c] = "free"
  BY DEF Dispatch, DispatchFails, FirstFree, memory
<1>2. at \in [Calls -> {"free", "running", "loading", "saving", "detached", "rejected"}]
      /\ task \in [Calls -> Subtasks \cup {0}] /\ queue \in Seq(Subtasks)
  BY DEF CallsOK, FilesOK
<1>3. /\ task' = [task EXCEPT ![c] = Head(queue)]
      /\ \/ at' = [at EXCEPT ![c] = "running"] /\ failed' = failed
         \/ at' = [at EXCEPT ![c] = "rejected"] /\ failed' = failed \cup {Head(queue)}
  BY DEF Dispatch, DispatchFails, memory
<1>4. /\ failed \subseteq failed'
      /\ \A d \in Calls : at[d] = "running" => at'[d] = "running" /\ task'[d] = task[d]
      /\ \/ Head(queue) \in failed'
         \/ \E d \in Calls : at'[d] = "running" /\ task'[d] = Head(queue)
  BY <1>1, <1>2, <1>3
<1>5. ASSUME NEW s \in Subtasks PROVE TakenUp(s)'
  <2>1. TakenUp(s)
    BY <1>1 DEF Accounted
  <2> QED
    BY <1>1, <1>2, <1>4, <2>1, HeadTaken
<1>6. failed' # {} => Rejected' # {}
  <2>1. CASE at' = [at EXCEPT ![c] = "running"] /\ failed' = failed
    BY <1>1, <1>2, <2>1 DEF Accounted, Rejected
  <2>2. CASE at' = [at EXCEPT ![c] = "rejected"]
    BY <1>2, <2>2 DEF Rejected
  <2> QED
    BY <1>3, <2>1, <2>2
<1>7. \A d \in Calls : at'[d] # "detached"
  BY <1>1, <1>2, <1>3 DEF Accounted
<1> QED
  BY <1>1, <1>5, <1>6, <1>7 DEF Accounted

LEMMA EnqueueAccounted == TypeInv /\ Accounted /\ Enqueue => Accounted'
<1> SUFFICES ASSUME TypeInv, Accounted, Enqueue PROVE Accounted'
  OBVIOUS
<1> USE DEF TypeInv, TypeOK
<1>1. /\ loop = "enqueue" /\ loop' = "register" /\ queue' = Append(queue, next)
      /\ UNCHANGED <<next, completed, failed, at, task>>
  BY DEF Enqueue, memory, calls
<1>2. next \in Subtasks /\ queue \in Seq(Subtasks) /\ NumSubtasks \in Nat
  BY PlanAssumption DEF Enqueue, MemoryOK, FilesOK, Subtasks
<1>3. /\ Len(queue) \in Nat /\ DOMAIN queue = 1..Len(queue)
      /\ DOMAIN Append(queue, next) = 1..(Len(queue) + 1)
      /\ \A i \in 1..Len(queue) : Append(queue, next)[i] = queue[i]
      /\ Append(queue, next)[Len(queue) + 1] = next
  BY <1>2, LenProperties, AppendProperties
<1>4. ASSUME NEW s \in Subtasks, s <= next PROVE TakenUp(s)'
  <2>1. CASE s = next
    <3>1. Len(queue) + 1 \in DOMAIN queue' /\ queue'[Len(queue) + 1] = s
      BY <1>1, <1>3, <2>1
    <3> QED
      BY <3>1 DEF TakenUp
  <2>2. CASE s # next
    <3>1. TakenUp(s)
      BY <1>1, <1>2, <1>4, <2>2 DEF Accounted, Subtasks
    <3>2. \A i \in DOMAIN queue : i \in DOMAIN queue' /\ queue'[i] = queue[i]
      BY <1>1, <1>3
    <3> QED
      BY <1>1, <3>1, <3>2 DEF TakenUp
  <2> QED
    BY <2>1, <2>2
<1> QED
  BY <1>1, <1>4 DEF Accounted

LEMMA CallAccounted ==
  ASSUME TypeOK, Accounted, NEW c \in Calls, CallSettles(c) \/ DetachedAnswers(c)
  PROVE  Accounted'
<1> USE DEF TypeOK
<1>1. at \in [Calls -> {"free", "running", "loading", "saving", "detached", "rejected"}]
      /\ task \in [Calls -> Subtasks \cup {0}]
  BY DEF CallsOK
<1>2. loop \in {"waiting", "recording", "saving", "exiting"}
  BY DEF CallSettles, DetachedAnswers, TaskCompletes, TaskFails, TaskTimesOut, ResolveLoad,
         ResolveSave, ResolveFails, Yields
<1>3. CASE loop # "waiting"
  <2>1. loop' = loop
    BY <1>3 DEF CallSettles, DetachedAnswers, TaskCompletes, TaskFails, TaskTimesOut,
                ResolveLoad, ResolveSave, ResolveFails, WakeWith
  <2> QED
    BY <1>2, <1>3, <2>1, AccountedElsewhere
<1>4. CASE loop = "waiting"
  <2>1. CASE TaskFails(c) \/ TaskTimesOut(c) \/ ResolveFails(c)
    <3>1. loop' = "failing"
      BY <1>4, <2>1 DEF TaskFails, TaskTimesOut, ResolveFails, WakeWith, Fatal
    <3> QED
      BY <3>1, AccountedElsewhere
  <2>2. CASE TaskCompletes(c) \/ ResolveLoad(c) \/ ResolveSave(c) \/ DetachedAnswers(c)
    <3>1. /\ loop' \in {"waiting", "top"}
          /\ completed \subseteq completed' /\ failed' = failed /\ queue' = queue
      BY <1>4, <2>2
         DEF TaskCompletes, ResolveLoad, ResolveSave, DetachedAnswers, WakeWith, files, memory
    <3>2. /\ \A d \in Calls : at[d] = "running" =>
               \/ at'[d] = "running" /\ task'[d] = task[d]
               \/ task[d] \in completed' \cup failed'
          /\ \A d \in Calls : at'[d] \in {"rejected", "detached"} => at'[d] = at[d]
      <4>1. CASE TaskCompletes(c)
        BY <1>1, <4>1 DEF TaskCompletes
      <4>2. CASE ResolveLoad(c)
        BY <1>1, <4>2 DEF ResolveLoad
      <4>3. CASE ResolveSave(c) \/ DetachedAnswers(c)
        BY <1>1, <4>3 DEF ResolveSave, DetachedAnswers, Free
      <4> QED
        BY <2>2, <4>1, <4>2, <4>3
    <3>3. ASSUME NEW s \in Subtasks PROVE TakenUp(s)'
      <4>1. TakenUp(s)
        BY <1>4 DEF Accounted
      <4> QED
        BY <3>1, <3>2, <4>1, StaysTakenUp
    <3>4. failed' = {} /\ Rejected' = {} /\ \A d \in Calls : at'[d] # "detached"
      BY <1>4, <3>1, <3>2 DEF Accounted, Rejected
    <3> QED
      BY <3>1, <3>3, <3>4 DEF Accounted
  <2> QED
    BY <2>1, <2>2 DEF CallSettles
<1> QED
  BY <1>3, <1>4

LEMMA AccountedStep == TypeInv /\ NoCalls /\ Accounted /\ [Next]_vars => Accounted'
<1> SUFFICES ASSUME TypeInv, NoCalls, Accounted, [Next]_vars PROVE Accounted'
  OBVIOUS
<1>1. ASSUME UNCHANGED <<queue, completed, failed, calls>>
      PROVE  /\ \A s \in Subtasks : TakenUp(s)' = TakenUp(s)
             /\ Rejected' = Rejected
             /\ \A c \in Calls : at'[c] = at[c]
  BY <1>1 DEF TakenUp, Rejected, calls
<1>2. CASE Start
  <2>1. UNCHANGED <<queue, completed, failed, next, calls>> /\ loop = "idle" /\ loop' = "enqueue"
    BY <1>2 DEF Start, memory
  <2>2. next' = 1 /\ failed' = {}
    BY <2>1 DEF Accounted
  <2> QED
    BY <2>1, <2>2 DEF Accounted, Subtasks
<1>3. CASE Register
  <2>1. /\ UNCHANGED <<queue, completed, failed, calls>> /\ loop = "register"
        /\ next' = next + 1
        /\ loop' = IF next = NumSubtasks THEN "top" ELSE "enqueue"
    BY <1>3 DEF Register
  <2>2. next \in Nat /\ \A s \in Subtasks : s \in Nat /\ s <= NumSubtasks
    BY PlanAssumption DEF TypeInv, TypeOK, MemoryOK, Subtasks
  <2>3. \A s \in Subtasks : s <= next => TakenUp(s)'
    BY <1>1, <2>1 DEF Accounted
  <2>4. failed' = {} /\ Rejected' = {} /\ \A c \in Calls : at'[c] # "detached"
    BY <1>1, <2>1 DEF Accounted, NoCalls, Rejected
  <2>5. CASE next = NumSubtasks
    BY <2>1, <2>2, <2>3, <2>4, <2>5 DEF Accounted
  <2>6. CASE next # NumSubtasks
    <3>1. loop' = "enqueue" /\ \A s \in Subtasks : s < next' => s <= next
      BY <2>1, <2>2, <2>6
    <3> QED
      BY <2>3, <2>4, <3>1 DEF Accounted
  <2> QED
    BY <2>5, <2>6
<1>4. CASE Wake \/ Tick
  <2>1. /\ UNCHANGED <<queue, completed, failed, calls>> /\ loop \in {"top", "waiting"}
        /\ loop' \in {"dispatch", "top", "failing"}
    BY <1>4 DEF Wake, Tick, GuardFires, Fatal, files
  <2> QED
    BY <1>1, <2>1 DEF Accounted
<1>5. CASE Wait
  <2>1. UNCHANGED <<queue, completed, failed, calls>> /\ Rejected = {}
        /\ loop = "dispatch" /\ loop' = "waiting"
    BY <1>5 DEF Wait, files, memory
  <2> QED
    BY <1>1, <2>1 DEF Accounted
<1>6. CASE \/ RegisterFails \/ DependencyFailed \/ RejectionArrives \/ Stuck \/ Complete
           \/ Fail \/ RecordLoad \/ RecordSave \/ RecordFails
  <2>1. loop' \in {"failing", "recording", "saving", "exiting", "completed"}
    BY <1>6 DEF RegisterFails, DependencyFailed, RejectionArrives, Stuck, Complete, Fail,
                RecordLoad, RecordSave, RecordFails, Recorded, GuardFires, Fatal
  <2> QED
    BY <2>1, AccountedElsewhere
<1>7. CASE Schedule
  BY <1>7, <1>3, <1>4, <1>5, <1>6, EnqueueAccounted, DispatchAccounted, AccountedEnds
     DEF Schedule, ExitCompleted, ExitFailed, TypeInv
<1>8. CASE Resume \/ ResumeSkips \/ ResumeExecutes
  <2>1. loop \in {"idle", "resuming"} /\ loop' = "resuming" /\ UNCHANGED <<next, failed>>
    BY <1>8 DEF Resume, ResumeSkips, ResumeExecutes
  <2> QED
    BY <2>1 DEF Accounted
<1>9. CASE UNCHANGED vars
  <2>1. UNCHANGED <<queue, completed, failed, next, loop, calls>>
    BY <1>9 DEF vars, files, memory
  <2> QED
    BY <1>1, <2>1 DEF Accounted
<1> QED
  BY <1>2, <1>4, <1>7, <1>8, <1>9, CallAccounted, AccountedEnds
     DEF Next, Resuming, ResumeEnds, Crash, TypeInv

LEMMA CompletedStep ==
  TypeInv /\ Accounted /\ CompletedMeansAll /\ [Next]_vars => CompletedMeansAll'
<1> SUFFICES ASSUME TypeInv, Accounted, CompletedMeansAll, [Next]_vars, loop' = "completed"
             PROVE  completed' = Subtasks /\ failed' = {} /\ \A c \in Calls : at'[c] = "free"
  BY DEF CompletedMeansAll
<1>1. CASE Complete
  <2>1. /\ loop = "dispatch" /\ queue = <<>> /\ InFlight = {}
        /\ UNCHANGED <<completed, failed, at>>
    BY <1>1 DEF Complete, memory, calls
  <2>2. Rejected = {} /\ failed = {}
    BY <2>1 DEF InFlight, Accounted
  <2>3. \A c \in Calls : at[c] = "free"
    BY <2>1 DEF InFlight, Counted, Rejected, Accounted, TypeInv, TypeOK, CallsOK
  <2>4. \A s \in Subtasks : s \in completed
    BY <2>1, <2>2, <2>3 DEF Accounted, TakenUp
  <2> QED
    BY <2>1, <2>2, <2>3, <2>4 DEF TypeInv, TypeOK, MemoryOK
<1>2. CASE UNCHANGED vars
  BY <1>2 DEF vars, memory, calls, CompletedMeansAll
<1>3. ASSUME Next, ~Complete PROVE FALSE
  <2>1. CASE Schedule
    BY <1>3, <2>1
       DEF Schedule, Enqueue, Register, RegisterFails, Wake, DependencyFailed, Wait,
           RejectionArrives, Stuck, Dispatch, DispatchFails, Fail, RecordLoad, RecordSave,
           RecordFails, Recorded, ExitCompleted, ExitFailed, ProcessEnds, GuardFires, Fatal,
           memory
  <2>2. ASSUME NEW c \in Calls, CallSettles(c) \/ DetachedAnswers(c) PROVE FALSE
    BY <2>2 DEF CallSettles, DetachedAnswers, TaskCompletes, TaskFails, TaskTimesOut,
                ResolveLoad, ResolveSave, ResolveFails, WakeWith, Fatal, Yields
  <2>3. CASE Start \/ Tick \/ Resume \/ Resuming \/ Crash
    BY <2>3 DEF Start, Tick, Resume, Resuming, ResumeSkips, ResumeExecutes, ResumeEnds, Crash,
                ProcessEnds, GuardFires, Fatal
  <2> QED
    BY <1>3, <2>1, <2>2, <2>3 DEF Next
<1> QED
  BY <1>1, <1>2, <1>3

LEMMA ScheduleStep == TypeInv /\ WorkInv /\ ScheduleInv /\ [Next]_vars => ScheduleInv'
BY SupportedStep, AccountedStep, CompletedStep DEF ScheduleInv, WorkInv

\* A mission is reported as completed only when every one of its subtasks has
\* completed in it, none has failed, and no call is left behind.
THEOREM CompletedMeansAllHolds == Spec => []CompletedMeansAll
<1>1. ScheduleInv => CompletedMeansAll
  BY DEF ScheduleInv
<1> QED
  BY <1>1, TypeInit, TypeStep, WorkInit, WorkStep, ScheduleInit, ScheduleStep, PTL DEF Spec

\* In a mission a subtask completes after all those it depends on, in whatever
\* order the calls settle.
THEOREM DependenciesFirstHolds == Spec => DependenciesFirst
<1>1. TypeInv /\ Supported /\ [Next]_vars =>
        [\A s \in done' \ done : loop # "resuming" => DependsOn[s] \subseteq done]_vars
  <2> SUFFICES ASSUME TypeInv, Supported, Next, NEW s \in done' \ done, loop # "resuming"
               PROVE  DependsOn[s] \subseteq done
    BY DEF vars, history
  <2>1. ASSUME NEW c \in Calls, TaskCompletes(c) PROVE DependsOn[s] \subseteq done
    BY <2>1 DEF TaskCompletes, Supported
  <2>2. ASSUME ~\E c \in Calls : TaskCompletes(c) PROVE done' = done
    <3>1. CASE Schedule
      BY <3>1
         DEF Schedule, Enqueue, Register, RegisterFails, Wake, DependencyFailed, Wait,
             RejectionArrives, Stuck, Complete, Dispatch, DispatchFails, Fail, RecordLoad,
             RecordSave, RecordFails, ExitCompleted, ExitFailed, history
    <3>2. ASSUME NEW c \in Calls, CallSettles(c) \/ DetachedAnswers(c) PROVE done' = done
      BY <2>2, <3>2 DEF CallSettles, DetachedAnswers, TaskFails, TaskTimesOut, ResolveLoad,
                        ResolveSave, ResolveFails, history
    <3>3. CASE Start \/ Tick \/ Resume \/ Resuming \/ Crash
      BY <3>3 DEF Start, Tick, Resume, Resuming, ResumeSkips, ResumeExecutes, ResumeEnds,
                  Crash, history
    <3> QED
      BY <3>1, <3>2, <3>3 DEF Next
  <2> QED
    BY <2>1, <2>2
<1>2. ScheduleInv => Supported
  BY DEF ScheduleInv
<1> QED
  BY <1>1, <1>2, TypeInit, TypeStep, WorkInit, WorkStep, ScheduleInit, ScheduleStep, PTL
     DEF Spec, DependenciesFirst

-----------------------------------------------------------------------------
(* Lane limits.                                                             *)

\* The calls of a lane that go on, those that have timed out included.
Occupied(l) == {c \in Calls : at[c] \notin {"free", "rejected"} /\ LaneOf[task[c]] = l}

LEMMA OccupiedFinite ==
  ASSUME NEW l
  PROVE  IsFiniteSet(Occupied(l)) /\ Cardinality(Occupied(l)) \in Nat
<1>1. IsFiniteSet(Calls)
  BY SettingsAssumption, FS_Interval DEF Calls
<1>2. Occupied(l) \subseteq Calls
  BY DEF Occupied
<1>3. IsFiniteSet(Occupied(l))
  BY <1>1, <1>2, FS_Subset
<1> QED
  BY <1>3, FS_CardinalityType

\* A lane that takes no call keeps its bound.
LEMMA OccupiedShrinks ==
  ASSUME NEW l \in Lanes, Cardinality(Occupied(l)) <= MaxInflight[l],
         Occupied(l)' \subseteq Occupied(l)
  PROVE  Cardinality(Occupied(l)') <= MaxInflight[l]
<1>1. IsFiniteSet(Occupied(l)) /\ Cardinality(Occupied(l)) \in Nat
  BY OccupiedFinite
<1>2. IsFiniteSet(Occupied(l)') /\ Cardinality(Occupied(l)') <= Cardinality(Occupied(l))
  BY <1>1, FS_Subset
<1>3. Cardinality(Occupied(l)') \in Nat /\ MaxInflight[l] \in Nat
  BY <1>2, FS_CardinalityType, PlanAssumption
<1> QED
  BY <1>1, <1>2, <1>3

LimitsInRange == \A l \in Lanes : limit[l] \in MinInflight[l]..MaxInflight[l]
LanesBounded  == \A l \in Lanes : Cardinality(Occupied(l)) <= MaxInflight[l]
BoundInv == LimitsInRange /\ LanesBounded

LEMMA BoundInit == Init => BoundInv
<1> SUFFICES ASSUME Init PROVE BoundInv
  OBVIOUS
<1>1. LimitsInRange
  BY PlanAssumption DEF Init, LimitsInRange
<1>2. ASSUME NEW l \in Lanes PROVE Cardinality(Occupied(l)) <= MaxInflight[l]
  <2>1. Occupied(l) = {}
    BY DEF Init, Occupied
  <2> QED
    BY <2>1, FS_EmptySet, PlanAssumption
<1> QED
  BY <1>1, <1>2 DEF BoundInv, LanesBounded

LEMMA LimitsStep == LimitsInRange /\ [Next]_vars => LimitsInRange'
<1> SUFFICES ASSUME LimitsInRange, [Next]_vars PROVE LimitsInRange'
  OBVIOUS
<1>1. CASE UNCHANGED limit
  BY <1>1 DEF LimitsInRange
<1>2. CASE ProcessEnds
  BY <1>2, PlanAssumption DEF ProcessEnds, LimitsInRange
<1>3. CASE ScaleLanes
  BY <1>3, ScaledBounds DEF ScaleLanes, LimitsInRange
<1>4. CASE Schedule
  BY <1>4, <1>1, <1>2, <1>3
     DEF Schedule, Enqueue, Register, RegisterFails, Wake, DependencyFailed, Wait,
         RejectionArrives, Stuck, Complete, Dispatch, DispatchFails, Fail, RecordLoad,
         RecordSave, RecordFails, ExitCompleted, ExitFailed, memory
<1>5. ASSUME NEW c \in Calls, CallSettles(c) \/ DetachedAnswers(c) PROVE LimitsInRange'
  BY <1>5, <1>1 DEF CallSettles, DetachedAnswers, TaskCompletes, TaskFails, TaskTimesOut,
                    ResolveLoad, ResolveSave, ResolveFails, memory
<1>6. CASE Start \/ Tick \/ Resume \/ Resuming \/ Crash \/ UNCHANGED vars
  BY <1>6, <1>1, <1>2, <1>3
     DEF Start, Tick, Resume, Resuming, ResumeSkips, ResumeExecutes, ResumeEnds, Crash, vars,
         memory
<1> QED
  BY <1>4, <1>5, <1>6 DEF Next

\* A dispatch adds one call to a lane that was below its limit: while a mission is
\* scheduled no call of the lane has timed out, so the lane's counter counts all.
LEMMA DispatchBounded ==
  ASSUME TypeInv, Accounted, BoundInv, NEW c \in Calls, Dispatch(c)
  PROVE  LanesBounded'
<1> SUFFICES ASSUME NEW l \in Lanes PROVE Cardinality(Occupied(l)') <= MaxInflight[l]
  BY DEF LanesBounded
<1> USE DEF TypeInv, TypeOK
<1>1. /\ at \in [Calls -> {"free", "running", "loading", "saving", "detached", "rejected"}]
      /\ task \in [Calls -> Subtasks \cup {0}]
  BY DEF CallsOK
<1>2. /\ loop = "dispatch" /\ at[c] = "free"
      /\ at' = [at EXCEPT ![c] = "running"]
      /\ task' = [task EXCEPT ![c] = Head(queue)]
      /\ LaneInflight(LaneOf[Head(queue)]) < limit[LaneOf[Head(queue)]]
  BY DEF Dispatch, FirstFree, CanDispatch
<1>3. CASE LaneOf[Head(queue)] # l
  <2>1. Occupied(l)' \subseteq Occupied(l)
    BY <1>1, <1>2, <1>3 DEF Occupied
  <2> QED
    BY <2>1, OccupiedShrinks DEF BoundInv, LanesBounded
<1>4. CASE LaneOf[Head(queue)] = l
  <2>1. LaneInflight(l) = Cardinality(Occupied(l))
    <3>1. \A d \in Calls : at[d] # "detached"
      BY <1>2 DEF Accounted
    <3>2. {d \in Counted : LaneOf[task[d]] = l} = Occupied(l)
      BY <1>1, <3>1 DEF Counted, Occupied
    <3> QED
      BY <3>2 DEF LaneInflight
  <2>2. Occupied(l)' = Occupied(l) \cup {c} /\ c \notin Occupied(l)
    BY <1>1, <1>2, <1>4 DEF Occupied
  <2>3. Cardinality(Occupied(l)') = Cardinality(Occupied(l)) + 1
    BY <2>2, OccupiedFinite, FS_AddElement
  <2>4. /\ limit[l] \in Nat /\ limit[l] <= MaxInflight[l] /\ MaxInflight[l] \in Nat
    BY PlanAssumption DEF BoundInv, LimitsInRange
  <2>5. Cardinality(Occupied(l)) \in Nat /\ Cardinality(Occupied(l)) < limit[l]
    BY <1>2, <1>4, <2>1, OccupiedFinite
  <2> QED
    BY <2>3, <2>4, <2>5
<1> QED
  BY <1>3, <1>4

LEMMA LanesStep == TypeInv /\ Accounted /\ BoundInv /\ [Next]_vars => LanesBounded'
<1> SUFFICES ASSUME TypeInv, Accounted, BoundInv, [Next]_vars PROVE LanesBounded'
  OBVIOUS
<1>1. /\ at \in [Calls -> {"free", "running", "loading", "saving", "detached", "rejected"}]
      /\ task \in [Calls -> Subtasks \cup {0}]
  BY DEF TypeInv, TypeOK, CallsOK
<1>2. ASSUME \A c \in Calls : at'[c] \notin {"free", "rejected"} =>
               at[c] \notin {"free", "rejected"} /\ task'[c] = task[c]
      PROVE  LanesBounded'
  <2>1. ASSUME NEW l \in Lanes PROVE Occupied(l)' \subseteq Occupied(l)
    BY <1>2 DEF Occupied
  <2> QED
    BY <2>1, OccupiedShrinks DEF BoundInv, LanesBounded
<1>3. CASE UNCHANGED calls
  BY <1>2, <1>3 DEF calls
<1>4. CASE ProcessEnds
  BY <1>2, <1>4 DEF ProcessEnds
<1>5. ASSUME NEW c \in Calls, CallSettles(c) \/ DetachedAnswers(c) PROVE LanesBounded'
  <2>1. CASE TaskCompletes(c) \/ TaskTimesOut(c) \/ ResolveLoad(c)
    BY <1>1, <1>2, <2>1 DEF TaskCompletes, TaskTimesOut, ResolveLoad
  <2>2. CASE TaskFails(c) \/ ResolveSave(c) \/ ResolveFails(c) \/ DetachedAnswers(c)
    BY <1>1, <1>2, <2>2 DEF TaskFails, ResolveSave, ResolveFails, DetachedAnswers, Free
  <2> QED
    BY <1>5, <2>1, <2>2 DEF CallSettles
<1>6. ASSUME NEW c \in Calls, DispatchFails(c) PROVE LanesBounded'
  BY <1>1, <1>2, <1>6 DEF DispatchFails, FirstFree
<1>7. CASE Schedule
  <2>1. CASE \/ Enqueue \/ Register \/ RegisterFails \/ Wake \/ DependencyFailed \/ Wait
             \/ RejectionArrives \/ Stuck \/ Complete \/ Fail \/ RecordLoad \/ RecordSave
             \/ RecordFails
    BY <2>1, <1>3
       DEF Enqueue, Register, RegisterFails, Wake, DependencyFailed, Wait, RejectionArrives,
           Stuck, Complete, Fail, RecordLoad, RecordSave, RecordFails
  <2> QED
    BY <1>7, <2>1, <1>4, <1>6, DispatchBounded DEF Schedule, ExitCompleted, ExitFailed
<1>8. CASE Start \/ Tick \/ Resume \/ ResumeSkips \/ ResumeExecutes \/ UNCHANGED vars
  BY <1>8, <1>3 DEF Start, Tick, Resume, ResumeSkips, ResumeExecutes, vars
<1> QED
  BY <1>4, <1>5, <1>7, <1>8 DEF Next, Resuming, ResumeEnds, Crash

\* A lane never works on more than its max_inflight, whatever its limit does while
\* calls are in flight, the dispatches that have timed out included.
THEOREM BoundedConcurrencyHolds == Spec => []BoundedConcurrency
<1>1. BoundInv => BoundedConcurrency
  BY DEF BoundInv, LimitsInRange, LanesBounded, Occupied, BoundedConcurrency
<1>2. TypeInv /\ ScheduleInv /\ BoundInv /\ [Next]_vars => BoundInv'
  BY LimitsStep, LanesStep DEF BoundInv, ScheduleInv
<1> QED
  BY <1>1, <1>2, TypeInit, TypeStep, WorkInit, WorkStep, ScheduleInit, ScheduleStep, BoundInit,
     PTL DEF Spec

-----------------------------------------------------------------------------
(* A mission on an empty session never waits for nothing.                   *)

Ascending(q) == \A i, j \in DOMAIN q : i < j => q[i] <= q[j]
Before(q, n) == \A i \in DOMAIN q : q[i] < n

\* The first mission of a session enqueues its subtasks in their order, and what
\* it has not dispatched stays in that order.
OrderInv ==
  /\ runs = 0 /\ resumes = 0 => queue = <<>> /\ loop = "idle" /\ fatal = "none"
  /\ runs = 1 /\ resumes = 0 =>
       /\ Ascending(queue) /\ fatal # "deadlock"
       /\ loop = "enqueue" => Before(queue, next)
       /\ loop = "register" => Before(queue, next + 1)

LEMMA OrderInit == Init => OrderInv
BY DEF Init, OrderInv

LEMMA OrderedAppend ==
  ASSUME NEW q \in Seq(Subtasks), NEW n \in Subtasks, Ascending(q), Before(q, n)
  PROVE  Ascending(Append(q, n)) /\ Before(Append(q, n), n + 1)
<1>1. /\ Len(q) \in Nat /\ DOMAIN q = 1..Len(q)
      /\ DOMAIN Append(q, n) = 1..(Len(q) + 1)
      /\ \A i \in 1..Len(q) : Append(q, n)[i] = q[i]
      /\ Append(q, n)[Len(q) + 1] = n
  BY LenProperties, AppendProperties
<1>2. \A i \in 1..Len(q) : q[i] \in Nat /\ q[i] < n
  <2>1. \A i \in 1..Len(q) : q[i] \in Subtasks
    BY <1>1, ElementOfSeq
  <2>2. Subtasks \subseteq Nat
    BY PlanAssumption DEF Subtasks
  <2>3. \A i \in 1..Len(q) : q[i] < n
    BY <1>1 DEF Before
  <2> QED
    BY <2>1, <2>2, <2>3
<1>3. n \in Nat
  BY PlanAssumption DEF Subtasks
<1>4. Before(Append(q, n), n + 1)
  BY <1>1, <1>2, <1>3 DEF Before
<1>5. ASSUME NEW i \in 1..(Len(q) + 1), NEW j \in 1..(Len(q) + 1), i < j
      PROVE  Append(q, n)[i] <= Append(q, n)[j]
  <2>1. i \in 1..Len(q)
    BY <1>1, <1>5
  <2>2. CASE j \in 1..Len(q)
    BY <1>1, <1>5, <2>1, <2>2 DEF Ascending
  <2>3. CASE j = Len(q) + 1
    BY <1>1, <1>2, <1>3, <2>1, <2>3
  <2> QED
    BY <1>1, <2>2, <2>3
<1>6. Ascending(Append(q, n))
  BY <1>1, <1>5 DEF Ascending
<1> QED
  BY <1>4, <1>6

LEMMA OrderedTail ==
  ASSUME NEW q \in Seq(Subtasks), q # <<>>, Ascending(q)
  PROVE  Ascending(Tail(q))
<1>1. /\ Len(q) \in Nat /\ DOMAIN q = 1..Len(q) /\ Len(q) > 0
      /\ DOMAIN Tail(q) = 1..(Len(q) - 1)
      /\ \A i \in 1..(Len(q) - 1) : Tail(q)[i] = q[i + 1]
  <2>1. Len(q) \in Nat /\ DOMAIN q = 1..Len(q) /\ Len(q) > 0
    BY LenProperties, EmptySeq
  <2>2. /\ Tail(q) \in Seq(Subtasks) /\ Len(Tail(q)) = Len(q) - 1
        /\ \A i \in 1..Len(Tail(q)) : Tail(q)[i] = q[i + 1]
    BY HeadTailProperties
  <2> QED
    BY <2>1, <2>2, LenProperties
<1> QED
  BY <1>1 DEF Ascending

\* The head of an ordered queue waits for nothing that is in the queue.
LEMMA HeadIsReady ==
  ASSUME TypeInv, Accounted, Ascending(queue), loop = "dispatch", Blocked, InFlight = {}
  PROVE  FALSE
<1> USE DEF TypeInv, TypeOK
<1> DEFINE h == Head(queue)
<1>1. /\ queue \in Seq(Subtasks) /\ queue # <<>> /\ Len(queue) \in Nat
      /\ DOMAIN queue = 1..Len(queue) /\ Len(queue) > 0 /\ h = queue[1]
      /\ h \in Subtasks
  <2>1. queue \in Seq(Subtasks) /\ queue # <<>>
    BY DEF FilesOK, Blocked
  <2> QED
    BY <2>1, LenProperties, EmptySeq, HeadTailProperties
<1>2. Counted = {} /\ Rejected = {}
  BY DEF InFlight
<1>3. LaneInflight(LaneOf[h]) = 0
  <2>1. {c \in Counted : LaneOf[task[c]] = LaneOf[h]} = {}
    BY <1>2
  <2> QED
    BY <2>1, FS_EmptySet DEF LaneInflight
<1>4. limit[LaneOf[h]] > 0
  BY <1>1, PlanAssumption DEF MemoryOK
<1>5. PICK d \in DependsOn[h] : d \notin completed
  BY <1>3, <1>4 DEF Blocked, CanDispatch, Satisfied
<1>6. d \in Subtasks /\ d < h /\ d \notin failed
  BY <1>1, <1>5, PlanAssumption DEF Blocked, Doomed
<1>7. PICK i \in DOMAIN queue : queue[i] = d
  BY <1>2, <1>5, <1>6 DEF Accounted, TakenUp, Counted
<1>8. h <= d
  <2>1. CASE i = 1
    BY <1>1, <1>7, <2>1, PlanAssumption DEF Subtasks
  <2>2. CASE i # 1
    <3>1. 1 \in DOMAIN queue /\ 1 < i
      BY <1>1, <1>7, <2>2
    <3> QED
      BY <1>1, <1>7, <3>1 DEF Ascending
  <2> QED
    BY <2>1, <2>2
<1>9. h \in Nat /\ d \in Nat
  <2>1. Subtasks \subseteq Nat
    BY PlanAssumption DEF Subtasks
  <2> QED
    BY <1>1, <1>6, <2>1
<1> HIDE DEF h
<1> QED
  BY <1>6, <1>8, <1>9

LEMMA OrderStep == TypeInv /\ Accounted /\ OrderInv /\ [Next]_vars => OrderInv'
<1> SUFFICES ASSUME TypeInv, Accounted, OrderInv, [Next]_vars PROVE OrderInv'
  OBVIOUS
<1>1. /\ queue \in Seq(Subtasks) /\ next \in 1..(NumSubtasks + 1) /\ loop \in Loop
      /\ runs \in Nat /\ resumes \in Nat
  BY SettingsAssumption DEF TypeInv, TypeOK, FilesOK, MemoryOK, HistoryOK
<1>2. ASSUME queue' = queue, UNCHANGED <<runs, resumes>>, loop # "idle",
             loop' \notin {"enqueue", "register"}, fatal' # "deadlock" \/ fatal' = fatal
      PROVE  OrderInv'
  BY <1>2 DEF OrderInv
<1>3. CASE Start
  <2>1. /\ runs' = runs + 1 /\ loop = "idle" /\ loop' = "enqueue"
        /\ UNCHANGED <<queue, next, fatal, resumes>>
    BY <1>3 DEF Start, memory
  <2>2. runs' # 0 /\ (runs' = 1 => runs = 0)
    BY <1>1, <2>1
  <2> QED
    BY <2>1, <2>2, EmptySeq DEF OrderInv, Ascending, Before
<1>4. CASE Enqueue
  <2>1. /\ loop = "enqueue" /\ loop' = "register" /\ next \in Subtasks
        /\ queue' = Append(queue, next) /\ UNCHANGED <<next, fatal, runs, resumes>>
    BY <1>1, <1>4 DEF Enqueue, memory, history, Subtasks
  <2> QED
    BY <1>1, <2>1, OrderedAppend DEF OrderInv
<1>5. CASE Register
  <2>1. /\ loop = "register" /\ loop' \in {"top", "enqueue"} /\ next' = next + 1
        /\ UNCHANGED <<queue, fatal, runs, resumes>>
    BY <1>5 DEF Register
  <2> QED
    BY <2>1 DEF OrderInv
<1>6. CASE \/ RegisterFails \/ Wake \/ Tick \/ DependencyFailed \/ Wait \/ RejectionArrives
           \/ Complete \/ RecordLoad \/ RecordSave \/ RecordFails
  BY <1>6, <1>2
     DEF RegisterFails, Wake, Tick, DependencyFailed, Wait, RejectionArrives, Complete, RecordLoad,
         RecordSave, RecordFails, Recorded, GuardFires, Fatal, files, memory, history
<1>7. CASE Stuck
  <2>1. /\ loop = "dispatch" /\ loop' = "failing" /\ Blocked /\ InFlight = {}
        /\ UNCHANGED <<queue, runs, resumes>>
    BY <1>7 DEF Stuck, GuardFires, Fatal, files, history
  <2>2. ~Ascending(queue)
    BY <2>1, HeadIsReady
  <2> QED
    BY <2>1, <2>2 DEF OrderInv
<1>8. ASSUME NEW c \in Calls, Dispatch(c) \/ DispatchFails(c) PROVE OrderInv'
  <2>1. /\ loop = "dispatch" /\ loop' = loop /\ queue # <<>> /\ queue' = Tail(queue)
        /\ UNCHANGED <<fatal, runs, resumes>>
    BY <1>8 DEF Dispatch, DispatchFails, memory, history
  <2> QED
    BY <1>1, <2>1, OrderedTail DEF OrderInv
<1>9. CASE Fail
  <2>1. /\ loop = "failing" /\ loop' = "recording" /\ queue' = <<>>
        /\ UNCHANGED <<fatal, runs, resumes>>
    BY <1>9 DEF Fail, history
  <2> QED
    BY <2>1 DEF OrderInv, Ascending
<1>10. ASSUME ProcessEnds, UNCHANGED <<queue, runs, resumes>> PROVE OrderInv'
  BY <1>10 DEF ProcessEnds, OrderInv
<1>11. CASE Schedule
  BY <1>11, <1>4, <1>5, <1>6, <1>7, <1>8, <1>9, <1>10
     DEF Schedule, ExitCompleted, ExitFailed, files, history
<1>12. ASSUME NEW c \in Calls, CallSettles(c) \/ DetachedAnswers(c) PROVE OrderInv'
  <2>1. /\ UNCHANGED <<queue, runs, resumes>> /\ Yields
        /\ loop' = loop \/ loop' \in {"top", "failing"}
        /\ fatal' # "deadlock" \/ fatal' = fatal
    BY <1>12 DEF CallSettles, DetachedAnswers, TaskCompletes, TaskFails, TaskTimesOut,
                 ResolveLoad, ResolveSave, ResolveFails, WakeWith, Fatal, files, memory, history
  <2> QED
    BY <1>2, <2>1 DEF Yields
<1>13. CASE Resume
  <2>1. resumes' # 0
    BY <1>1, <1>13 DEF Resume
  <2> QED
    BY <2>1 DEF OrderInv
<1>14. CASE ResumeSkips \/ ResumeExecutes
  BY <1>2, <1>14 DEF ResumeSkips, ResumeExecutes, files, history
<1>15. CASE ResumeEnds \/ Crash
  BY <1>10, <1>15 DEF ResumeEnds, Crash, files, history
<1>16. CASE UNCHANGED vars
  <2>1. UNCHANGED <<queue, next, loop, fatal, runs, resumes>>
    BY <1>16 DEF vars, files, memory, history
  <2> QED
    BY <2>1 DEF OrderInv
<1> QED
  BY <1>3, <1>6, <1>11, <1>12, <1>13, <1>14, <1>15, <1>16 DEF Next, Resuming

\* On a session that starts empty some subtask can always go: the scheduler never
\* ends a mission for a deadlock, whatever its plan and the limits of its lanes.
THEOREM NeverDeadlocksHolds == Spec => []NeverDeadlocks
<1>1. OrderInv => NeverDeadlocks
  BY DEF OrderInv, NeverDeadlocks
<1>2. TypeInv /\ ScheduleInv /\ OrderInv /\ [Next]_vars => OrderInv'
  BY OrderStep DEF ScheduleInv
<1> QED
  BY <1>1, <1>2, TypeInit, TypeStep, WorkInit, WorkStep, ScheduleInit, ScheduleStep, OrderInit,
     PTL DEF Spec

-----------------------------------------------------------------------------
(* Stages: the recursion of Stage ends, by the order of the subtasks.       *)

LEMMA LeastNatural ==
  ASSUME NEW T, T \subseteq Nat, T # {}
  PROVE  \E x \in T : \A y \in T : x <= y
<1>1. PICK x \in T : \A y \in T : <<y, x>> \notin OpToRel(<, Nat)
  <2> HIDE DEF OpToRel
  <2> QED
    BY WFMin, NatLessThanWellFounded
<1>2. \A y \in T : ~(y < x)
  BY <1>1 DEF OpToRel
<1>3. x \in Nat /\ \A y \in T : y \in Nat /\ ~(y < x)
  BY <1>2
<1>4. \A y \in T : x <= y
  BY <1>3
<1> QED
  BY <1>4

\* A bounded set has a largest element, and Max is it.
LEMMA LargestElement ==
  ASSUME NEW n \in Nat, NEW S, S \subseteq 1..n, S # {}
  PROVE  Max(S) \in S /\ \A x \in S : x <= Max(S)
<1>1. PICK m \in {k \in Nat : \A x \in S : x <= k} :
        \A k \in {k \in Nat : \A x \in S : x <= k} : m <= k
  <2>1. n \in {k \in Nat : \A x \in S : x <= k}
    OBVIOUS
  <2> QED
    BY <2>1, LeastNatural
<1>2. m \in S
  <2> SUFFICES ASSUME m \notin S PROVE FALSE
    OBVIOUS
  <2>1. PICK x \in S : TRUE
    OBVIOUS
  <2>2. m > 0 /\ m - 1 \in Nat
    BY <1>1, <2>1
  <2>3. \A y \in S : y <= m - 1
    BY <1>1, <2>2
  <2> QED
    BY <1>1, <2>2, <2>3
<1>3. \A x \in S : m >= x
  BY <1>1
<1> QED
  BY <1>2, <1>3 DEF Max

StageFrom(f, s) == IF DependsOn[s] = {} THEN 1 ELSE 1 + Max({f[d] : d \in DependsOn[s]})

\* A function that satisfies the recursion exists: were it not so, there would be
\* a least number of subtasks on which none does.
LEMMA StageExists == \E f : f = [s \in Subtasks |-> StageFrom(f, s)]
<1> DEFINE Defined(n) == \E f : f = [s \in 1..n |-> StageFrom(f, s)]
           Without == {n \in 0..NumSubtasks : ~Defined(n)}
<1>1. Defined(0)
  <2>1. [s \in 1..0 |-> StageFrom(<<>>, s)] = <<>>
    OBVIOUS
  <2> QED
    BY <2>1
<1>2. ASSUME NEW n \in 1..NumSubtasks, Defined(n - 1) PROVE Defined(n)
  <2>1. PICK f : f = [s \in 1..(n - 1) |-> StageFrom(f, s)]
    BY <1>2
  <2> DEFINE g == [s \in 1..n |-> IF s = n THEN StageFrom(f, n) ELSE f[s]]
  <2>2. \A s \in 1..n : \A d \in DependsOn[s] : d \in 1..(n - 1)
    BY PlanAssumption DEF Subtasks
  <2>3. \A s \in 1..n : {g[d] : d \in DependsOn[s]} = {f[d] : d \in DependsOn[s]}
    <3>1. \A d \in 1..(n - 1) : g[d] = f[d]
      OBVIOUS
    <3> HIDE DEF g
    <3> QED
      BY <2>2, <3>1
  <2>4. \A s \in 1..n : StageFrom(g, s) = StageFrom(f, s)
    BY <2>3 DEF StageFrom
  <2>5. \A s \in 1..(n - 1) : f[s] = StageFrom(f, s)
    BY <2>1
  <2>6. \A s \in 1..n : g[s] = StageFrom(g, s)
    BY <2>4, <2>5
  <2>7. g = [s \in 1..n |-> StageFrom(g, s)]
    BY <2>6
  <2> QED
    BY <2>7
<1> HIDE DEF Defined
<1>3. Without = {}
  <2> SUFFICES ASSUME Without # {} PROVE FALSE
    OBVIOUS
  <2>1. Without \subseteq Nat
    BY PlanAssumption
  <2>2. \E n \in Without : \A m \in Without : n <= m
    <3> HIDE DEF Without
    <3> QED
      BY <2>1, LeastNatural
  <2>3. PICK n \in Without : \A m \in Without : n <= m
    BY <2>2
  <2>4. n \in 0..NumSubtasks /\ ~Defined(n) /\ NumSubtasks \in Nat
    BY PlanAssumption
  <2>5. n \in 1..NumSubtasks /\ n - 1 \in 0..NumSubtasks
    BY <1>1, <2>4
  <2>6. n - 1 \notin Without
    BY <2>3, <2>5
  <2> QED
    BY <1>2, <2>4, <2>5, <2>6
<1>4. Defined(NumSubtasks)
  BY <1>3, PlanAssumption
<1> QED
  BY <1>4 DEF Subtasks, Defined

LEMMA StageEquation == \A s \in Subtasks : Stage[s] = StageFrom(Stage, s)
<1> DEFINE Next1(f) == [s \in Subtasks |->
                          IF DependsOn[s] = {} THEN 1 ELSE 1 + Max({f[d] : d \in DependsOn[s]})]
<1>1. Stage = CHOOSE f : f = Next1(f)
  BY DEF Stage
<1>2. \E f : f = Next1(f)
  BY StageExists DEF StageFrom
<1>3. Stage = Next1(Stage)
  BY <1>1, <1>2
<1> QED
  BY <1>3 DEF StageFrom

\* A subtask is in a stage no later than its own number.
LEMMA StageRange == \A s \in Subtasks : Stage[s] \in 1..s
<1> DEFINE Out == {s \in Subtasks : Stage[s] \notin 1..s}
<1> SUFFICES ASSUME Out # {} PROVE FALSE
  OBVIOUS
<1>1. Out \subseteq Nat
  BY PlanAssumption DEF Subtasks
<1>2. \E s \in Out : \A t \in Out : s <= t
  <2> HIDE DEF Out
  <2> QED
    BY <1>1, LeastNatural
<1>3. PICK s \in Out : \A t \in Out : s <= t
  BY <1>2
<1>4. s \in Subtasks /\ s \in Nat /\ s >= 1
  BY PlanAssumption DEF Subtasks
<1>5. CASE DependsOn[s] = {}
  <2>1. Stage[s] = 1
    BY <1>4, <1>5, StageEquation DEF StageFrom
  <2> QED
    BY <1>4, <2>1
<1>6. CASE DependsOn[s] # {}
  <2>1. \A d \in DependsOn[s] : d \in Subtasks /\ d <= s - 1 /\ d \in Nat /\ d \notin Out
    BY <1>3, <1>4, PlanAssumption DEF Subtasks
  <2>2. \A d \in DependsOn[s] : Stage[d] \in 1..(s - 1)
    BY <1>4, <2>1
  <2>3. s - 1 \in Nat
    BY <1>4
  <2> DEFINE S == {Stage[d] : d \in DependsOn[s]}
  <2>4. S \subseteq 1..(s - 1) /\ S # {}
    BY <1>6, <2>2
  <2> HIDE DEF S
  <2>5. Max(S) \in S
    BY <2>3, <2>4, LargestElement
  <2>6. Max(S) \in 1..(s - 1)
    BY <2>4, <2>5
  <2>7. Stage[s] = 1 + Max(S)
    BY <1>4, <1>6, StageEquation DEF StageFrom, S
  <2> QED
    BY <1>4, <2>6, <2>7
<1> QED
  BY <1>5, <1>6

-----------------------------------------------------------------------------
(* Checkpoints.                                                             *)

\* A call whose subtask has completed and whose checkpoints are not written yet.
Settling(c) == at[c] \in {"loading", "saving"}
StageDone(n)  == StageMembers(n) \subseteq completed /\ \A c \in Calls : Settling(c) => Stage[task[c]] # n
PrefixDone(n) == 1..n \subseteq completed /\ \A c \in Calls : Settling(c) => task[c] \notin 1..n

\* The checkpoint of a stage, or of a threshold, is written by the last call of
\* its subtasks to settle.
CheckpointInv ==
  failed = {} =>
    /\ \A s \in Subtasks : StageDone(Stage[s]) => <<"stage", Stage[s]>> \in checkpoints
    /\ \A n \in ThresholdsUpTo(NumSubtasks) : PrefixDone(n) => <<"threshold", n>> \in checkpoints

ThresholdSet == ThresholdsUpTo(NumSubtasks)

LEMMA ThresholdType == \A n \in ThresholdSet : n \in Subtasks
BY DEF ThresholdSet, ThresholdsUpTo, Subtasks

\* Nothing has completed since, and no call has stopped settling.
LEMMA CheckpointFrame ==
  ASSUME CheckpointInv, UNCHANGED <<completed, checkpoints>>, failed \subseteq failed',
         \A c \in Calls : Settling(c) => Settling(c)' /\ task'[c] = task[c]
  PROVE  CheckpointInv'
<1>1. failed' = {} => failed = {}
  OBVIOUS
<1>2. \A n : StageDone(n)' => StageDone(n)
  BY DEF StageDone, StageMembers
<1>3. \A n : PrefixDone(n)' => PrefixDone(n)
  BY DEF PrefixDone
<1> QED
  BY <1>1, <1>2, <1>3 DEF CheckpointInv

\* At the first failure there is nothing more to show.
LEMMA CheckpointFailed == failed' # {} => CheckpointInv'
BY DEF CheckpointInv

LEMMA CheckpointEnds == ProcessEnds => CheckpointInv'
<1> SUFFICES ASSUME ProcessEnds PROVE CheckpointInv'
  OBVIOUS
<1>1. completed' = {}
  BY DEF ProcessEnds
<1>2. \A s \in Subtasks : s \in StageMembers(Stage[s])
  BY DEF StageMembers
<1>3. \A n \in Subtasks : n \in 1..n
  BY PlanAssumption DEF Subtasks
<1> QED
  BY <1>1, <1>2, <1>3, ThresholdType DEF CheckpointInv, StageDone, PrefixDone, StageMembers, ThresholdSet

LEMMA TaskCompletesCheckpoint ==
  ASSUME TypeInv, CheckpointInv, NEW c \in Calls, TaskCompletes(c)
  PROVE  CheckpointInv'
<1>1. /\ completed' = completed \cup {task[c]} /\ at' = [at EXCEPT ![c] = "loading"]
      /\ at[c] = "running" /\ task[c] \in Subtasks
      /\ UNCHANGED <<failed, checkpoints, task>>
  BY DEF TaskCompletes, TypeInv, TypeOK, CallsOK
<1>2. /\ Settling(c)'
      /\ \A d \in Calls : Settling(d) => Settling(d)'
  BY <1>1 DEF Settling, TypeInv, TypeOK, CallsOK
<1>3. ASSUME NEW n, StageDone(n)' PROVE StageDone(n)
  <2>1. Stage[task[c]] # n
    BY <1>1, <1>2, <1>3 DEF StageDone
  <2>2. StageMembers(n) \subseteq completed
    BY <1>1, <1>3, <2>1 DEF StageDone, StageMembers
  <2> QED
    BY <1>1, <1>2, <1>3, <2>2 DEF StageDone
<1>4. ASSUME NEW n, PrefixDone(n)' PROVE PrefixDone(n)
  <2>1. task[c] \notin 1..n
    BY <1>1, <1>2, <1>4 DEF PrefixDone
  <2> QED
    BY <1>1, <1>2, <1>4, <2>1 DEF PrefixDone
<1> QED
  BY <1>1, <1>3, <1>4 DEF CheckpointInv

\* A completed prefix is counted.
LEMMA PrefixCounted ==
  ASSUME NEW n \in Subtasks, 1..n \subseteq completed
  PROVE  n <= ContiguousCompleted /\ ContiguousCompleted \in Nat
<1> DEFINE P == {m \in Subtasks : 1..m \subseteq completed}
<1>1. n \in Nat /\ 1..n \subseteq P
  BY PlanAssumption DEF Subtasks
<1>2. IsFiniteSet(P)
  <2>1. IsFiniteSet(Subtasks)
    BY PlanAssumption, FS_Interval DEF Subtasks
  <2>2. P \subseteq Subtasks
    OBVIOUS
  <2> QED
    BY <2>1, <2>2, FS_Subset
<1>3. Cardinality(1..n) <= Cardinality(P) /\ Cardinality(P) \in Nat
  BY <1>1, <1>2, FS_Subset, FS_CardinalityType
<1>4. Cardinality(1..n) = n
  BY <1>1, FS_Interval
<1> QED
  BY <1>3, <1>4 DEF ContiguousCompleted

LEMMA ResolveSaveCheckpoint ==
  ASSUME TypeInv, CheckpointInv, NEW c \in Calls, ResolveSave(c)
  PROVE  CheckpointInv'
<1> DEFINE t == task[c]
<1>1. /\ checkpoints' = checkpoints \cup CheckpointsFor(t) /\ at[c] = "saving" /\ t \in Subtasks
      /\ UNCHANGED <<completed, failed>>
      /\ \A d \in Calls : d # c => at'[d] = at[d] /\ task'[d] = task[d]
  BY DEF ResolveSave, Free, TypeInv, TypeOK, CallsOK
<1>2. ASSUME NEW s \in Subtasks, StageDone(Stage[s])', failed = {}
      PROVE  <<"stage", Stage[s]>> \in checkpoints'
  <2>1. StageMembers(Stage[s]) \subseteq completed
    BY <1>1, <1>2 DEF StageDone, StageMembers
  <2>2. CASE Stage[s] = Stage[t]
    <3>1. Stage[t] \in Subtasks
      BY <1>1, StageRange, PlanAssumption DEF Subtasks
    <3>2. <<"stage", Stage[t]>> \in CheckpointsFor(t)
      BY <2>1, <2>2, <3>1 DEF CheckpointsFor
    <3> QED
      BY <1>1, <2>2, <3>2
  <2>3. CASE Stage[s] # Stage[t]
    <3>1. StageDone(Stage[s])
      BY <1>1, <1>2, <2>1, <2>3 DEF StageDone, Settling
    <3> QED
      BY <1>1, <1>2, <3>1 DEF CheckpointInv
  <2> QED
    BY <2>2, <2>3
<1>3. ASSUME NEW n \in ThresholdSet, PrefixDone(n)' PROVE <<"threshold", n>> \in checkpoints'
  <2>1. 1..n \subseteq completed /\ n \in Subtasks
    BY <1>1, <1>3, ThresholdType DEF PrefixDone
  <2>2. n <= ContiguousCompleted /\ ContiguousCompleted \in Nat
    BY <2>1, PrefixCounted
  <2>3. n \in ThresholdsUpTo(ContiguousCompleted)
    BY <1>3, <2>1, <2>2, PlanAssumption DEF ThresholdSet, ThresholdsUpTo, Subtasks
  <2>4. <<"threshold", n>> \in CheckpointsFor(t)
    BY <2>3 DEF CheckpointsFor
  <2> QED
    BY <1>1, <2>4
<1> QED
  BY <1>1, <1>2, <1>3 DEF CheckpointInv, ThresholdSet, ThresholdsUpTo

LEMMA CheckpointStep == TypeInv /\ CheckpointInv /\ [Next]_vars => CheckpointInv'
<1> SUFFICES ASSUME TypeInv, CheckpointInv, [Next]_vars PROVE CheckpointInv'
  OBVIOUS
<1>1. /\ at \in [Calls -> {"free", "running", "loading", "saving", "detached", "rejected"}]
      /\ task \in [Calls -> Subtasks \cup {0}]
  BY DEF TypeInv, TypeOK, CallsOK
<1>2. ASSUME UNCHANGED <<completed, failed, checkpoints, at, task>> PROVE CheckpointInv'
  BY <1>2, CheckpointFrame DEF Settling
<1>3. ASSUME NEW c \in Calls, CallSettles(c) \/ DetachedAnswers(c) PROVE CheckpointInv'
  <2>1. CASE TaskFails(c) \/ TaskTimesOut(c) \/ ResolveFails(c)
    <3>1. failed' # {}
      BY <2>1 DEF TaskFails, TaskTimesOut, ResolveFails
    <3> QED
      BY <3>1, CheckpointFailed
  <2>2. CASE ResolveLoad(c) \/ DetachedAnswers(c)
    <3>1. /\ UNCHANGED <<completed, failed, checkpoints>>
          /\ \A d \in Calls : Settling(d) => Settling(d)' /\ task'[d] = task[d]
      BY <1>1, <2>2 DEF ResolveLoad, DetachedAnswers, Free, Settling, memory
    <3> QED
      BY <3>1, CheckpointFrame
  <2> QED
    BY <1>3, <2>1, <2>2, TaskCompletesCheckpoint, ResolveSaveCheckpoint DEF CallSettles
<1>4. ASSUME NEW c \in Calls, Dispatch(c) \/ DispatchFails(c) PROVE CheckpointInv'
  <2>1. /\ UNCHANGED <<completed, checkpoints>> /\ failed \subseteq failed'
        /\ \A d \in Calls : Settling(d) => Settling(d)' /\ task'[d] = task[d]
    BY <1>1, <1>4 DEF Dispatch, DispatchFails, FirstFree, Settling, memory
  <2> QED
    BY <2>1, CheckpointFrame
<1>5. CASE Schedule
  <2>1. CASE \/ Enqueue \/ Register \/ RegisterFails \/ Wake \/ DependencyFailed \/ Wait
             \/ RejectionArrives \/ Stuck \/ Complete \/ Fail \/ RecordLoad \/ RecordSave
             \/ RecordFails
    BY <2>1, <1>2
       DEF Enqueue, Register, RegisterFails, Wake, DependencyFailed, Wait, RejectionArrives,
           Stuck, Complete, Fail, RecordLoad, RecordSave, RecordFails, calls, memory
  <2> QED
    BY <1>5, <2>1, <1>4, CheckpointEnds DEF Schedule, ExitCompleted, ExitFailed
<1>6. CASE Start \/ Tick \/ Resume \/ ResumeSkips \/ ResumeExecutes \/ UNCHANGED vars
  BY <1>6, <1>2 DEF Start, Tick, Resume, ResumeSkips, ResumeExecutes, vars, calls, memory
<1> QED
  BY <1>3, <1>5, <1>6, CheckpointEnds DEF Next, Resuming, ResumeEnds, Crash

LEMMA CheckpointInit == Init => CheckpointInv
<1> SUFFICES ASSUME Init PROVE CheckpointInv
  OBVIOUS
<1>1. completed = {}
  BY DEF Init
<1>2. \A s \in Subtasks : s \in StageMembers(Stage[s])
  BY DEF StageMembers
<1>3. \A n \in Subtasks : n \in 1..n
  BY PlanAssumption DEF Subtasks
<1> QED
  BY <1>1, <1>2, <1>3, ThresholdType DEF CheckpointInv, StageDone, PrefixDone, ThresholdSet

\* A completed mission has written the checkpoint of every stage and threshold,
\* in whatever order its subtasks settled and their updates overlapped.
THEOREM CheckpointsCompleteHolds == Spec => []CheckpointsComplete
<1>1. TypeInv /\ ScheduleInv /\ CheckpointInv => CheckpointsComplete
  <2> SUFFICES ASSUME TypeInv, ScheduleInv, CheckpointInv, loop = "completed"
               PROVE  /\ \A s \in Subtasks : <<"stage", Stage[s]>> \in checkpoints
                      /\ \A n \in ThresholdsUpTo(NumSubtasks) : <<"threshold", n>> \in checkpoints
    BY DEF CheckpointsComplete
  <2>1. completed = Subtasks /\ failed = {} /\ \A c \in Calls : ~Settling(c)
    BY DEF ScheduleInv, CompletedMeansAll, Settling
  <2>2. \A s \in Subtasks : StageDone(Stage[s])
    BY <2>1 DEF StageDone, StageMembers
  <2>3. \A n \in Subtasks : 1..n \subseteq Subtasks
    BY PlanAssumption DEF Subtasks
  <2>4. \A n \in ThresholdsUpTo(NumSubtasks) : PrefixDone(n)
    BY <2>1, <2>3, ThresholdType DEF PrefixDone, ThresholdSet
  <2> QED
    BY <2>1, <2>2, <2>4 DEF CheckpointInv
<1> QED
  BY <1>1, TypeInit, TypeStep, WorkInit, WorkStep, ScheduleInit, ScheduleStep, CheckpointInit,
     CheckpointStep, PTL DEF Spec
=============================================================================
