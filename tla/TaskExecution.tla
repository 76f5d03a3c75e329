---------------------------- MODULE TaskExecution ----------------------------
(***************************************************************************)
(* A research task from its approval to its record: supervisor-authority.js*)
(* asks for a receipt and runs the task behind a breaker, agent-engine.js  *)
(* takes it through governance, the model, its output, the draft made of   *)
(* the answer and the record of the execution, and catches what fails on   *)
(* the way.  Calls overlap at every await; two of them may run one task.   *)
(* A response is named by the call that asked for it.                      *)
(*                                                                         *)
(* The interaction log and the index of outputs are each rewritten whole,  *)
(* in place, within one turn of the event loop. A writing that fails after *)
(* the file was emptied, or the end of the process in it, leaves a file    *)
(* that no longer parses: what it held is lost, and nothing mends it.      *)
(***************************************************************************)
EXTENDS Naturals, FiniteSets

CONSTANTS
  Tasks,              \* identifiers, which do not tell the output format
  TaskCalls,          \* executions asked for
  TaskFailures,       \* failureThreshold of the supervisor authority
  MaxTaskRestarts     \* bound

ASSUME TaskAssumption == Tasks # {} /\ TaskFailures \in Nat \ {0}

VARIABLES
  receipts,      \* memory: the calls whose task the supervisor approved
  taskCalls,     \* each execution: where it is, its task, the status it has
  taskStatus,    \* memory: taskState
  taskIndex,     \* stored: tasks-index.json, with the call that wrote the entry
  indexTorn,     \* a writing of it was cut off
  interactions,  \* stored: the responses in the interaction log
  logTorn,       \* a writing of it was cut off
  logRejects,    \* memory: an append has failed, and appendChain stays rejected
  logged,        \* history: the responses that the log has had, whole
  taskDrafts,    \* stored: the drafts made, in transactions
  executions,    \* stored: the records of executions, by where they were put
  taskBreaker,   \* memory: the entry "task-execution"
  unsettled,     \* tasks of a call that a restart or a failing save cut short
  taskRestarts

indexVars == <<taskIndex, indexTorn>>
logVars == <<interactions, logTorn, logRejects, logged>>
taskVars == <<receipts, taskCalls, taskStatus, indexVars, logVars, taskDrafts, executions, taskBreaker,
              unsettled, taskRestarts>>

Breaker == INSTANCE CircuitBreaker WITH FailureThreshold <- TaskFailures, SuccessThreshold <- 1

Stages == {"idle", "decided", "noted", "approved", "asking", "completing", "saving", "drafting",
           "recording", "ingesting", "ended"}
Call(c, stage) == taskCalls' = [taskCalls EXCEPT ![c].at = stage]
CallAs(c, stage, status) == taskCalls' = [taskCalls EXCEPT ![c].at = stage, ![c].status = status]
TaskOf(c) == taskCalls[c].task
SetStatus(c, status) == taskStatus' = [taskStatus EXCEPT ![TaskOf(c)] = status]

\* saveOutput reads the index, and writes it with the entry of the task.
NoEntry == [status |-> "none", of |-> "none"]
SaveOutput(c, status) ==
  /\ ~indexTorn /\ UNCHANGED indexTorn
  /\ taskIndex' = [taskIndex EXCEPT ![TaskOf(c)] = [status |-> status, of |-> c]]
LoseIndex == indexTorn' = TRUE /\ taskIndex' = [t \in Tasks |-> NoEntry]
SaveThrows == UNCHANGED indexVars \/ LoseIndex

\* finally { releaseHalfOpenLease }: the lease may be that of another call.
Released(entry) == [entry EXCEPT !.halfOpenInFlight = FALSE]
LeaveBreaker(c, ok) ==
  taskBreaker' = IF ~taskCalls[c].running THEN taskBreaker
                 ELSE Released(IF ok THEN Breaker!RecordSuccess(taskBreaker)
                               ELSE Breaker!RecordFailure(taskBreaker))
-----------------------------------------------------------------------------
(* Approval *)

\* requestApproval decides at once: without a confirmation the task is denied.
RequestApproval(c, task, confirm) ==
  /\ taskCalls[c].at = "idle"
  /\ receipts' = IF confirm THEN receipts \union {c} ELSE receipts
  /\ taskCalls' = [taskCalls EXCEPT ![c] =
       [at |-> "decided", task |-> task, running |-> FALSE, status |-> IF confirm THEN "approved" ELSE "rejected"]]
  /\ UNCHANGED <<taskStatus, indexVars, logVars, taskDrafts, executions, taskBreaker,
                 unsettled, taskRestarts>>

\* The decision goes to the decision ledger, then to the ingestion log. When either
\* cannot be written the caller takes the task for denied and records that.
TaskRecordDecision(c) ==
  /\ taskCalls[c].at \in {"decided", "noted"}
  /\ \/ taskCalls[c].at = "decided" /\ Call(c, "noted")
     \/ taskCalls[c].at = "noted" /\ Call(c, IF taskCalls[c].status = "approved" THEN "approved" ELSE "recording")
     \/ CallAs(c, "recording", "rejected")
  /\ UNCHANGED <<receipts, taskStatus, indexVars, logVars, taskDrafts, executions,
                 taskBreaker, unsettled, taskRestarts>>

\* runApprovedTask, and executeTask up to its first await. A known receipt is asked for.
RunApprovedTask(c) ==
  /\ taskCalls[c].at = "approved"
  /\ \/ /\ c \in receipts /\ Breaker!Allowed(taskBreaker)
        /\ taskBreaker' = Breaker!CheckBeforeRequest(taskBreaker)
        /\ taskCalls' = [taskCalls EXCEPT ![c].at = "asking", ![c].running = TRUE]
        /\ SetStatus(c, "supervisor_approved")
     \/ /\ ~(c \in receipts /\ Breaker!Allowed(taskBreaker))
        /\ Call(c, "ended")
        /\ UNCHANGED <<taskBreaker, taskStatus>>
  /\ UNCHANGED <<receipts, indexVars, logVars, taskDrafts, executions, unsettled, taskRestarts>>

\* requestTaskApproval: a token that is refused rejects the task, and its output says so,
\* unless it cannot be saved.
RequestTaskApproval(c) ==
  /\ taskCalls[c].at = "asking"
  /\ \/ Call(c, "completing") /\ SetStatus(c, "executing") /\ UNCHANGED <<indexVars, taskBreaker>>
     \/ /\ CallAs(c, "recording", "rejected") /\ SetStatus(c, "rejected")
        /\ SaveOutput(c, "rejected") /\ UNCHANGED taskBreaker
     \/ Call(c, "ended") /\ SetStatus(c, "rejected") /\ SaveThrows /\ LeaveBreaker(c, FALSE)
  /\ UNCHANGED <<receipts, logVars, taskDrafts, executions, unsettled, taskRestarts>>
-----------------------------------------------------------------------------
(* Execution *)

\* The output stays as it is when a run fails.
CatchFailure_KeepsOutput(c) ==
  /\ CallAs(c, "recording", "failed")
  /\ UNCHANGED <<indexVars, taskStatus, taskBreaker, unsettled>>

\* catch: the output now says failed. A save that throws in turn leaves the call at once.
CatchFailure(c) ==
  \/ /\ CallAs(c, "recording", "failed")
     /\ SaveOutput(c, "failed")
     /\ UNCHANGED <<taskStatus, taskBreaker, unsettled>>
  \/ /\ Call(c, "ended")
     /\ LeaveBreaker(c, FALSE)
     /\ SaveThrows
     /\ unsettled' = unsettled \union {TaskOf(c)}
     /\ UNCHANGED taskStatus

\* recordInteraction reads the log, and writes it with one more entry, in turn; once an
\* append has failed the later ones are refused until a restart, and a log that does not
\* parse refuses them for good.
RecordInteraction(c) ==
  /\ ~logRejects /\ ~logTorn
  /\ interactions' = interactions \union {c} /\ logged' = logged \union {c}
  /\ UNCHANGED <<logRejects, logTorn>>
LoseLog == logTorn' = TRUE /\ interactions' = {}
InteractionRefused ==
  /\ logRejects' = TRUE
  /\ (~logRejects /\ LoseLog) \/ UNCHANGED <<interactions, logTorn>>
  /\ UNCHANGED logged

\* A response that could not be logged is used all the same.
Complete_Unlogged(c) ==
  /\ taskCalls[c].at = "completing"
  /\ RecordInteraction(c) \/ InteractionRefused
  /\ Call(c, "saving")
  /\ UNCHANGED <<receipts, taskStatus, indexVars, taskDrafts, executions, taskBreaker, unsettled, taskRestarts>>

\* complete: the model answers or fails. An answer is returned when it has been logged.
Complete(c) ==
  /\ taskCalls[c].at = "completing"
  /\ \/ RecordInteraction(c) /\ Call(c, "saving") /\ UNCHANGED <<taskStatus, indexVars, taskBreaker, unsettled>>
     \/ InteractionRefused /\ CatchFailure(c)
     \/ CatchFailure(c) /\ UNCHANGED logVars
  /\ UNCHANGED <<receipts, taskDrafts, executions, taskRestarts>>

SaveCompleted(c) ==
  /\ taskCalls[c].at = "saving"
  /\ \/ SaveOutput(c, "completed") /\ Call(c, "drafting") /\ UNCHANGED <<taskStatus, taskBreaker, unsettled>>
     \/ CatchFailure(c)
  /\ UNCHANGED <<receipts, logVars, taskDrafts, executions, taskRestarts>>

\* generateRLHFEntry adds a draft and its place in the review queue in one transaction,
\* then the mirror is written and the output saved again: the draft stays when they fail.
GenerateRlhfEntry(c) ==
  /\ taskCalls[c].at = "drafting"
  /\ \/ /\ taskDrafts' = taskDrafts \union {c}
        /\ SaveOutput(c, "completed") /\ CallAs(c, "recording", "completed")
        /\ UNCHANGED <<taskStatus, taskBreaker, unsettled>>
     \/ taskDrafts' \in {taskDrafts, taskDrafts \union {c}} /\ CatchFailure(c)
  /\ UNCHANGED <<receipts, logVars, executions, taskRestarts>>
-----------------------------------------------------------------------------
(* recordTaskExecution *)

Kept(c, where) ==
  executions' = executions \union {[call |-> c, where |-> where, status |-> taskCalls[c].status]}

\* Of a record that cannot be written: a completed task becomes a failed one, a failed or
\* a rejected one is left with its memory as it is.
CannotRecord(c) ==
  IF taskCalls[c].status = "completed" THEN CatchFailure(c)
  ELSE /\ Call(c, "ended") /\ LeaveBreaker(c, FALSE)
       /\ UNCHANGED <<indexVars, taskStatus, unsettled>>

RecordInLedger(c) ==
  /\ taskCalls[c].at = "recording"
  /\ \/ Kept(c, "ledger") /\ Call(c, "ingesting") /\ UNCHANGED <<indexVars, taskStatus, taskBreaker, unsettled>>
     \/ CannotRecord(c) /\ UNCHANGED executions
  /\ UNCHANGED <<receipts, logVars, taskDrafts, taskRestarts>>

\* The record is appended before the state is stored: it stays when that fails.
RecordInIngestion(c) ==
  /\ taskCalls[c].at = "ingesting"
  /\ \/ /\ Kept(c, "ingestion") /\ Call(c, "ended")
        /\ LeaveBreaker(c, taskCalls[c].status # "failed")
        /\ IF taskCalls[c].status = "rejected" THEN UNCHANGED taskStatus ELSE SetStatus(c, taskCalls[c].status)
        /\ UNCHANGED <<indexVars, unsettled>>
     \/ CannotRecord(c) /\ (Kept(c, "ingestion") \/ UNCHANGED executions)
  /\ UNCHANGED <<receipts, logVars, taskDrafts, taskRestarts>>
-----------------------------------------------------------------------------
\* timeoutMs has passed since the breaker opened.
BreakerTimeout ==
  /\ taskBreaker.state = "OPEN" /\ ~taskBreaker.elapsed
  /\ taskBreaker' = [taskBreaker EXCEPT !.elapsed = TRUE]
  /\ UNCHANGED <<receipts, taskCalls, taskStatus, indexVars, logVars, taskDrafts,
                 executions, unsettled, taskRestarts>>

Running(c) == taskCalls[c].at \notin {"idle", "ended"}

\* The process ends: between two turns, or in the writing of the log or of the index.
TaskRestart ==
  /\ taskRestarts < MaxTaskRestarts
  /\ taskRestarts' = taskRestarts + 1
  /\ unsettled' = unsettled \union {TaskOf(c) : c \in {d \in TaskCalls : Running(d)}}
  /\ taskCalls' = [c \in TaskCalls |-> IF Running(c) THEN [taskCalls[c] EXCEPT !.at = "ended"] ELSE taskCalls[c]]
  /\ receipts' = {} /\ logRejects' = FALSE /\ taskBreaker' = Breaker!NewEntry
  /\ taskStatus' = [t \in Tasks |-> "none"]
  /\ \/ UNCHANGED <<indexVars, interactions, logTorn>>
     \/ /\ ~logRejects /\ \E c \in TaskCalls : taskCalls[c].at = "completing"
        /\ LoseLog /\ UNCHANGED indexVars
     \/ /\ \E c \in TaskCalls : Running(c) /\ taskCalls[c].running
        /\ LoseIndex /\ UNCHANGED <<interactions, logTorn>>
  /\ UNCHANGED <<logged, taskDrafts, executions>>

NoTask == CHOOSE t \in Tasks : TRUE
TaskInit ==
  /\ receipts = {} /\ taskDrafts = {} /\ executions = {}
  /\ interactions = {} /\ logged = {} /\ logTorn = FALSE /\ logRejects = FALSE
  /\ taskCalls = [c \in TaskCalls |-> [at |-> "idle", task |-> NoTask, running |-> FALSE, status |-> "none"]]
  /\ taskStatus = [t \in Tasks |-> "none"]
  /\ taskIndex = [t \in Tasks |-> NoEntry] /\ indexTorn = FALSE
  /\ taskBreaker = Breaker!NewEntry /\ unsettled = {} /\ taskRestarts = 0

\* A task from the command line: the approval, its record, the run.
RunLegacyTask(c) ==
  \/ \E task \in Tasks, confirm \in BOOLEAN : RequestApproval(c, task, confirm)
  \/ TaskRecordDecision(c)
  \/ RunApprovedTask(c)

\* executeTask from its first await on.
ExecuteTask(c) ==
  \/ RequestTaskApproval(c)
  \/ Complete(c)
  \/ SaveCompleted(c)
  \/ GenerateRlhfEntry(c)
  \/ RecordInLedger(c)
  \/ RecordInIngestion(c)

TaskNext ==
  \/ \E c \in TaskCalls : RunLegacyTask(c) \/ ExecuteTask(c)
  \/ BreakerTimeout \/ TaskRestart

TaskSpec == TaskInit /\ [][TaskNext]_taskVars
-----------------------------------------------------------------------------
(* Properties *)

TaskTypeOK ==
  /\ receipts \subseteq TaskCalls /\ interactions \subseteq TaskCalls /\ taskDrafts \subseteq TaskCalls
  /\ \A c \in TaskCalls : taskCalls[c].at \in Stages /\ taskCalls[c].task \in Tasks
  /\ unsettled \subseteq Tasks /\ taskBreaker \in Breaker!Entry /\ logged \subseteq TaskCalls
  /\ {logRejects, logTorn, indexTorn} \subseteq BOOLEAN

\* No output and no draft is made of a response before the interaction log has it, and the
\* log keeps what it has over refused appends and restarts, unless a writing of it was cut
\* off (complete, recordInteraction).
ResponsesAreLogged ==
  /\ taskDrafts \subseteq logged
  /\ \A t \in Tasks : taskIndex[t].status = "completed" => taskIndex[t].of \in logged
  /\ ~logTorn => logged = interactions

\* When no call runs a task, an index that calls it completed is that of a call whose
\* draft exists and whose completion the ledger and the ingestion log hold: a step that
\* fails later takes the completed output back (the catch of executeTask).
CompletedIsRecorded ==
  \A t \in Tasks :
    /\ taskIndex[t].status = "completed" /\ t \notin unsettled
    /\ \A c \in TaskCalls : TaskOf(c) = t => ~Running(c)
    => /\ taskIndex[t].of \in taskDrafts
       /\ \A where \in {"ledger", "ingestion"} :
            [call |-> taskIndex[t].of, where |-> where, status |-> "completed"] \in executions
=============================================================================
