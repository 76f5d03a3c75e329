-------------------------- MODULE SupervisorProofs --------------------------
(***************************************************************************)
(* Theorems of Supervisor, and the lemmas about the breaker and the store  *)
(* that they rest on.                                                      *)
(***************************************************************************)
EXTENDS Supervisor, SequenceTheorems, TLAPS

-----------------------------------------------------------------------------
(* The circuit breaker.                                                     *)

LEMMA NewEntryType == NewEntry \in Entry
<1>1. 0 \in Counts
  BY ThresholdsAssumption DEF Counts
<1> QED BY <1>1 DEF NewEntry, Entry

\* Every operation of the breaker returns an entry.
LEMMA BreakerTypes ==
  ASSUME NEW e \in Entry
  PROVE  /\ MoveOpenToHalfOpenIfReady(e) \in Entry
         /\ CheckBeforeRequest(e) \in Entry
         /\ RecordSuccess(e) \in Entry
         /\ RecordFailure(e) \in Entry
         /\ Exported(e) \in Entry
         /\ Imported(e) \in Entry
<1>0. 0 \in Counts /\ FailureThreshold \in Counts
  BY ThresholdsAssumption DEF Counts
<1>1. MoveOpenToHalfOpenIfReady(e) \in Entry
  BY DEF MoveOpenToHalfOpenIfReady, Entry
<1>2. CheckBeforeRequest(e) \in Entry
  <2>1. TakesLease(e) \in BOOLEAN
    BY DEF TakesLease, Allowed
  <2>2. ASSUME NEW m \in Entry, NEW t \in BOOLEAN
        PROVE  [m EXCEPT !.halfOpenInFlight = @ \/ t] \in Entry
    BY DEF Entry
  <2> QED BY <1>1, <2>1, <2>2 DEF CheckBeforeRequest
<1>3. RecordSuccess(e) \in Entry
  <2>3. Probed(e) \in Entry
    <3>1. e.successCount + 1 \in Nat
      BY DEF Entry
    <3> QED BY <3>1 DEF Probed, Entry
  <2>2. [e EXCEPT !.failureCount = 0, !.successCount = 0] \in Entry
    BY <1>0 DEF Entry
  <2> QED BY NewEntryType, <2>2, <2>3 DEF RecordSuccess
<1>4. RecordFailure(e) \in Entry
  <2>1. Opened(e) \in Entry
    BY <1>0 DEF Opened, Entry
  <2>2. [Opened(e) EXCEPT !.halfOpenInFlight = FALSE] \in Entry
    BY <2>1 DEF Entry
  <2>3. e.failureCount + 1 < FailureThreshold
          => [e EXCEPT !.failureCount = @ + 1] \in Entry
    <3>1. e.failureCount + 1 < FailureThreshold
            => e.failureCount + 1 \in Counts
      BY ThresholdsAssumption DEF Entry, Counts
    <3> QED BY <3>1 DEF Entry
  <2>4. e.failureCount + 1 < FailureThreshold \/ e.failureCount + 1 >= FailureThreshold
    BY ThresholdsAssumption DEF Entry, Counts
  <2> QED BY <2>1, <2>2, <2>3, <2>4 DEF RecordFailure
<1>5. Exported(e) \in Entry /\ Imported(e) \in Entry
  BY DEF Exported, Imported, Entry
<1> QED BY <1>1, <1>2, <1>3, <1>4, <1>5

\* What a call that is let through leaves: a half-open breaker only with a
\* lease that this call took.
LEMMA GateLeases ==
  ASSUME NEW e \in Entry, Allowed(e)
  PROVE  /\ CheckBeforeRequest(e).state = "HALF_OPEN" => TakesLease(e)
         /\ CheckBeforeRequest(e).state = "CLOSED"
              => e.state = "CLOSED" /\ CheckBeforeRequest(e).failureCount = e.failureCount
         /\ (CheckBeforeRequest(e).state = "CLOSED") = (e.state = "CLOSED")
<1> DEFINE m == MoveOpenToHalfOpenIfReady(e)
<1>1. m \in Entry
  BY BreakerTypes
<1>2. /\ (m.state = "CLOSED") = (e.state = "CLOSED")
      /\ e.state = "CLOSED" => m = e
  BY DEF MoveOpenToHalfOpenIfReady, Entry
<1>3. /\ CheckBeforeRequest(e).state = m.state
      /\ CheckBeforeRequest(e).failureCount = m.failureCount
  BY <1>1 DEF CheckBeforeRequest, Entry
<1>4. m.state = "HALF_OPEN" => TakesLease(e)
  BY DEF TakesLease
<1> QED BY <1>2, <1>3, <1>4

\* No result leaves a lease with a half-open breaker.
LEMMA ResultsReturnLease ==
  ASSUME NEW e \in Entry
  PROVE  /\ RecordSuccess(e).state = "HALF_OPEN" => ~ RecordSuccess(e).halfOpenInFlight
         /\ RecordFailure(e).state # "HALF_OPEN"
BY ThresholdsAssumption
   DEF RecordSuccess, RecordFailure, NewEntry, Probed, Opened, Entry

-----------------------------------------------------------------------------
(* Types.                                                                   *)

\* A flush has not returned exactly while it writes.
Flushing == writing = None <=> chain = <<>>

LEMMA SnapshotTypes ==
  ASSUME NEW q \in Seq(Requests), NEW e \in Entry
  PROVE  Snapshot(q, e) \in Snapshots
BY BreakerTypes DEF Snapshot, Snapshots

\* Whether it persists or not, the store keeps its types.
LEMMA PersistTypes ==
  ASSUME StoreOK, NEW q \in Seq(Requests), NEW e \in Entry, Persist(q, e)
  PROVE  StoreOK'
<1>1. Snapshot(q, e) \in Snapshots
  BY SnapshotTypes
<1>2. CASE UNCHANGED storeVars
  BY <1>2 DEF StoreOK, storeVars
<1>3. CASE ScheduleWrite(Snapshot(q, e))
  BY <1>1, <1>3 DEF StoreOK, ScheduleWrite, storeVars
<1> QED BY <1>2, <1>3 DEF Persist

LEMMA TransitionTypes ==
  ASSUME StoreOK, ProcessOK, NEW e \in Entry, PersistTransition(e)
  PROVE  StoreOK'
<1>1. CASE UNCHANGED storeVars
  BY <1>1 DEF StoreOK, storeVars
<1>2. CASE Persist(queue, e)
  BY <1>2, PersistTypes DEF ProcessOK
<1> QED BY <1>1, <1>2 DEF PersistTransition

LEMMA RunFlushesTypes ==
  ASSUME StoreOK, NEW rest \in Seq(Flushes), RunFlushes(rest)
  PROVE  /\ pending' \in Snapshots \cup {None} /\ writing' \in Snapshots \cup {None}
         /\ timer' \in BOOLEAN /\ chain' \in Seq(Flushes)
<1>1. <<>> \in Seq(Flushes)
  BY EmptySeq
<1> QED BY <1>1 DEF StoreOK, RunFlushes

LEMMA CloseTypes ==
  ASSUME StoreOK, Close
  PROVE  StoreOK'
<1>1. <<"close">> \in Seq(Flushes) /\ Append(chain, "close") \in Seq(Flushes)
  BY AppendProperties DEF StoreOK, Flushes
<1>2. /\ pending' \in Snapshots \cup {None} /\ writing' \in Snapshots \cup {None}
      /\ timer' \in BOOLEAN /\ chain' \in Seq(Flushes)
  <2>1. CASE chain = <<>>
    BY <1>1, <2>1, RunFlushesTypes DEF Close, Flush
  <2>2. CASE chain # <<>>
    BY <1>1, <2>2 DEF Close, Flush, StoreOK
  <2> QED BY <2>1, <2>2
<1> QED BY <1>2 DEF Close, StoreOK

LEMMA StoreStepTypes ==
  ASSUME StoreOK, Flushing, StoreStep
  PROVE  StoreOK'
<1>1. CASE TimerFires
  <2>1. <<"timer">> \in Seq(Flushes) /\ Append(chain, "timer") \in Seq(Flushes)
    BY AppendProperties DEF StoreOK, Flushes
  <2>2. /\ pending' \in Snapshots \cup {None} /\ writing' \in Snapshots \cup {None}
        /\ timer' \in BOOLEAN /\ chain' \in Seq(Flushes)
    <3>1. CASE chain = <<>>
      BY <1>1, <2>1, <3>1, RunFlushesTypes DEF TimerFires
    <3>2. CASE chain # <<>>
      BY <1>1, <2>1, <3>2 DEF TimerFires, StoreOK
    <3> QED BY <3>1, <3>2
  <2> QED BY <1>1, <2>2 DEF TimerFires, StoreOK
<1>2. CASE WriteEnds
  <2>1. <<>> \in Seq(Flushes)
    BY EmptySeq
  <2> QED BY <1>2, <2>1 DEF WriteEnds, StoreOK
<1>3. CASE WriteFails
  <2>1. <<>> \in Seq(Flushes)
    BY EmptySeq
  <2>2. /\ pending' \in Snapshots \cup {None} /\ writing' \in Snapshots \cup {None}
        /\ timer' \in BOOLEAN /\ chain' \in Seq(Flushes)
    <3>1. CASE Len(chain) = 1
      BY <1>3, <2>1, <3>1 DEF WriteFails, StoreOK
    <3>2. CASE Len(chain) # 1
      <4>1. chain # <<>>
        BY <1>3 DEF WriteFails, Flushing
      <4>2. Tail(chain) \in Seq(Flushes)
        BY <4>1, HeadTailProperties DEF StoreOK
      <4> QED BY <1>3, <3>2, <4>2, RunFlushesTypes DEF WriteFails
    <3> QED BY <3>1, <3>2
  <2>3. dropped' \in BOOLEAN
    BY <1>3 DEF WriteFails
  <2> QED BY <1>3, <2>2, <2>3 DEF WriteFails, StoreOK
<1> QED BY <1>1, <1>2, <1>3 DEF StoreStep

LEMMA FlushingKept ==
  ASSUME StoreOK, Flushing,
         \/ \E s : ScheduleWrite(s)
         \/ Close
         \/ StoreStep
         \/ StoreEnds
         \/ UNCHANGED storeVars
  PROVE  Flushing'
<1>1. ASSUME NEW rest \in Seq(Flushes), rest # <<>>, RunFlushes(rest)
      PROVE  Flushing'
  BY <1>1 DEF RunFlushes, Flushing
<1>2. ASSUME NEW kind \in Flushes
      PROVE  /\ <<kind>> \in Seq(Flushes) /\ <<kind>> # <<>>
             /\ Append(chain, kind) # <<>>
  BY AppendProperties, LenProperties DEF StoreOK
<1>3. CASE \E s : ScheduleWrite(s)
  BY <1>3 DEF ScheduleWrite, Flushing, storeVars
<1>4. CASE Close
  <2>1. "close" \in Flushes
    BY DEF Flushes
  <2>2. CASE chain = <<>>
    BY <1>1, <1>2, <1>4, <2>1, <2>2 DEF Close, Flush
  <2>3. CASE chain # <<>>
    BY <1>2, <1>4, <2>1, <2>3 DEF Close, Flush, Flushing
  <2> QED BY <2>2, <2>3
<1>5. CASE TimerFires
  <2>1. "timer" \in Flushes
    BY DEF Flushes
  <2>2. CASE chain = <<>>
    BY <1>1, <1>2, <1>5, <2>1, <2>2 DEF TimerFires
  <2>3. CASE chain # <<>>
    BY <1>2, <1>5, <2>1, <2>3 DEF TimerFires, Flushing
  <2> QED BY <2>2, <2>3
<1>6. CASE WriteEnds
  BY <1>6 DEF WriteEnds, Flushing
<1>7. CASE WriteFails
  <2>1. CASE Len(chain) = 1
    BY <1>7, <2>1 DEF WriteFails, Flushing
  <2>2. CASE Len(chain) # 1
    <3>1. chain # <<>>
      BY <1>7 DEF WriteFails, Flushing
    <3>2. Tail(chain) \in Seq(Flushes) /\ Len(Tail(chain)) # 0
      <4>1. chain \in Seq(Flushes)
        BY DEF StoreOK
      <4>2. Len(chain) \in Nat /\ Len(chain) # 0
        BY <3>1, <4>1, EmptySeq, LenProperties
      <4>3. Tail(chain) \in Seq(Flushes) /\ Len(Tail(chain)) = Len(chain) - 1
        BY <3>1, <4>1, HeadTailProperties
      <4> QED BY <2>2, <4>2, <4>3
    <3>3. Tail(chain) # <<>>
      <4>1. Len(<<>>) = 0
        BY EmptySeq
      <4> QED BY <3>2, <4>1, Zenon
    <3> QED BY <1>1, <1>7, <2>2, <3>2, <3>3 DEF WriteFails
  <2> QED BY <2>1, <2>2
<1>8. CASE StoreEnds
  BY <1>8 DEF StoreEnds, Flushing
<1>9. CASE UNCHANGED storeVars
  BY <1>9 DEF storeVars, Flushing
<1> QED BY <1>3, <1>4, <1>5, <1>6, <1>7, <1>8, <1>9 DEF StoreStep

TypeInv == TypeOK /\ Flushing

LEMMA TypeInit == Init => TypeInv
<1> SUFFICES ASSUME Init PROVE TypeInv
  OBVIOUS
<1>1. <<>> \in Seq(Flushes) /\ <<>> \in Seq(Requests) /\ Len(<<>>) = 0
  BY EmptySeq
<1>2. StoreOK /\ Flushing
  BY <1>1 DEF Init, StoreInit, StoreOK, Flushing
<1>4. 0 \in 0..MaxRequests /\ 0 \in 0..FailureThreshold /\ 0 <= MaxLength
  BY SupervisorAssumption, ThresholdsAssumption
<1>3. ProcessOK
  <2>1. at \in [Executors -> {"free", "running", "probing"}]
    BY DEF Init, ProcessInit
  <2> QED BY <1>1, <1>4, <2>1, NewEntryType DEF Init, ProcessInit, ProcessOK
<1> QED BY <1>2, <1>3 DEF TypeInv, TypeOK

\* What the store is asked to do by a step of the process.
LEMMA PersistIsStoreStep ==
  ASSUME NEW q, NEW e, Persist(q, e)
  PROVE  (\E s : ScheduleWrite(s)) \/ UNCHANGED storeVars
BY DEF Persist

\* A restored queue fits.
LEMMA RestoredTypes ==
  ASSUME NEW q \in Seq(Requests)
  PROVE  /\ Restored(q) \in Seq(Requests) /\ Len(Restored(q)) <= MaxLength
         /\ Len(q) <= MaxLength => Restored(q) = q
<1>1. MaxLength \in Nat \ {0} /\ Len(q) \in Nat
  BY SupervisorAssumption, LenProperties
<1>2. CASE Len(q) <= MaxLength
  BY <1>2 DEF Restored
<1>3. CASE ~ (Len(q) <= MaxLength)
  <2>1. SubSeq(q, 1, MaxLength) \in Seq(Requests) /\ Len(SubSeq(q, 1, MaxLength)) = MaxLength
    BY <1>1, <1>3, SubSeqProperties
  <2> QED BY <1>1, <1>3, <2>1 DEF Restored
<1> QED BY <1>2, <1>3

LEMMA AdmitTypes ==
  ASSUME ProcessOK, NEW x \in Executors, Admit(x)
  PROVE  entry' \in Entry /\ at' \in [Executors -> {"free", "running", "probing"}]
BY BreakerTypes DEF ProcessOK, Admit

LEMMA TypeStep == TypeInv /\ [Next]_vars => TypeInv'
<1> SUFFICES ASSUME StoreOK, ProcessOK, Flushing, [Next]_vars
             PROVE  StoreOK' /\ ProcessOK' /\ Flushing'
  BY DEF TypeInv, TypeOK
<1> USE DEF processVars
<1>1. ASSUME UNCHANGED storeVars
      PROVE  StoreOK' /\ Flushing'
  BY <1>1 DEF storeVars, StoreOK, Flushing
<1>2. CASE Initialize
  BY <1>1, <1>2 DEF Initialize, ProcessOK
<1>3. CASE Loaded
  <2>1. StoreOK' /\ Flushing'
    BY <1>3 DEF Loaded, StoreOK, Flushing
  <2>2. CASE disk = None
    BY <1>3, <2>1, <2>2 DEF Loaded, ProcessOK
  <2>3. CASE disk # None
    <3>1. disk.queue \in Seq(Requests) /\ disk.entry \in Entry
      BY <2>3 DEF StoreOK, Snapshots
    <3>2. queue' \in Seq(Requests) /\ Len(queue') <= MaxLength
      BY <1>3, <2>3, <3>1, RestoredTypes DEF Loaded
    <3>3. entry' \in Entry
      BY <1>3, <2>3, <3>1, BreakerTypes DEF Loaded
    <3>4. streak' \in 0..FailureThreshold
      BY <1>3, <2>3, <3>1, ThresholdsAssumption DEF Loaded, Entry, Counts
    <3> QED BY <1>3, <2>1, <3>2, <3>3, <3>4 DEF Loaded, ProcessOK
  <2> QED BY <2>2, <2>3
<1>4. CASE LoadFails
  BY <1>1, <1>4 DEF LoadFails, ProcessOK
<1>5. CASE Enqueue
  <2>1. accepted + 1 \in Requests /\ accepted' \in 0..MaxRequests
    BY <1>5, SupervisorAssumption DEF Enqueue, ProcessOK, Requests
  <2>2. queue' \in Seq(Requests) /\ Len(queue') = Len(queue) + 1
    BY <1>5, <2>1, AppendProperties DEF Enqueue, ProcessOK
  <2>3. Len(queue') <= MaxLength
    BY <1>5, <2>2, LenProperties, SupervisorAssumption DEF Enqueue, Room, ProcessOK
  <2>4. StoreOK' /\ Flushing'
    BY <1>5, <2>2, PersistTypes, PersistIsStoreStep, FlushingKept DEF Enqueue, ProcessOK
  <2> QED BY <1>5, <2>1, <2>2, <2>3, <2>4 DEF Enqueue, ProcessOK
<1>6. CASE ProcessQueue
  <2>1. /\ queue' \in Seq(Requests) /\ Len(queue') = Len(queue) - 1
        /\ Head(queue) \in Requests
    BY <1>6, HeadTailProperties DEF ProcessQueue, ProcessOK
  <2>2. Len(queue') <= MaxLength /\ started' \in 0..MaxRequests
    BY <1>6, <2>1, LenProperties, SupervisorAssumption
       DEF ProcessQueue, ProcessOK, Requests
  <2>3. StoreOK' /\ Flushing'
    BY <1>6, <2>1, PersistTypes, PersistIsStoreStep, FlushingKept DEF ProcessQueue, ProcessOK
  <2>4. /\ entry' \in Entry /\ active' \in BOOLEAN
        /\ at' \in [Executors -> {"free", "running", "probing"}]
    <3>1. CASE Admit(Processor) /\ active' = TRUE
      BY <3>1, AdmitTypes DEF Executors
    <3>2. CASE UNCHANGED <<entry, at, active>>
      BY <3>2 DEF ProcessOK
    <3> QED BY <1>6, <3>1, <3>2 DEF ProcessQueue
  <2> QED BY <1>6, <2>1, <2>2, <2>3, <2>4 DEF ProcessQueue, ProcessOK
<1>7. ASSUME NEW x \in Callers, Execute(x)
      PROVE  StoreOK' /\ ProcessOK' /\ Flushing'
  BY <1>1, <1>7, AdmitTypes DEF Execute, ProcessOK, Executors
<1>8. ASSUME NEW x \in Executors, Succeed(x) \/ Fail(x)
      PROVE  StoreOK' /\ ProcessOK' /\ Flushing'
  <2>1. entry' \in Entry
    BY <1>8, BreakerTypes DEF Succeed, Fail, ProcessOK
  <2>2. StoreOK' /\ Flushing'
    <3>1. PersistTransition(entry')
      BY <1>8 DEF Succeed, Fail
    <3>2. (\E s : ScheduleWrite(s)) \/ UNCHANGED storeVars
      BY <3>1, PersistIsStoreStep DEF PersistTransition
    <3> QED BY <2>1, <3>1, <3>2, TransitionTypes, FlushingKept
  <2>3. /\ active' \in BOOLEAN
        /\ at' \in [Executors -> {"free", "running", "probing"}]
    BY <1>8 DEF Succeed, Fail, Settle, ProcessOK
  <2>4. streak' \in 0..FailureThreshold
    BY <1>8, ThresholdsAssumption DEF Succeed, Fail, ProcessOK
  <2> QED BY <1>8, <2>1, <2>2, <2>3, <2>4 DEF Succeed, Fail, ProcessOK
<1>9. CASE GetStatus
  BY <1>1, <1>9, BreakerTypes DEF GetStatus, ProcessOK
<1>10. CASE TimePasses
  <2>1. entry' \in Entry
    BY <1>10 DEF TimePasses, ProcessOK, Entry
  <2> QED BY <1>1, <1>10, <2>1 DEF TimePasses, ProcessOK
<1>11. CASE StoreStep
  <2>1. left' \in Left \cup {None}
    BY <1>11 DEF StoreStep, ProcessOK
  <2> QED BY <1>11, <2>1, StoreStepTypes, FlushingKept DEF StoreStep, ProcessOK
<1>12. CASE Shutdown
  <2>1. <<>> \in Seq(Requests) /\ Len(<<>>) <= MaxLength
    BY EmptySeq, SupervisorAssumption
  <2>2. StoreOK' /\ Flushing'
    BY <1>12, CloseTypes, FlushingKept, <1>1 DEF Shutdown
  <2>3. left' \in Left \cup {None}
    <3>1. [queue |-> queue, working |-> entry.state = "CLOSED"] \in Left
      BY DEF Left, ProcessOK
    <3> QED BY <1>12, <3>1 DEF Shutdown, ProcessOK
  <2> QED BY <1>12, <2>1, <2>2, <2>3 DEF Shutdown, ProcessOK
<1>13. CASE Exit \/ Crash
  <2>1. <<>> \in Seq(Requests) /\ Len(<<>>) <= MaxLength /\ <<>> \in Seq(Flushes)
    BY EmptySeq, SupervisorAssumption
  <2>2. StoreEnds /\ ProcessEnds
    BY <1>13 DEF Exit, Crash, ProcessEnds
  <2>3. StoreOK' /\ Flushing'
    BY <2>1, <2>2, FlushingKept DEF StoreEnds, StoreOK
  <2>4. left' \in Left \cup {None}
    BY <1>13 DEF Exit, Crash, ProcessOK
  <2>5. at' \in [Executors -> {"free", "running", "probing"}]
    BY <2>2 DEF ProcessEnds
  <2>6. 0 \in 0..MaxRequests /\ 0 \in 0..FailureThreshold
    BY SupervisorAssumption, ThresholdsAssumption
  <2> QED BY <2>1, <2>2, <2>3, <2>4, <2>5, <2>6, NewEntryType DEF ProcessEnds, ProcessOK
<1>14. CASE UNCHANGED vars
  BY <1>1, <1>14 DEF vars, ProcessOK
<1> QED
  BY <1>2, <1>3, <1>4, <1>5, <1>6, <1>7, <1>8, <1>9, <1>10, <1>11, <1>12,
     <1>13, <1>14 DEF Next

\* Every variable of the supervisor and its parts keeps its type; in particular
\* no restart and no schedule of calls overfills the queue.
THEOREM TypeCorrect == Spec => []TypeOK
<1>1. Init => TypeInv
  BY TypeInit
<1>2. TypeInv /\ [Next]_vars => TypeInv'
  BY TypeStep
<1>3. TypeInv => TypeOK
  BY DEF TypeInv
<1> QED BY <1>1, <1>2, <1>3, PTL DEF Spec

LEMMA TypeInvariant == Spec => []TypeInv
BY TypeInit, TypeStep, PTL DEF Spec

-----------------------------------------------------------------------------
(* The lease of a half-open breaker.                                        *)

LEMMA LeaseStep == TypeInv /\ LeaseOwned /\ [Next]_vars => LeaseOwned'
<1> SUFFICES ASSUME ProcessOK, StoreOK, LeaseOwned, [Next]_vars
             PROVE  LeaseOwned'
  BY DEF TypeInv, TypeOK
<1> USE DEF processVars
<1>1. ASSUME UNCHANGED <<entry, at>>
      PROVE  LeaseOwned'
  BY <1>1 DEF LeaseOwned
<1>2. ASSUME entry'.state = "HALF_OPEN" => ~ entry'.halfOpenInFlight
      PROVE  LeaseOwned'
  BY <1>2 DEF LeaseOwned
<1>3. ASSUME NEW x \in Executors, Admit(x)
      PROVE  LeaseOwned'
  <2>1. entry'.state = "HALF_OPEN" => at'[x] = "probing"
    BY <1>3, GateLeases DEF Admit, ProcessOK
  <2> QED BY <2>1 DEF LeaseOwned
<1>4. CASE Loaded
  <2>1. CASE disk = None
    BY <1>1, <1>4, <2>1 DEF Loaded
  <2>2. CASE disk # None
    <3>1. disk.entry \in Entry
      BY <2>2 DEF StoreOK, Snapshots
    <3>2. entry'.state # "HALF_OPEN"
      BY <1>4, <2>2, <3>1 DEF Loaded, Imported, Entry
    <3> QED BY <1>2, <3>2
  <2> QED BY <2>1, <2>2
<1>5. ASSUME NEW x \in Executors, Succeed(x) \/ Fail(x)
      PROVE  LeaseOwned'
  BY <1>2, <1>5, ResultsReturnLease DEF Succeed, Fail, ProcessOK
<1>6. CASE ProcessQueue
  <2>1. Admit(Processor) \/ UNCHANGED <<entry, at>>
    BY <1>6 DEF ProcessQueue
  <2> QED BY <1>1, <1>3, <2>1 DEF Executors
<1>7. ASSUME NEW x \in Callers, Execute(x)
      PROVE  LeaseOwned'
  BY <1>3, <1>7 DEF Execute, Executors
<1>8. CASE GetStatus
  <2>1. entry' = entry \/ ~ entry'.halfOpenInFlight
    BY <1>8 DEF GetStatus, MoveOpenToHalfOpenIfReady, ProcessOK, Entry
  <2>2. at' = at
    BY <1>8 DEF GetStatus
  <2> QED BY <1>1, <1>2, <2>1, <2>2
<1>9. CASE TimePasses
  <2>1. entry'.state = "OPEN"
    BY <1>9 DEF TimePasses, ProcessOK, Entry
  <2> QED BY <1>2, <2>1
<1>10. CASE Exit \/ Crash
  <2>1. entry'.state = "CLOSED"
    BY <1>10 DEF Exit, Crash, ProcessEnds, NewEntry
  <2> QED BY <1>2, <2>1
<1>11. CASE UNCHANGED vars \/ Initialize \/ LoadFails \/ Enqueue \/ StoreStep \/ Shutdown
  BY <1>1, <1>11 DEF vars, Initialize, LoadFails, Enqueue, StoreStep, Shutdown
<1> QED BY <1>4, <1>5, <1>6, <1>7, <1>8, <1>9, <1>10, <1>11 DEF Next

\* Whatever calls overlap, the lease of a half-open breaker is in the hands of a
\* call that is running: no schedule of probes, late results, status requests
\* and restarts leaves a skill refused for good.
THEOREM LeaseOwnedHolds == Spec => []LeaseOwned
<1>1. Init => LeaseOwned
  BY DEF Init, ProcessInit, NewEntry, LeaseOwned
<1> QED BY <1>1, LeaseStep, TypeInvariant, PTL DEF Spec

-----------------------------------------------------------------------------
(* What the store holds it was given: a set that has all it holds, and what *)
(* it is given, has all it holds later.                                     *)

LEMMA StoreMoves ==
  ASSUME NEW G, None \in G, disk \in G, pending \in G, writing \in G,
         \/ \E s : s \in G /\ ScheduleWrite(s)
         \/ Close
         \/ StoreStep
         \/ StoreEnds
         \/ UNCHANGED storeVars
  PROVE  disk' \in G /\ pending' \in G /\ writing' \in G
<1>1. CASE \E s : s \in G /\ ScheduleWrite(s)
  BY <1>1 DEF ScheduleWrite, storeVars
<1>2. CASE Close
  BY <1>2 DEF Close, Flush, RunFlushes
<1>3. CASE StoreStep
  BY <1>3 DEF StoreStep, TimerFires, WriteEnds, WriteFails, RunFlushes
<1>4. CASE StoreEnds \/ UNCHANGED storeVars
  BY <1>4 DEF StoreEnds, storeVars
<1> QED BY <1>1, <1>2, <1>3, <1>4

-----------------------------------------------------------------------------
(* Tripping.  The count of the entry is the streak, and that of a stored    *)
(* entry that is closed is below the threshold, so a restart keeps it so.   *)

CountOK(s) ==
  s # None => (s.entry.state = "CLOSED" => s.entry.failureCount < FailureThreshold)

TripInv ==
  /\ entry.state = "CLOSED"
       => entry.failureCount = streak /\ streak < FailureThreshold
  /\ CountOK(disk) /\ CountOK(pending) /\ CountOK(writing)

LEMMA TripStoreStep ==
  ASSUME CountOK(disk), CountOK(pending), CountOK(writing),
         \/ \E s : CountOK(s) /\ ScheduleWrite(s)
         \/ Close
         \/ StoreStep
         \/ StoreEnds
         \/ UNCHANGED storeVars
  PROVE  CountOK(disk)' /\ CountOK(pending)' /\ CountOK(writing)'
<1> DEFINE S == {disk, pending, writing, None, disk', pending', writing'}
           G == {s \in S : CountOK(s)}
<1>1. None \in G /\ disk \in G /\ pending \in G /\ writing \in G
  BY DEF CountOK
<1>2. \/ \E s : s \in G /\ ScheduleWrite(s)
      \/ Close \/ StoreStep \/ StoreEnds \/ UNCHANGED storeVars
  BY DEF ScheduleWrite, storeVars
<1>3. disk' \in G /\ pending' \in G /\ writing' \in G
  BY <1>1, <1>2, StoreMoves
<1> QED BY <1>3 DEF CountOK

LEMMA SuccessCloses ==
  ASSUME NEW e \in Entry
  PROVE  RecordSuccess(e).state = "CLOSED" => RecordSuccess(e).failureCount = 0
BY DEF RecordSuccess, NewEntry, Probed, Entry

LEMMA FailureCounts ==
  ASSUME NEW e \in Entry, RecordFailure(e).state = "CLOSED"
  PROVE  /\ e.state = "CLOSED"
         /\ RecordFailure(e).failureCount = e.failureCount + 1
         /\ e.failureCount + 1 < FailureThreshold
<1>1. e.state = "CLOSED"
  BY DEF RecordFailure, Opened, Entry
<1>2. e.failureCount \in Nat
  BY DEF Entry, Counts
<1>3. ~ (e.failureCount + 1 >= FailureThreshold)
  <2>1. Opened(e).state = "OPEN"
    BY DEF Opened, Entry
  <2> QED BY <1>1, <2>1 DEF RecordFailure
<1> QED BY <1>1, <1>2, <1>3, ThresholdsAssumption DEF RecordFailure, Entry

LEMMA TripStep == TypeInv /\ TripInv /\ [Next]_vars => TripInv'
<1> SUFFICES ASSUME StoreOK, ProcessOK, TripInv, [Next]_vars
             PROVE  TripInv'
  BY DEF TypeInv, TypeOK
<1> USE DEF processVars
<1> DEFINE EntryOK == entry.state = "CLOSED"
                        => entry.failureCount = streak /\ streak < FailureThreshold
           Kept == CountOK(disk) /\ CountOK(pending) /\ CountOK(writing)
<1>1. EntryOK /\ Kept
  BY DEF TripInv
<1>2. ASSUME EntryOK', \/ \E s : CountOK(s) /\ ScheduleWrite(s)
                      \/ Close
                      \/ StoreStep
                      \/ StoreEnds
                      \/ UNCHANGED storeVars
      PROVE  TripInv'
  <2>1. Kept'
    BY <1>1, <1>2, TripStoreStep
  <2> QED BY <1>2, <2>1 DEF TripInv
<1>3. ASSUME UNCHANGED <<entry, streak>>
      PROVE  EntryOK'
  BY <1>1, <1>3
<1>4. ASSUME NEW q, NEW e \in Entry, Persist(q, e),
             e.state = "CLOSED" => e.failureCount < FailureThreshold
      PROVE  (\E s : CountOK(s) /\ ScheduleWrite(s)) \/ UNCHANGED storeVars
  <2>1. CountOK(Snapshot(q, e))
    BY <1>4 DEF CountOK, Snapshot, Exported, Entry
  <2> QED BY <1>4, <2>1 DEF Persist
<1> HIDE DEF EntryOK, Kept
<1>5. ASSUME NEW q, Persist(q, entry)
      PROVE  (\E s : CountOK(s) /\ ScheduleWrite(s)) \/ UNCHANGED storeVars
  BY <1>1, <1>4, <1>5 DEF EntryOK, ProcessOK
<1>6. ASSUME NEW x, Admit(x), UNCHANGED streak
      PROVE  EntryOK'
  BY <1>1, <1>6, GateLeases DEF Admit, EntryOK, ProcessOK
<1>7. CASE Loaded
  <2>1. disk' = disk /\ pending' = pending /\ writing' = writing
    BY <1>7 DEF Loaded
  <2>2. EntryOK'
    <3>1. CASE disk = None
      BY <1>3, <1>7, <3>1 DEF Loaded
    <3>2. CASE disk # None
      <4>1. disk.entry \in Entry
        BY <3>2 DEF StoreOK, Snapshots
      <4>2. entry'.state = "CLOSED"
              => disk.entry.state = "CLOSED" /\ entry'.failureCount = disk.entry.failureCount
        BY <1>7, <3>2, <4>1 DEF Loaded, Imported, Entry
      <4>3. CountOK(disk)
        BY <1>1 DEF Kept
      <4> QED BY <1>7, <3>2, <4>2, <4>3 DEF Loaded, CountOK, EntryOK
    <3> QED BY <3>1, <3>2
  <2> QED BY <1>1, <2>1, <2>2 DEF TripInv, EntryOK, Kept
<1>8. CASE Enqueue
  BY <1>2, <1>3, <1>5, <1>8 DEF Enqueue
<1>9. CASE ProcessQueue
  <2>1. EntryOK'
    BY <1>3, <1>6, <1>9 DEF ProcessQueue
  <2> QED BY <1>2, <1>5, <1>9, <2>1 DEF ProcessQueue
<1>10. ASSUME NEW x \in Executors, Succeed(x)
       PROVE  TripInv'
  <2>1. entry' \in Entry /\ entry' = RecordSuccess(entry) /\ streak' = 0
    BY <1>10, BreakerTypes DEF Succeed, ProcessOK
  <2>2. entry'.state = "CLOSED" => entry'.failureCount = 0
    BY <2>1, SuccessCloses DEF ProcessOK
  <2>3. EntryOK' /\ (entry'.state = "CLOSED" => entry'.failureCount < FailureThreshold)
    BY <2>1, <2>2, ThresholdsAssumption DEF EntryOK
  <2> QED BY <1>2, <1>4, <1>10, <2>1, <2>3 DEF Succeed, PersistTransition
<1>11. ASSUME NEW x \in Executors, Fail(x)
       PROVE  TripInv'
  <2>1. entry' \in Entry /\ entry' = RecordFailure(entry)
    BY <1>11, BreakerTypes DEF Fail, ProcessOK
  <2>2. ASSUME entry'.state = "CLOSED"
        PROVE  entry'.failureCount = streak' /\ streak' < FailureThreshold
    <3>1. /\ entry.state = "CLOSED" /\ entry'.failureCount = entry.failureCount + 1
          /\ entry.failureCount + 1 < FailureThreshold
      BY <2>1, <2>2, FailureCounts DEF ProcessOK
    <3>2. entry.failureCount = streak /\ streak < FailureThreshold
      BY <1>1, <3>1 DEF EntryOK
    <3>3. streak' = streak + 1
      BY <1>11, <3>2, ThresholdsAssumption DEF Fail, ProcessOK
    <3> QED BY <3>1, <3>2, <3>3
  <2>3. EntryOK' /\ (entry'.state = "CLOSED" => entry'.failureCount < FailureThreshold)
    BY <2>2 DEF EntryOK
  <2> QED BY <1>2, <1>4, <1>11, <2>1, <2>3 DEF Fail, PersistTransition
<1>12. CASE GetStatus
  <2>1. entry'.state = "CLOSED" => entry' = entry
    BY <1>12 DEF GetStatus, MoveOpenToHalfOpenIfReady, ProcessOK, Entry
  <2>2. EntryOK'
    BY <1>1, <1>12, <2>1 DEF GetStatus, EntryOK
  <2> QED BY <1>2, <1>12, <2>2 DEF GetStatus
<1>13. CASE TimePasses
  <2>1. entry'.state = "OPEN"
    BY <1>13 DEF TimePasses, ProcessOK, Entry
  <2>2. EntryOK'
    BY <2>1 DEF EntryOK
  <2> QED BY <1>2, <1>13, <2>2 DEF TimePasses
<1>14. CASE Exit \/ Crash
  <2>1. StoreEnds /\ entry' = NewEntry /\ streak' = 0
    BY <1>14 DEF Exit, Crash, ProcessEnds
  <2>2. EntryOK'
    BY <2>1, ThresholdsAssumption DEF NewEntry, EntryOK
  <2> QED BY <1>2, <2>1, <2>2
<1>15. ASSUME NEW x \in Callers, Execute(x)
       PROVE  TripInv'
  BY <1>2, <1>6, <1>15 DEF Execute
<1>16. CASE Initialize \/ LoadFails \/ UNCHANGED vars
  BY <1>2, <1>3, <1>16 DEF Initialize, LoadFails, vars
<1>17. CASE StoreStep
  BY <1>2, <1>3, <1>17 DEF StoreStep
<1>18. CASE Shutdown
  BY <1>2, <1>3, <1>18 DEF Shutdown
<1> QED
  BY <1>7, <1>8, <1>9, <1>10, <1>11, <1>12, <1>13, <1>14, <1>15, <1>16, <1>17,
     <1>18 DEF Next

\* For every number of callers and every restart, FailureThreshold failures in a
\* row leave the breaker open or half open.
THEOREM TripsInTimeHolds == Spec => []TripsInTime
<1>1. Init => TripInv
  BY ThresholdsAssumption
     DEF Init, StoreInit, ProcessInit, NewEntry, TripInv, CountOK
<1>2. TripInv => TripsInTime
  BY DEF TripInv, TripsInTime
<1> QED BY <1>1, <1>2, TripStep, TypeInvariant, PTL DEF Spec

-----------------------------------------------------------------------------
(* The store forgets nothing it was given.  A snapshot that waits without a *)
(* timer has a flush behind the one that writes.                            *)

StrandInv == pending # None => timer \/ Len(chain) >= 2

\* What a step of the supervisor asks of the store.
LEMMA StoreActions ==
  ASSUME TypeInv, [Next]_vars
  PROVE  \/ \E s : phase = "ready" /\ ~ stopping /\ ScheduleWrite(s)
         \/ Shutdown /\ Close
         \/ StoreStep
         \/ StoreEnds
         \/ Loaded
         \/ UNCHANGED storeVars
<1>1. ASSUME NEW q, NEW e, Persist(q, e)
      PROVE  \/ \E s : phase = "ready" /\ ~ stopping /\ ScheduleWrite(s)
             \/ UNCHANGED storeVars
  BY <1>1 DEF Persist
<1>2. CASE Enqueue
  BY <1>1, <1>2 DEF Enqueue
<1>3. CASE ProcessQueue
  BY <1>1, <1>3 DEF ProcessQueue
<1>4. ASSUME NEW x \in Executors, Succeed(x) \/ Fail(x)
      PROVE  \/ \E s : phase = "ready" /\ ~ stopping /\ ScheduleWrite(s)
             \/ UNCHANGED storeVars
  BY <1>1, <1>4 DEF Succeed, Fail, PersistTransition
<1>5. CASE Shutdown
  BY <1>5 DEF Shutdown
<1>6. CASE Exit \/ Crash
  BY <1>6 DEF Exit, Crash, ProcessEnds
<1>7. ASSUME NEW x \in Callers, Execute(x)
      PROVE  UNCHANGED storeVars
  BY <1>7 DEF Execute
<1>8. CASE Initialize \/ LoadFails \/ GetStatus \/ TimePasses \/ UNCHANGED vars
  BY <1>8 DEF Initialize, LoadFails, GetStatus, TimePasses, vars
<1> QED BY <1>2, <1>3, <1>4, <1>5, <1>6, <1>7, <1>8 DEF Next

\* The length of a chain that a flush joins or leaves.
LEMMA ChainLengths ==
  ASSUME StoreOK
  PROVE  /\ Len(chain) \in Nat
         /\ chain # <<>> => Len(chain) >= 1
         /\ \A kind \in Flushes : Len(Append(chain, kind)) = Len(chain) + 1
<1>1. chain \in Seq(Flushes)
  BY DEF StoreOK
<1> QED BY <1>1, EmptySeq, LenProperties, AppendProperties

LEMMA StrandStep == TypeInv /\ StrandInv /\ [Next]_vars => StrandInv'
<1> SUFFICES ASSUME TypeInv, StrandInv, [Next]_vars
             PROVE  StrandInv'
  OBVIOUS
<1>1. StoreOK /\ Flushing
  BY DEF TypeInv, TypeOK
<1>2. ASSUME pending' = None \/ timer'
      PROVE  StrandInv'
  BY <1>2 DEF StrandInv
<1>3. ASSUME NEW s, ScheduleWrite(s)
      PROVE  StrandInv'
  <2>1. CASE closed
    BY <1>3, <2>1 DEF ScheduleWrite, storeVars, StrandInv
  <2>2. CASE ~ closed
    BY <1>2, <1>3, <2>2 DEF ScheduleWrite
  <2> QED BY <2>1, <2>2
<1>4. ASSUME NEW kind \in Flushes, chain # <<>>, chain' = Append(chain, kind)
      PROVE  Len(chain') >= 2
  BY <1>1, <1>4, ChainLengths
<1>5. CASE Close
  <2>1. CASE chain = <<>>
    BY <1>2, <1>5, <2>1 DEF Close, Flush, RunFlushes
  <2>2. CASE chain # <<>>
    BY <1>4, <1>5, <2>2 DEF Close, Flush, Flushes, StrandInv
  <2> QED BY <2>1, <2>2
<1>6. CASE TimerFires
  <2>1. CASE chain = <<>>
    BY <1>2, <1>6, <2>1 DEF TimerFires, RunFlushes
  <2>2. CASE chain # <<>>
    BY <1>4, <1>6, <2>2 DEF TimerFires, Flushes, StrandInv
  <2> QED BY <2>1, <2>2
<1>7. CASE WriteEnds
  <2>1. pending' = None
    BY <1>7 DEF WriteEnds
  <2> QED BY <1>2, <2>1
<1>8. CASE WriteFails
  <2>1. CASE Len(chain) = 1
    <3>1. pending # None => timer
      BY <2>1 DEF StrandInv
    <3>2. pending' = pending /\ timer' = timer
      BY <1>8, <2>1 DEF WriteFails
    <3> QED BY <1>2, <3>1, <3>2
  <2>2. CASE Len(chain) # 1
    BY <1>2, <1>8, <2>2 DEF WriteFails, RunFlushes
  <2> QED BY <2>1, <2>2
<1>9. CASE StoreEnds
  BY <1>2, <1>9 DEF StoreEnds
<1>10. CASE Loaded \/ UNCHANGED storeVars
  BY <1>10 DEF Loaded, storeVars, StrandInv
<1> QED
  BY <1>3, <1>5, <1>6, <1>7, <1>8, <1>9, <1>10, StoreActions DEF StoreStep

\* However snapshots, timers, flushes and failed writes overlap, a snapshot that
\* waits will be picked up.
THEOREM NothingStrandedHolds == Spec => []NothingStranded
<1>1. Init => StrandInv
  BY DEF Init, StoreInit, StrandInv
<1>2. TypeInv /\ StrandInv => NothingStranded
  <2> SUFFICES ASSUME TypeInv, StrandInv, pending # None, ~ timer
               PROVE  writing # None
    BY DEF NothingStranded
  <2>1. Len(chain) >= 2
    BY DEF StrandInv
  <2>2. chain # <<>>
    <3>1. Len(<<>>) = 0
      BY EmptySeq
    <3>2. Len(chain) # 0
      BY <2>1
    <3> QED BY <3>1, <3>2, Zenon
  <2> QED BY <2>2 DEF TypeInv, Flushing
<1> QED BY <1>1, <1>2, StrandStep, TypeInvariant, PTL DEF Spec

-----------------------------------------------------------------------------
(* Order of arrival.  In a line, requests after lo and up to hi stand in    *)
(* order.                                                                   *)

Line(q, lo, hi) ==
  \A i \in 1..Len(q) :
    /\ lo < q[i] /\ q[i] <= hi
    /\ \A j \in 1..Len(q) : i < j => q[i] < q[j]

LineOK(s, hi) == s # None => Line(s.queue, 0, hi)

ArrivalInv ==
  /\ Line(queue, started, accepted)
  /\ started <= accepted
  /\ phase # "ready" => started = 0
  /\ LineOK(disk, accepted) /\ LineOK(pending, accepted) /\ LineOK(writing, accepted)

LEMMA RequestsAreNumbers == Requests \subseteq Nat \ {0}
BY SupervisorAssumption DEF Requests

LEMMA LineEmpty ==
  ASSUME NEW lo, NEW hi
  PROVE  Line(<<>>, lo, hi)
<1>1. Len(<<>>) = 0
  BY EmptySeq
<1> QED BY <1>1 DEF Line

LEMMA LineAppend ==
  ASSUME NEW q \in Seq(Requests), NEW lo \in Nat, NEW hi \in Nat, lo <= hi,
         hi + 1 \in Requests, Line(q, lo, hi)
  PROVE  Line(Append(q, hi + 1), lo, hi + 1)
<1> DEFINE r == Append(q, hi + 1)
<1>1. /\ Len(q) \in Nat /\ Len(r) = Len(q) + 1
      /\ \A i \in 1..Len(q) : r[i] = q[i] /\ q[i] \in Requests
      /\ r[Len(q) + 1] = hi + 1
  <2>2. Len(q) \in Nat /\ \A i \in 1..Len(q) : q[i] \in Requests
    BY LenProperties, ElementOfSeq
  <2>3. /\ Len(r) = Len(q) + 1
        /\ \A i \in 1..Len(q) : r[i] = q[i]
        /\ r[Len(q) + 1] = hi + 1
    BY AppendProperties
  <2> QED BY <2>2, <2>3
<1> HIDE DEF r
<1>2. ASSUME NEW i \in 1..Len(r)
      PROVE  /\ lo < r[i] /\ r[i] <= hi + 1
             /\ \A j \in 1..Len(r) : i < j => r[i] < r[j]
  <2>1. CASE i \in 1..Len(q)
    <3>1. r[i] = q[i] /\ lo < q[i] /\ q[i] <= hi /\ q[i] \in Nat
      BY <1>1, <2>1, RequestsAreNumbers DEF Line
    <3>2. ASSUME NEW j \in 1..Len(r), i < j
          PROVE  r[i] < r[j]
      <4>1. CASE j \in 1..Len(q)
        BY <1>1, <2>1, <3>2, <4>1 DEF Line
      <4>2. CASE j = Len(q) + 1
        BY <1>1, <3>1, <4>2
      <4> QED BY <1>1, <4>1, <4>2
    <3> QED BY <3>1, <3>2
  <2>2. CASE i = Len(q) + 1
    BY <1>1, <2>2
  <2> QED BY <1>1, <2>1, <2>2
<1> QED BY <1>2 DEF Line, r

LEMMA LineTail ==
  ASSUME NEW q \in Seq(Requests), NEW lo \in Nat, NEW hi \in Nat, q # <<>>,
         Line(q, lo, hi)
  PROVE  /\ lo < Head(q) /\ Head(q) <= hi
         /\ Line(Tail(q), Head(q), hi)
<1> DEFINE t == Tail(q)
<1>1. /\ Len(t) = Len(q) - 1 /\ Len(q) \in Nat /\ Len(q) >= 1
      /\ \A i \in 1..Len(t) : t[i] = q[i + 1]
  BY EmptySeq, LenProperties, HeadTailProperties
<1>2. Head(q) = q[1]
  OBVIOUS
<1> HIDE DEF t
<1>3. lo < q[1] /\ q[1] <= hi
  BY <1>1 DEF Line
<1>4. ASSUME NEW i \in 1..Len(t)
      PROVE  /\ q[1] < t[i] /\ t[i] <= hi
             /\ \A j \in 1..Len(t) : i < j => t[i] < t[j]
  <2>1. i + 1 \in 1..Len(q) /\ 1 \in 1..Len(q) /\ 1 < i + 1
    BY <1>1
  <2>2. ASSUME NEW j \in 1..Len(t), i < j
        PROVE  t[i] < t[j]
    <3>1. j + 1 \in 1..Len(q) /\ i + 1 < j + 1
      BY <1>1, <2>2
    <3> QED BY <1>1, <2>1, <3>1 DEF Line
  <2> QED BY <1>1, <2>1, <2>2 DEF Line
<1> QED BY <1>2, <1>3, <1>4 DEF Line, t

LEMMA LineWiden ==
  ASSUME NEW q \in Seq(Requests), NEW lo, NEW hi \in Nat, Line(q, lo, hi)
  PROVE  Line(q, lo, hi + 1)
<1>1. \A i \in 1..Len(q) : q[i] \in Nat
  BY ElementOfSeq, RequestsAreNumbers
<1> QED BY <1>1 DEF Line

\* A restored queue is the front of what was stored.
LEMMA LineRestored ==
  ASSUME NEW q \in Seq(Requests), NEW lo, NEW hi, Line(q, lo, hi)
  PROVE  Line(Restored(q), lo, hi)
<1>1. CASE Len(q) <= MaxLength
  BY <1>1 DEF Restored
<1>2. CASE ~ (Len(q) <= MaxLength)
  <2> DEFINE r == SubSeq(q, 1, MaxLength)
  <2>1. MaxLength \in Nat \ {0} /\ Len(q) \in Nat
    BY SupervisorAssumption, LenProperties
  <2>2. \A i \in 1..MaxLength : q[i] \in Requests
    BY <1>2, <2>1, ElementOfSeq
  <2>3. Len(r) = MaxLength /\ \A i \in 1..MaxLength : r[i] = q[i]
    <3>1. /\ Len(r) = IF 1 <= MaxLength THEN MaxLength - 1 + 1 ELSE 0
          /\ \A i \in 1..(MaxLength - 1 + 1) : r[i] = q[1 + i - 1]
      BY <2>1, <2>2, SubSeqProperties
    <3> QED BY <2>1, <3>1
  <2>4. \A i \in 1..MaxLength : i \in 1..Len(q)
    BY <1>2, <2>1
  <2> HIDE DEF r
  <2>5. Line(r, lo, hi)
    BY <2>3, <2>4 DEF Line
  <2> QED BY <1>2, <2>5 DEF Restored, r
<1> QED BY <1>1, <1>2

\* What the store holds stays in line as more requests are accepted.
LEMMA LineStoreStep ==
  ASSUME StoreOK, NEW lo \in Nat, NEW hi \in Nat, hi = lo \/ hi = lo + 1,
         LineOK(disk, lo), LineOK(pending, lo), LineOK(writing, lo),
         \/ \E s : LineOK(s, hi) /\ ScheduleWrite(s)
         \/ Close
         \/ StoreStep
         \/ StoreEnds
         \/ UNCHANGED storeVars
  PROVE  LineOK(disk', hi) /\ LineOK(pending', hi) /\ LineOK(writing', hi)
<1> DEFINE S == {disk, pending, writing, None, disk', pending', writing'}
           G == {s \in S : LineOK(s, hi)}
<1>1. ASSUME NEW s \in Snapshots \cup {None}, LineOK(s, lo)
      PROVE  LineOK(s, hi)
  <2>1. CASE s = None
    BY <2>1 DEF LineOK
  <2>2. CASE s # None
    <3>1. s.queue \in Seq(Requests) /\ Line(s.queue, 0, lo)
      BY <1>1, <2>2 DEF Snapshots, LineOK
    <3> QED BY <3>1, LineWiden DEF LineOK
  <2> QED BY <2>1, <2>2
<1>2. None \in G /\ disk \in G /\ pending \in G /\ writing \in G
  BY <1>1 DEF StoreOK, LineOK
<1>3. \/ \E s : s \in G /\ ScheduleWrite(s)
      \/ Close \/ StoreStep \/ StoreEnds \/ UNCHANGED storeVars
  BY DEF ScheduleWrite, storeVars
<1>4. disk' \in G /\ pending' \in G /\ writing' \in G
  BY <1>2, <1>3, StoreMoves
<1> QED BY <1>4

LEMMA LineFrom ==
  ASSUME NEW q \in Seq(Requests), NEW lo \in Nat, NEW hi, Line(q, lo, hi)
  PROVE  Line(q, 0, hi)
<1>1. \A i \in 1..Len(q) : q[i] \in Nat \ {0}
  BY ElementOfSeq, RequestsAreNumbers
<1> QED BY <1>1 DEF Line

LEMMA ArrivalStep == TypeInv /\ ArrivalInv /\ [Next]_vars => ArrivalInv'
<1> SUFFICES ASSUME TypeInv, ArrivalInv, [Next]_vars
             PROVE  ArrivalInv'
  OBVIOUS
<1> USE DEF processVars
<1>1. /\ StoreOK /\ ProcessOK
      /\ queue \in Seq(Requests) /\ started \in Nat /\ accepted \in Nat
  BY SupervisorAssumption DEF TypeInv, TypeOK, ProcessOK
<1> DEFINE Store(n) == LineOK(disk, n) /\ LineOK(pending, n) /\ LineOK(writing, n)
           StoreAct(n) == \/ \E s : LineOK(s, n) /\ ScheduleWrite(s)
                          \/ Close
                          \/ StoreStep
                          \/ StoreEnds
                          \/ UNCHANGED storeVars
<1>2. ASSUME accepted' = accepted \/ accepted' = accepted + 1, StoreAct(accepted')
      PROVE  /\ LineOK(disk', accepted') /\ LineOK(pending', accepted')
             /\ LineOK(writing', accepted')
  <2>1. accepted' \in Nat
    BY <1>1, <1>2
  <2> QED BY <1>1, <1>2, <2>1, LineStoreStep DEF ArrivalInv
<1>3. ASSUME UNCHANGED <<queue, started, accepted>>, StoreAct(accepted'),
             phase' = phase \/ phase' = "ready" \/ (phase = "new" /\ phase' = "loading")
      PROVE  ArrivalInv'
  BY <1>2, <1>3 DEF ArrivalInv
<1>4. ASSUME NEW q \in Seq(Requests), NEW e, NEW lo \in Nat, Line(q, lo, accepted'),
             Persist(q, e)
      PROVE  StoreAct(accepted')
  <2>1. LineOK(Snapshot(q, e), accepted')
    BY <1>4, LineFrom DEF LineOK, Snapshot
  <2> QED BY <1>4, <2>1 DEF Persist
<1> HIDE DEF StoreAct
<1>5. CASE Loaded
  <2>1. /\ UNCHANGED <<disk, pending, writing, started, accepted>>
        /\ started = 0 /\ phase' = "ready"
    BY <1>5 DEF Loaded, ArrivalInv
  <2>2. Line(queue', started', accepted')
    <3>1. CASE disk = None
      BY <1>5, <2>1, <3>1 DEF Loaded, ArrivalInv
    <3>2. CASE disk # None
      <4>1. disk.queue \in Seq(Requests) /\ Line(disk.queue, 0, accepted)
        BY <1>1, <3>2 DEF StoreOK, Snapshots, ArrivalInv, LineOK
      <4> QED BY <1>5, <2>1, <3>2, <4>1, LineRestored DEF Loaded
    <3> QED BY <3>1, <3>2
  <2> QED BY <2>1, <2>2 DEF ArrivalInv
<1>6. CASE Enqueue
  <2>1. /\ accepted' = accepted + 1 /\ accepted + 1 \in Requests
        /\ queue' = Append(queue, accepted + 1) /\ started' = started /\ phase' = phase
    BY <1>1, <1>6, SupervisorAssumption DEF Enqueue, Requests
  <2>2. queue' \in Seq(Requests)
    BY <1>1, <2>1, AppendProperties
  <2>3. Line(queue', started', accepted')
    BY <1>1, <2>1, LineAppend DEF ArrivalInv
  <2>4. StoreAct(accepted')
    BY <1>1, <1>4, <1>6, <2>1, <2>2, <2>3 DEF Enqueue
  <2> QED BY <1>1, <1>2, <2>1, <2>3, <2>4 DEF ArrivalInv
<1>7. CASE ProcessQueue
  <2>1. /\ queue # <<>> /\ accepted' = accepted /\ queue' = Tail(queue)
        /\ started' = Head(queue) /\ phase = "ready" /\ phase' = phase
    BY <1>7 DEF ProcessQueue
  <2>2. /\ queue' \in Seq(Requests) /\ started' \in Nat
        /\ Line(queue', started', accepted') /\ started' <= accepted'
    BY <1>1, <2>1, LineTail, HeadTailProperties, RequestsAreNumbers DEF ArrivalInv
  <2>3. StoreAct(accepted')
    BY <1>4, <1>7, <2>2 DEF ProcessQueue
  <2> QED BY <1>2, <2>1, <2>2, <2>3 DEF ArrivalInv
<1>8. ASSUME NEW x \in Executors, Succeed(x) \/ Fail(x)
      PROVE  ArrivalInv'
  <2>1. UNCHANGED <<queue, started, accepted, phase>> /\ PersistTransition(entry')
    BY <1>8 DEF Succeed, Fail
  <2>2. StoreAct(accepted')
    BY <1>1, <1>4, <2>1 DEF PersistTransition, ArrivalInv, StoreAct
  <2> QED BY <1>3, <2>1, <2>2
<1>9. CASE Shutdown
  <2>1. /\ queue' = <<>> /\ UNCHANGED <<started, accepted, phase>>
        /\ Close \/ UNCHANGED storeVars
    BY <1>9 DEF Shutdown
  <2> QED BY <1>2, <2>1, LineEmpty DEF ArrivalInv, StoreAct
<1>10. CASE Exit \/ Crash
  <2>1. queue' = <<>> /\ started' = 0 /\ accepted' = accepted /\ StoreEnds
    BY <1>10 DEF Exit, Crash, ProcessEnds
  <2> QED BY <1>1, <1>2, <2>1, LineEmpty DEF ArrivalInv, StoreAct
<1>11. ASSUME NEW x \in Callers, Execute(x)
       PROVE  ArrivalInv'
  BY <1>3, <1>11 DEF Execute, StoreAct
<1>12. CASE Initialize \/ LoadFails \/ GetStatus \/ TimePasses \/ StoreStep \/ UNCHANGED vars
  BY <1>3, <1>12 DEF Initialize, LoadFails, GetStatus, TimePasses, StoreStep, vars, StoreAct
<1> QED
  BY <1>5, <1>6, <1>7, <1>8, <1>9, <1>10, <1>11, <1>12 DEF Next

\* For any capacity of the queue and any number of requests, crashes, failed
\* writes and restarts, a process takes requests in the order of their arrival
\* and none twice.
THEOREM InArrivalOrderHolds == Spec => []InArrivalOrder
<1>1. Init => ArrivalInv
  BY LineEmpty DEF Init, StoreInit, ProcessInit, ArrivalInv, LineOK
<1>2. TypeInv /\ ArrivalInv => InArrivalOrder
  <2> SUFFICES ASSUME TypeInv, ArrivalInv
               PROVE  InArrivalOrder
    OBVIOUS
  <2>1. DOMAIN queue = 1..Len(queue)
    BY LenProperties DEF TypeInv, TypeOK, ProcessOK
  <2> QED BY <2>1 DEF ArrivalInv, Line, InArrivalOrder
<1> QED BY <1>1, <1>2, ArrivalStep, TypeInvariant, PTL DEF Spec

-----------------------------------------------------------------------------
(* A restart resumes what a clean shutdown left.  The argument has three    *)
(* parts: the newest snapshot agrees with memory until the shutdown begins; *)
(* the store has the newest snapshot, unless its write failed; and a close  *)
(* that has returned has written it.                                        *)

Agrees(s, q, working) == s.queue = q /\ (s.entry.state = "CLOSED") = working

Fits(s) == s # None => Len(s.queue) <= MaxLength

Newest == IF pending # None THEN pending ELSE IF writing # None THEN writing ELSE disk

CurrentInv ==
  phase = "ready" /\ ~ stopping /\ latest # None
    => Agrees(latest, queue, entry.state = "CLOSED")

NewestInv ==
  /\ latest # None /\ ~ dropped => latest = Newest
  /\ latest = None => pending = None /\ writing = None
  /\ dropped => pending = None
  /\ phase # "ready" => latest = None /\ ~ closed

ClosingInv ==
  /\ closed => stopping
  /\ closed /\ pending # None => \E i \in 2..Len(chain) : chain[i] = "close"
  /\ closed /\ ~ Closing => writing = None

LeftInv ==
  left # None
    => IF phase = "ready"
       THEN stopping /\ closed /\ ~ dropped /\ latest # None
            /\ Agrees(latest, left.queue, left.working)
       ELSE disk # None /\ Agrees(disk, left.queue, left.working)

FitsInv == Fits(disk) /\ Fits(pending) /\ Fits(writing)

LEMMA SnapshotAgrees ==
  ASSUME NEW q \in Seq(Requests), NEW e \in Entry
  PROVE  Agrees(Snapshot(q, e), q, e.state = "CLOSED") /\ Snapshot(q, e) # None
<1>1. Snapshot(q, e) \in Snapshots
  BY SnapshotTypes
<1>2. Exported(e).state = e.state
  BY DEF Exported, Entry
<1> QED BY <1>1, <1>2, NoneAssumption DEF Agrees, Snapshot

LEMMA FitsStep == TypeInv /\ FitsInv /\ [Next]_vars => FitsInv'
<1> SUFFICES ASSUME TypeInv, FitsInv, [Next]_vars
             PROVE  FitsInv'
  OBVIOUS
<1>1. TypeInv'
  BY TypeStep
<1> DEFINE S == {disk, pending, writing, None, disk', pending', writing'}
           G == {s \in S : Fits(s)}
<1>2. None \in G /\ disk \in G /\ pending \in G /\ writing \in G
  BY DEF FitsInv, Fits
<1>3. ASSUME NEW q, Len(q) <= MaxLength, NEW e, Persist(q, e)
      PROVE  (\E s : s \in G /\ ScheduleWrite(s)) \/ UNCHANGED storeVars
  <2>1. Fits(Snapshot(q, e))
    BY <1>3 DEF Fits, Snapshot
  <2> QED BY <1>3, <2>1 DEF Persist, ScheduleWrite
<1>4. ASSUME \/ \E s : s \in G /\ ScheduleWrite(s)
             \/ Close \/ StoreStep \/ StoreEnds \/ UNCHANGED storeVars
      PROVE  FitsInv'
  <2>1. disk' \in G /\ pending' \in G /\ writing' \in G
    BY <1>2, <1>4, StoreMoves
  <2> QED BY <2>1 DEF FitsInv, Fits
<1> HIDE DEF G
<1>5. Len(queue) <= MaxLength /\ Len(queue') <= MaxLength
  BY <1>1 DEF TypeInv, TypeOK, ProcessOK
<1>6. CASE Enqueue \/ ProcessQueue
  BY <1>3, <1>4, <1>5, <1>6 DEF Enqueue, ProcessQueue
<1>7. ASSUME NEW x \in Executors, Succeed(x) \/ Fail(x)
      PROVE  FitsInv'
  BY <1>3, <1>4, <1>5, <1>7 DEF Succeed, Fail, PersistTransition
<1>8. CASE Loaded
  BY <1>8 DEF Loaded, FitsInv, Fits
<1>9. CASE Shutdown \/ Exit \/ Crash
  BY <1>4, <1>9 DEF Shutdown, Exit, Crash, ProcessEnds
<1>10. ASSUME NEW x \in Callers, Execute(x)
       PROVE  FitsInv'
  BY <1>4, <1>10 DEF Execute
<1>11. CASE Initialize \/ LoadFails \/ GetStatus \/ TimePasses \/ StoreStep \/ UNCHANGED vars
  BY <1>4, <1>11 DEF Initialize, LoadFails, GetStatus, TimePasses, vars
<1> QED
  BY <1>6, <1>7, <1>8, <1>9, <1>10, <1>11 DEF Next

\* Memory and the newest snapshot.
LEMMA CurrentStep ==
  TypeInv /\ FitsInv /\ NewestInv /\ ClosingInv /\ CurrentInv /\ [Next]_vars
    => CurrentInv'
<1> SUFFICES ASSUME TypeInv, FitsInv, NewestInv, ClosingInv, CurrentInv, [Next]_vars,
                    phase' = "ready", ~ stopping', latest' # None
             PROVE  Agrees(latest', queue', entry'.state = "CLOSED")
  BY DEF CurrentInv
<1> USE DEF processVars
<1>1. TypeInv'
  BY TypeStep
<1>2. /\ StoreOK /\ ProcessOK
      /\ queue' \in Seq(Requests) /\ entry' \in Entry
      /\ queue \in Seq(Requests) /\ entry \in Entry
  BY <1>1 DEF TypeInv, TypeOK, ProcessOK
<1>3. ASSUME UNCHANGED <<phase, stopping, latest, queue>>,
             (entry'.state = "CLOSED") = (entry.state = "CLOSED")
      PROVE  Agrees(latest', queue', entry'.state = "CLOSED")
  BY <1>3 DEF CurrentInv, Agrees
<1>4. ASSUME NEW e \in Entry, Persist(queue', e), UNCHANGED <<phase, stopping>>,
             (entry'.state = "CLOSED") = (e.state = "CLOSED")
      PROVE  Agrees(latest', queue', entry'.state = "CLOSED")
  <2>1. latest' = Snapshot(queue', e)
    BY <1>4 DEF Persist, ScheduleWrite, ClosingInv
  <2>2. Agrees(Snapshot(queue', e), queue', e.state = "CLOSED")
    BY <1>2, <1>4, SnapshotAgrees
  <2> QED BY <1>4, <2>1, <2>2
<1>5. CASE Loaded
  <2>1. latest' = disk /\ disk # None
    BY <1>5 DEF Loaded
  <2>2. disk.queue \in Seq(Requests) /\ disk.entry \in Entry /\ Len(disk.queue) <= MaxLength
    BY <1>2, <2>1 DEF StoreOK, Snapshots, FitsInv, Fits
  <2>3. queue' = disk.queue
    BY <1>5, <2>1, <2>2, RestoredTypes DEF Loaded
  <2>4. (entry'.state = "CLOSED") = (disk.entry.state = "CLOSED")
    BY <1>5, <2>1, <2>2 DEF Loaded, Imported, Entry
  <2> QED BY <2>1, <2>3, <2>4 DEF Agrees
<1>6. CASE Enqueue
  BY <1>2, <1>4, <1>6 DEF Enqueue
<1>7. CASE ProcessQueue
  <2>1. (entry'.state = "CLOSED") = (entry.state = "CLOSED")
    BY <1>2, <1>7, GateLeases DEF ProcessQueue, Admit
  <2> QED BY <1>2, <1>4, <1>7, <2>1 DEF ProcessQueue
<1>8. ASSUME NEW x \in Executors, Succeed(x) \/ Fail(x)
      PROVE  Agrees(latest', queue', entry'.state = "CLOSED")
  <2>1. PersistTransition(entry') /\ UNCHANGED <<phase, stopping, queue>>
    BY <1>8 DEF Succeed, Fail
  <2>2. CASE entry'.state = entry.state
    BY <1>3, <2>1, <2>2 DEF PersistTransition, storeVars
  <2>3. CASE entry'.state # entry.state
    BY <1>2, <1>4, <2>1, <2>3 DEF PersistTransition
  <2> QED BY <2>2, <2>3
<1>9. ASSUME NEW x \in Callers, Execute(x)
      PROVE  Agrees(latest', queue', entry'.state = "CLOSED")
  BY <1>2, <1>3, <1>9, GateLeases DEF Execute, Admit, storeVars
<1>10. CASE GetStatus
  <2>1. (entry'.state = "CLOSED") = (entry.state = "CLOSED")
    BY <1>2, <1>10 DEF GetStatus, MoveOpenToHalfOpenIfReady, Entry
  <2> QED BY <1>3, <1>10, <2>1 DEF GetStatus, storeVars
<1>11. CASE TimePasses
  <2>1. entry'.state = entry.state
    BY <1>2, <1>11 DEF TimePasses, Entry
  <2> QED BY <1>3, <1>11, <2>1 DEF TimePasses, storeVars
<1>12. CASE StoreStep
  BY <1>3, <1>12 DEF StoreStep, TimerFires, WriteEnds, WriteFails
<1>13. CASE LoadFails
  BY <1>13 DEF LoadFails, storeVars, NewestInv
<1>14. CASE Initialize \/ Shutdown \/ Exit \/ Crash
  BY <1>14 DEF Initialize, Shutdown, Exit, Crash, ProcessEnds
<1>15. CASE UNCHANGED vars
  BY <1>3, <1>15 DEF vars, storeVars
<1> QED
  BY <1>5, <1>6, <1>7, <1>8, <1>9, <1>10, <1>11, <1>12, <1>13, <1>14, <1>15 DEF Next

\* The newest snapshot and the store.
LEMMA NewestStep ==
  TypeInv /\ ClosingInv /\ NewestInv /\ [Next]_vars => NewestInv'
<1> SUFFICES ASSUME TypeInv, ClosingInv, NewestInv, [Next]_vars
             PROVE  NewestInv'
  OBVIOUS
<1> USE DEF processVars
<1>1. StoreOK /\ Flushing /\ TypeInv'
  BY TypeStep DEF TypeInv, TypeOK
<1>2. ASSUME NEW q \in Seq(Requests), NEW e \in Entry, Persist(q, e), phase' = phase
      PROVE  NewestInv'
  <2>1. CASE UNCHANGED storeVars
    BY <1>2, <2>1 DEF storeVars, NewestInv, Newest
  <2>2. CASE phase = "ready" /\ ~ stopping /\ ScheduleWrite(Snapshot(q, e))
    <3>1. Snapshot(q, e) # None
      BY <1>2, SnapshotAgrees
    <3>2. ~ closed
      BY <2>2 DEF ClosingInv
    <3>3. pending' = Snapshot(q, e) /\ latest' = Snapshot(q, e) /\ dropped' = FALSE
      BY <2>2, <3>2 DEF ScheduleWrite
    <3> QED BY <1>2, <2>2, <3>1, <3>3 DEF NewestInv, Newest
  <2> QED BY <1>2, <2>1, <2>2 DEF Persist
<1>3. ASSUME UNCHANGED storeVars, phase' = phase \/ (phase = "new" /\ phase' = "loading")
      PROVE  NewestInv'
  BY <1>3 DEF storeVars, NewestInv, Newest
<1>4. /\ queue \in Seq(Requests) /\ queue' \in Seq(Requests)
      /\ entry \in Entry /\ entry' \in Entry
  BY <1>1 DEF TypeInv, TypeOK, ProcessOK
<1>5. CASE Enqueue \/ ProcessQueue
  BY <1>2, <1>4, <1>5 DEF Enqueue, ProcessQueue
<1>6. ASSUME NEW x \in Executors, Succeed(x) \/ Fail(x)
      PROVE  NewestInv'
  BY <1>2, <1>3, <1>4, <1>6 DEF Succeed, Fail, PersistTransition
<1>7. CASE Loaded
  BY <1>7 DEF Loaded, NewestInv, Newest
<1>8. CASE LoadFails
  BY <1>8 DEF LoadFails, storeVars, NewestInv, Newest
<1>9. ASSUME NEW rest, chain = <<>>, RunFlushes(rest),
             UNCHANGED <<disk, latest, dropped, phase>>, phase # "ready" => ~ closed'
      PROVE  NewestInv'
  <2>1. writing = None
    BY <1>1, <1>9 DEF Flushing
  <2> QED BY <1>9, <2>1 DEF RunFlushes, NewestInv, Newest
<1>10. ASSUME UNCHANGED <<disk, latest, dropped, phase, pending, writing>>,
              phase # "ready" => ~ closed'
       PROVE  NewestInv'
  BY <1>10 DEF NewestInv, Newest
<1>11. CASE TimerFires /\ UNCHANGED phase
  <2>1. phase # "ready" => ~ closed'
    BY <1>11 DEF TimerFires, NewestInv
  <2> QED BY <1>9, <1>10, <1>11, <2>1 DEF TimerFires
<1>12. CASE WriteEnds /\ UNCHANGED phase
  BY <1>12 DEF WriteEnds, NewestInv, Newest
<1>13. CASE WriteFails /\ UNCHANGED phase
  BY <1>13 DEF WriteFails, RunFlushes, NewestInv, Newest
<1>14. CASE Shutdown
  <2>1. CASE phase = "ready"
    BY <1>9, <1>10, <1>14, <2>1 DEF Shutdown, Close, Flush
  <2>2. CASE phase # "ready"
    BY <1>3, <1>14, <2>2 DEF Shutdown
  <2> QED BY <2>1, <2>2
<1>15. CASE Exit \/ Crash
  BY <1>15 DEF Exit, Crash, ProcessEnds, StoreEnds, NewestInv, Newest
<1>16. ASSUME NEW x \in Callers, Execute(x)
       PROVE  NewestInv'
  BY <1>3, <1>16 DEF Execute
<1>17. CASE Initialize \/ GetStatus \/ TimePasses \/ UNCHANGED vars
  BY <1>3, <1>17 DEF Initialize, GetStatus, TimePasses, vars
<1> QED
  BY <1>5, <1>6, <1>7, <1>8, <1>11, <1>12, <1>13, <1>14, <1>15, <1>16, <1>17
     DEF Next, StoreStep

\* A close and the flushes before it.
LEMMA ClosingStep ==
  TypeInv /\ NewestInv /\ ClosingInv /\ [Next]_vars => ClosingInv'
<1> SUFFICES ASSUME TypeInv, NewestInv, ClosingInv, [Next]_vars
             PROVE  ClosingInv'
  OBVIOUS
<1> USE DEF processVars
<1>1. StoreOK /\ Flushing /\ chain \in Seq(Flushes) /\ Len(chain) \in Nat
  BY LenProperties DEF TypeInv, TypeOK, StoreOK
<1>2. DOMAIN chain = 1..Len(chain)
  BY <1>1, LenProperties
<1>3. ASSUME UNCHANGED <<pending, chain, writing>>, closed' => closed, closed' => stopping'
      PROVE  ClosingInv'
  BY <1>3 DEF ClosingInv, Closing
<1>4. ASSUME ~ closed'
      PROVE  ClosingInv'
  BY <1>4 DEF ClosingInv
<1>5. ASSUME NEW s, ScheduleWrite(s), UNCHANGED stopping \/ stopping'
      PROVE  ClosingInv'
  <2>1. CASE closed
    <3>1. UNCHANGED <<pending, chain, writing, closed>>
      BY <1>5, <2>1 DEF ScheduleWrite, storeVars
    <3>2. stopping
      BY <2>1 DEF ClosingInv
    <3>3. stopping'
      BY <1>5, <3>2, Zenon
    <3> QED BY <1>3, <3>1, <3>3
  <2>2. CASE ~ closed
    BY <1>4, <1>5, <2>2 DEF ScheduleWrite
  <2> QED BY <2>1, <2>2
<1>6. ASSUME NEW kind \in Flushes, chain' = Append(chain, kind)
      PROVE  /\ DOMAIN chain' = 1..(Len(chain) + 1) /\ Len(chain') = Len(chain) + 1
             /\ \A i \in 1..Len(chain) : chain'[i] = chain[i]
             /\ chain'[Len(chain) + 1] = kind
  <2>1. chain' \in Seq(Flushes)
    BY <1>1, <1>6, AppendProperties
  <2> QED BY <1>1, <1>6, <2>1, AppendProperties, LenProperties
<1>7. CASE Close /\ stopping'
  <2>1. CASE chain = <<>>
    <3>1. <<"close">>[1] = "close" /\ 1 \in DOMAIN <<"close">>
      OBVIOUS
    <3>2. pending' = None /\ (writing' # None => chain' = <<"close">>)
      BY <1>7, <2>1 DEF Close, Flush, RunFlushes
    <3> QED BY <1>7, <3>1, <3>2 DEF ClosingInv, Closing
  <2>2. CASE chain # <<>>
    <3>1. chain' = Append(chain, "close") /\ "close" \in Flushes
      BY <1>7, <2>2 DEF Close, Flush, Flushes
    <3>2. Len(chain) >= 1
      BY <1>1, <2>2, ChainLengths
    <3>3. /\ Len(chain) + 1 \in 2..Len(chain') /\ chain'[Len(chain) + 1] = "close"
          /\ Len(chain) + 1 \in DOMAIN chain'
      BY <1>1, <1>6, <3>1, <3>2
    <3> QED BY <1>7, <3>3 DEF ClosingInv, Closing
  <2> QED BY <2>1, <2>2
<1>8. CASE TimerFires /\ (UNCHANGED stopping \/ stopping')
  <2> SUFFICES ASSUME closed'
               PROVE  ClosingInv'
    BY <1>4
  <2>1. closed /\ stopping'
    BY <1>8 DEF TimerFires, ClosingInv
  <2>2. CASE chain = <<>>
    <3>1. Len(chain) = 0
      BY <2>2, EmptySeq
    <3>2. pending = None
      BY <2>1, <3>1 DEF ClosingInv
    <3>3. pending' = None /\ writing' = None
      BY <1>8, <2>2, <3>2 DEF TimerFires, RunFlushes
    <3> QED BY <2>1, <3>3 DEF ClosingInv
  <2>3. CASE chain # <<>>
    <3>1. /\ chain' = Append(chain, "timer") /\ "timer" \in Flushes
          /\ UNCHANGED <<pending, writing>>
      BY <1>8, <2>3 DEF TimerFires, Flushes
    <3>2. \A i \in 2..Len(chain) : i \in 2..Len(chain') /\ chain'[i] = chain[i]
      BY <1>1, <1>6, <3>1
    <3>3. Closing => Closing'
      BY <1>1, <1>2, <1>6, <3>1 DEF Closing
    <3> QED BY <2>1, <3>1, <3>2, <3>3 DEF ClosingInv
  <2> QED BY <2>2, <2>3
<1>9. CASE WriteEnds /\ (UNCHANGED stopping \/ stopping')
  <2>1. pending' = None /\ closed' = closed
    BY <1>9 DEF WriteEnds
  <2>2. writing' = None \/ (chain' = chain /\ pending # None)
    BY <1>9 DEF WriteEnds
  <2>3. closed /\ pending # None => Closing
    BY <1>1, <1>2 DEF ClosingInv, Closing
  <2> QED BY <1>9, <2>1, <2>2, <2>3 DEF ClosingInv, Closing
<1>10. CASE WriteFails /\ (UNCHANGED stopping \/ stopping')
  <2> SUFFICES ASSUME closed'
               PROVE  ClosingInv'
    BY <1>4
  <2>1. closed /\ stopping'
    BY <1>10 DEF WriteFails, ClosingInv
  <2>2. CASE Len(chain) = 1
    <3>1. pending = None
      BY <2>1, <2>2 DEF ClosingInv
    <3>2. pending' = None /\ writing' = None
      BY <1>10, <2>2, <3>1 DEF WriteFails
    <3> QED BY <2>1, <3>2 DEF ClosingInv
  <2>3. CASE Len(chain) # 1
    <3>1. RunFlushes(Tail(chain))
      BY <1>10, <2>3 DEF WriteFails
    <3>2. CASE pending = None
      BY <2>1, <3>1, <3>2 DEF RunFlushes, ClosingInv
    <3>3. CASE pending # None
      <4>1. PICK i \in 2..Len(chain) : chain[i] = "close"
        BY <2>1, <3>3 DEF ClosingInv
      <4>2. chain # <<>>
        BY <1>10, <1>1 DEF WriteFails, Flushing
      <4>3. /\ Tail(chain) \in Seq(Flushes) /\ Len(Tail(chain)) = Len(chain) - 1
            /\ \A j \in 1..Len(Tail(chain)) : Tail(chain)[j] = chain[j + 1]
        BY <1>1, <4>2, HeadTailProperties
      <4>4. i - 1 \in 1..Len(Tail(chain)) /\ Tail(chain)[i - 1] = "close"
        BY <1>1, <4>1, <4>3
      <4>5. DOMAIN Tail(chain) = 1..Len(Tail(chain))
        BY <4>3, LenProperties
      <4>6. chain' = Tail(chain) /\ pending' = None
        BY <3>1, <3>3 DEF RunFlushes
      <4> QED BY <2>1, <4>4, <4>5, <4>6 DEF ClosingInv, Closing
    <3> QED BY <3>2, <3>3
  <2> QED BY <2>2, <2>3
<1>11. CASE StoreEnds
  BY <1>4, <1>11 DEF StoreEnds
<1>12. CASE Loaded
  BY <1>3, <1>12 DEF Loaded, ClosingInv
<1>13. CASE UNCHANGED storeVars /\ (UNCHANGED stopping \/ stopping')
  <2>1. closed' => stopping'
    BY <1>13 DEF storeVars, ClosingInv
  <2> QED BY <1>3, <1>13, <2>1 DEF storeVars
<1>14. UNCHANGED stopping \/ stopping' \/ StoreEnds
  <2>1. ASSUME NEW x \in Executors, Succeed(x) \/ Fail(x)
        PROVE  UNCHANGED stopping
    BY <2>1 DEF Succeed, Fail
  <2>2. ASSUME NEW x \in Callers, Execute(x)
        PROVE  UNCHANGED stopping
    BY <2>2 DEF Execute
  <2>3. CASE Shutdown \/ Exit \/ Crash
    BY <2>3 DEF Shutdown, Exit, Crash, ProcessEnds
  <2>4. CASE \/ Initialize \/ Loaded \/ LoadFails \/ Enqueue \/ ProcessQueue \/ GetStatus
             \/ TimePasses \/ StoreStep \/ UNCHANGED vars
    BY <2>4 DEF Initialize, Loaded, LoadFails, Enqueue, ProcessQueue, GetStatus,
                TimePasses, StoreStep, vars
  <2> QED BY <2>1, <2>2, <2>3, <2>4 DEF Next
<1>15. Shutdown => stopping'
  BY DEF Shutdown
<1> QED
  BY <1>5, <1>7, <1>8, <1>9, <1>10, <1>11, <1>12, <1>13, <1>14, <1>15, StoreActions
     DEF StoreStep

\* What a shutdown leaves.
LEMMA LeftStep ==
  TypeInv /\ NewestInv /\ ClosingInv /\ CurrentInv /\ LeftInv /\ [Next]_vars => LeftInv'
<1> SUFFICES ASSUME TypeInv, NewestInv, ClosingInv, CurrentInv, LeftInv, [Next]_vars,
                    left' # None
             PROVE  IF phase' = "ready"
                    THEN /\ stopping' /\ closed' /\ ~ dropped' /\ latest' # None
                         /\ Agrees(latest', left'.queue, left'.working)
                    ELSE disk' # None /\ Agrees(disk', left'.queue, left'.working)
  BY DEF LeftInv
<1> USE DEF processVars
<1> DEFINE Kept == IF phase' = "ready"
                   THEN /\ stopping' /\ closed' /\ ~ dropped' /\ latest' # None
                        /\ Agrees(latest', left'.queue, left'.working)
                   ELSE disk' # None /\ Agrees(disk', left'.queue, left'.working)
<1>1. ASSUME UNCHANGED <<storeVars, left, stopping>>,
             phase' = phase \/ (phase = "new" /\ phase' = "loading")
      PROVE  Kept
  BY <1>1 DEF LeftInv, storeVars
<1>2. ASSUME NEW q, NEW e, Persist(q, e), UNCHANGED <<phase, stopping, left>>
      PROVE  Kept
  <2>1. CASE phase = "ready" /\ ~ stopping
    BY <1>2, <2>1 DEF LeftInv
  <2>2. CASE ~ (phase = "ready" /\ ~ stopping)
    BY <1>1, <1>2, <2>2 DEF Persist
  <2> QED BY <2>1, <2>2
<1>3. CASE Enqueue \/ ProcessQueue
  BY <1>2, <1>3 DEF Enqueue, ProcessQueue
<1>4. ASSUME NEW x \in Executors, Succeed(x) \/ Fail(x)
      PROVE  Kept
  BY <1>1, <1>2, <1>4 DEF Succeed, Fail, PersistTransition
<1>5. CASE Loaded \/ LoadFails \/ Crash
  BY <1>5 DEF Loaded, LoadFails, Crash
<1>6. CASE Shutdown
  <2>1. CASE phase # "ready"
    BY <1>6, <2>1 DEF Shutdown, LeftInv, storeVars
  <2>2. CASE phase = "ready"
    <3>1. /\ ~ stopping /\ stopping' /\ Close /\ latest # None /\ ~ dropped
          /\ left' = [queue |-> queue, working |-> entry.state = "CLOSED"]
          /\ phase' = "ready"
      BY <1>6, <2>2 DEF Shutdown
    <3>2. closed' /\ latest' = latest /\ dropped' = dropped
      BY <3>1 DEF Close
    <3>3. Agrees(latest, queue, entry.state = "CLOSED")
      BY <2>2, <3>1 DEF CurrentInv
    <3> QED BY <3>1, <3>2, <3>3
  <2> QED BY <2>1, <2>2
<1>7. CASE StoreStep
  <2>1. UNCHANGED <<phase, stopping, latest, closed>>
    BY <1>7 DEF StoreStep, TimerFires, WriteEnds, WriteFails
  <2>2. left' = left /\ left # None
    BY <1>7 DEF StoreStep
  <2>3. CASE phase = "ready"
    <3>1. ~ dropped'
      <4>1. CASE TimerFires \/ WriteEnds
        BY <2>2, <2>3, <4>1 DEF TimerFires, WriteEnds, LeftInv
      <4>2. CASE WriteFails /\ left' = IF dropped' THEN None ELSE left
        BY <4>2
      <4> QED BY <1>7, <4>1, <4>2 DEF StoreStep
    <3> QED BY <2>1, <2>2, <2>3, <3>1 DEF LeftInv
  <2>4. CASE phase # "ready"
    <3>1. pending = None /\ writing = None
      BY <2>4 DEF NewestInv
    <3>2. disk' = disk
      BY <1>7, <3>1 DEF StoreStep, TimerFires, WriteEnds, WriteFails
    <3> QED BY <2>1, <2>2, <2>4, <3>2 DEF LeftInv
  <2> QED BY <2>3, <2>4
<1>8. CASE Exit
  <2>1. /\ left' = left /\ left # None /\ disk' = disk /\ phase' = "new" /\ ~ Closing
    BY <1>8 DEF Exit, ProcessEnds, StoreEnds
  <2>2. CASE phase # "ready"
    BY <2>1, <2>2 DEF LeftInv
  <2>3. CASE phase = "ready"
    <3>1. /\ closed /\ ~ dropped /\ latest # None
          /\ Agrees(latest, left.queue, left.working)
      BY <2>1, <2>3 DEF LeftInv
    <3>2. pending = None
      <4>1. DOMAIN chain = 1..Len(chain) /\ Len(chain) \in Nat
        BY LenProperties DEF TypeInv, TypeOK, StoreOK
      <4> QED BY <2>1, <3>1, <4>1 DEF ClosingInv, Closing
    <3>3. writing = None
      BY <2>1, <3>1 DEF ClosingInv
    <3>4. disk = latest
      BY <3>1, <3>2, <3>3 DEF NewestInv, Newest
    <3> QED BY <2>1, <3>1, <3>4
  <2> QED BY <2>2, <2>3
<1>9. ASSUME NEW x \in Callers, Execute(x)
      PROVE  Kept
  BY <1>1, <1>9 DEF Execute
<1>10. CASE Initialize \/ GetStatus \/ TimePasses \/ UNCHANGED vars
  BY <1>1, <1>10 DEF Initialize, GetStatus, TimePasses, vars
<1> QED
  BY <1>3, <1>4, <1>5, <1>6, <1>7, <1>8, <1>9, <1>10 DEF Next

ResumeInv ==
  TypeInv /\ FitsInv /\ NewestInv /\ ClosingInv /\ CurrentInv /\ LeftInv

\* For any capacity and any schedule of requests, results, timers, flushes and
\* failed writes: what a shutdown leaves, unless a write was lost, is what the
\* next process starts from.
THEOREM RestartResumesHolds == Spec => RestartResumes
<1>1. Init => ResumeInv
  BY TypeInit
     DEF Init, StoreInit, ProcessInit, ResumeInv, FitsInv, Fits, NewestInv, Newest,
         ClosingInv, CurrentInv, LeftInv
<1>2. ResumeInv /\ [Next]_vars => ResumeInv'
  BY TypeStep, FitsStep, NewestStep, ClosingStep, CurrentStep, LeftStep DEF ResumeInv
<1>3. ResumeInv /\ Loaded /\ left # None
        => queue' = left.queue /\ (entry'.state = "CLOSED") = left.working
  <2> SUFFICES ASSUME ResumeInv, Loaded, left # None
               PROVE  queue' = left.queue /\ (entry'.state = "CLOSED") = left.working
    OBVIOUS
  <2>1. disk # None /\ Agrees(disk, left.queue, left.working)
    BY DEF ResumeInv, Loaded, LeftInv
  <2>2. disk.queue \in Seq(Requests) /\ disk.entry \in Entry /\ Len(disk.queue) <= MaxLength
    BY <2>1 DEF ResumeInv, TypeInv, TypeOK, StoreOK, Snapshots, FitsInv, Fits
  <2>3. queue' = disk.queue
    BY <2>1, <2>2, RestoredTypes DEF Loaded
  <2>4. (entry'.state = "CLOSED") = (disk.entry.state = "CLOSED")
    BY <2>1, <2>2 DEF Loaded, Imported, Entry
  <2> QED BY <2>1, <2>3, <2>4 DEF Agrees
<1> QED BY <1>1, <1>2, <1>3, PTL DEF Spec, RestartResumes
=============================================================================
