------------------------ MODULE MutationControlProofs ------------------------
(* Machine-checked proofs about MutationControl, for every number of calls,  *)
(* publications, attempts and restarts.                                      *)
EXTENDS MutationControl, TLAPS

\* What a step leaves alone keeps its type.
LEMMA UnchangedTypes ==
  /\ StateFileOK /\ UNCHANGED stateFile => StateFileOK'
  /\ ProcessOK /\ UNCHANGED process => ProcessOK'
  /\ WorldOK /\ UNCHANGED world => WorldOK'
BY DEF StateFileOK, ProcessOK, WorldOK, stateFile, process, world

\* A step of a call between its transactions moves its program counter only.
LEMMA CallTypes ==
  ASSUME ProcessOK, MaxRetryAttempts \in Nat, NEW w \in Workers,
         \/ Return(w)
         \/ Goto(w, "awaiting") /\ pc[w] = "dispatching"
         \/ Goto(w, "finalizing") /\ pc[w] = "awaiting"
         \/ Goto(w, "failing") /\ pc[w] \in {"dispatching", "awaiting", "finalizing"}
  PROVE  ProcessOK'
<1>1. CASE Return(w)
  BY <1>1 DEF ProcessOK, Return
<1>2. CASE Goto(w, "awaiting") /\ pc[w] = "dispatching"
  BY <1>2 DEF ProcessOK, Goto
<1>3. CASE Goto(w, "finalizing") /\ pc[w] = "awaiting"
  BY <1>3 DEF ProcessOK, Goto
<1>4. CASE Goto(w, "failing") /\ pc[w] \in {"dispatching", "awaiting", "finalizing"}
  BY <1>4 DEF ProcessOK, Goto
<1> QED
  BY <1>1, <1>2, <1>3, <1>4

\* Every variable keeps its type: in particular a retry count never passes
\* MAX_RETRY_ATTEMPTS (commitPublication's check of attemptNo).
LEMMA TypeStep == TypeOK /\ [Next]_vars => TypeOK'
<1> SUFFICES ASSUME TypeOK, [Next]_vars PROVE TypeOK'
  OBVIOUS
<1> USE BoundsAssumption, UnchangedTypes DEF TypeOK
<1>1. CASE Hydrate
  BY <1>1 DEF Hydrate, AfterRestart, StateFileOK, ProcessOK, DispatchStates
<1>2. ASSUME NEW b \in BOOLEAN, SetMutationEnabled(b) \/ SetKillSwitch(b) PROVE TypeOK'
  BY <1>2 DEF SetMutationEnabled, SetKillSwitch, StateFileOK
<1>3. ASSUME NEW k \in Keys, Prepare(k) PROVE TypeOK'
  <2>1. lastSequence + 1 \in Sequences /\ lastSequence + 1 \in 0..MaxSequence
    BY <1>3 DEF Prepare, StateFileOK, Sequences
  <2>2. StateFileOK'
    BY <1>3, <2>1 DEF Prepare, StateFileOK, DispatchStates
  <2> QED
    BY <1>3, <2>2 DEF Prepare
<1>4. ASSUME NEW w \in Workers, NEW s \in Sequences, RetryCheck(w, s) PROVE TypeOK'
  BY <1>4 DEF RetryCheck, ProcessOK
<1>5. ASSUME NEW w \in Workers, NEW s \in Sequences, BeginAttempt(w, s) PROVE TypeOK'
  <2> USE <1>5 DEF BeginAttempt
  <2>1. retryCount[s] + 1 \in Attempts
    BY DEF MayCommit, StateFileOK, Attempts
  <2>2. StateFileOK'
    BY <2>1 DEF CountAttempt, StateFileOK, DispatchStates, Attempts
  <2>3. ProcessOK'
    BY <2>1 DEF ProcessOK, Attempts
  <2>4. WorldOK'
    BY DEF WorldOK
  <2> QED
    BY <2>2, <2>3, <2>4
<1>6. ASSUME NEW w \in Workers, CallStep(w) PROVE TypeOK'
  <2>1. CASE RetryRefused(w)
    BY <2>1, CallTypes DEF RetryRefused
  <2>2. CASE Send(w)
    <3>1. target[w] \in Sequences /\ attemptNo[w] \in Attempts
      BY <2>2 DEF Send, ProcessOK
    <3> QED
      BY <2>2, <3>1, CallTypes DEF Send, WorldOK
  <2>3. CASE ResponseOk(w) \/ RequestFails(w) \/ FinalizeFails(w) \/ MarkUncertainFails(w)
    BY <2>3, CallTypes DEF ResponseOk, RequestFails, FinalizeFails, MarkUncertainFails
  <2>4. CASE Finalize(w)
    <3>1. ProcessOK'
      BY <2>4, CallTypes DEF Finalize
    <3>2. StateFileOK'
      BY <2>4 DEF Finalize, MoveToCommitted, StateFileOK, ProcessOK, IsPending
    <3> QED
      BY <2>4, <3>1, <3>2 DEF Finalize
  <2>5. CASE MarkUncertain(w)
    <3>1. ProcessOK'
      BY <2>5, CallTypes DEF MarkUncertain
    <3>2. target[w] \in Sequences
      BY <2>5 DEF MarkUncertain, ProcessOK
    <3>3. StateFileOK'
      BY <2>5, <3>2 DEF MarkUncertain, StateFileOK, DispatchStates
    <3> QED
      BY <2>5, <3>1, <3>3 DEF MarkUncertain
  <2> QED
    BY <1>6, <2>1, <2>2, <2>3, <2>4, <2>5 DEF CallStep
<1>7. ASSUME NEW s \in Sequences, Accept(s) PROVE TypeOK'
  BY <1>7 DEF Accept, WorldOK
<1>8. ASSUME NEW s \in Sequences, ConfirmCommitted(s) PROVE TypeOK'
  BY <1>8 DEF ConfirmCommitted, MoveToCommitted, StateFileOK, WorldOK
<1>9. ASSUME NEW s \in Sequences, ConfirmNotCommitted(s) PROVE TypeOK'
  <2> USE <1>9 DEF ConfirmNotCommitted
  <2>1. /\ dispatch' \in [Sequences -> DispatchStates \cup {"none"}]
        /\ allowRetry' \in [Sequences -> BOOLEAN]
    <3>1. CASE retryCount[s] >= MaxRetryAttempts
      BY <3>1 DEF StateFileOK
    <3>2. CASE ~(retryCount[s] >= MaxRetryAttempts)
      BY <3>2 DEF StateFileOK, DispatchStates
    <3> QED
      BY <3>1, <3>2
  <2>2. StateFileOK'
    BY <2>1 DEF StateFileOK
  <2>3. WorldOK'
    BY DEF WorldOK
  <2> QED
    BY <2>2, <2>3
<1>10. ASSUME NEW s \in Sequences, Abandon(s) PROVE TypeOK'
  BY <1>10 DEF Abandon, StateFileOK, WorldOK, DispatchStates
<1>11. ASSUME NEW s \in Sequences, DeadlinePasses(s) PROVE TypeOK'
  BY <1>11 DEF DeadlinePasses, StateFileOK
<1>12. CASE Crash
  <2>1. /\ pc' \in [Workers -> {"idle"}]
        /\ target' \in [Workers -> Sequences \cup {0}]
        /\ attemptNo' \in [Workers -> 0..MaxRetryAttempts]
        /\ hydrated' = FALSE
    BY <1>12 DEF Crash
  <2>2. ProcessOK'
    BY <2>1 DEF ProcessOK
  <2> QED
    BY <1>12, <2>2 DEF Crash, WorldOK
<1>13. CASE UNCHANGED vars
  BY <1>13 DEF vars
<1> QED
  BY <1>1, <1>2, <1>3, <1>4, <1>5, <1>6, <1>7, <1>8, <1>9, <1>10, <1>11, <1>12, <1>13
     DEF Next

LEMMA TypeInit == Init => TypeOK
<1> USE BoundsAssumption DEF Init
<1>1. Init => StateFileOK
  <2> SUFFICES ASSUME Init PROVE StateFileOK
    OBVIOUS
  <2>1. /\ lastSequence \in 0..MaxSequence
        /\ retryCount \in [Sequences -> 0..MaxRetryAttempts]
        /\ committed \in [Sequences -> Nat]
    OBVIOUS
  <2>2. /\ keyOf \in [Sequences -> Keys \cup {NoKey}]
        /\ dispatch \in [Sequences -> DispatchStates \cup {"none"}]
        /\ deadline \in [Sequences -> {"unset", "running", "passed"}]
    OBVIOUS
  <2>3. allowRetry \in [Sequences -> BOOLEAN]
    OBVIOUS
  <2> QED
    BY <2>1, <2>2, <2>3 DEF StateFileOK
<1>2. Init => ProcessOK
  <2> SUFFICES ASSUME Init PROVE ProcessOK
    OBVIOUS
  <2>1. /\ target \in [Workers -> Sequences \cup {0}]
        /\ attemptNo \in [Workers -> 0..MaxRetryAttempts]
    OBVIOUS
  <2>2. /\ pc \in [Workers -> {"idle"}]
        /\ hydrated \in BOOLEAN
    OBVIOUS
  <2> QED
    BY <2>1, <2>2 DEF ProcessOK
<1>3. Init => WorldOK
  BY DEF WorldOK
<1> QED
  BY <1>1, <1>2, <1>3 DEF TypeOK

\* Every variable of the protocol keeps its type.
THEOREM TypeCorrect == Spec => []TypeOK
BY TypeInit, TypeStep, PTL DEF Spec

-----------------------------------------------------------------------------
(* The publication ledger: what is committed and which keys are taken.      *)

\* An allocated sequence has a key; one that is not has left no trace.
AllocationInv ==
  \A s \in Sequences :
    /\ Allocated(s) => keyOf[s] \in Keys
    /\ ~Allocated(s) => /\ dispatch[s] = "none"
                        /\ committed[s] = 0
                        /\ retryCount[s] = 0

LedgerInv == CommittedOnce /\ KeyAllocatedOnce /\ AllocationInv

\* A step that only moves pending records between dispatch states.
LEMMA LedgerFrame ==
  ASSUME TypeOK, LedgerInv,
         UNCHANGED <<lastSequence, keyOf, committed, retryCount>>,
         \A s \in Sequences : IsPending(s)' <=> IsPending(s)
  PROVE  LedgerInv'
BY DEF LedgerInv, CommittedOnce, KeyAllocatedOnce, AllocationInv, Allocated,
       IsPending, IsCommitted

\* hydrateReplayProtection never finds a pending record whose key is committed.
LEMMA NothingReplayed ==
  ASSUME LedgerInv, TypeOK, NEW s \in Sequences, IsPending(s)
  PROVE  ~KeyIsCommitted(keyOf[s])
<1> SUFFICES ASSUME NEW t \in Sequences, IsCommitted(t), keyOf[t] = keyOf[s]
             PROVE  FALSE
  BY DEF KeyIsCommitted
<1>1. Allocated(s) /\ Allocated(t)
  BY DEF LedgerInv, AllocationInv, IsPending, IsCommitted
<1>2. s = t
  BY <1>1 DEF LedgerInv, KeyAllocatedOnce
<1> QED
  BY <1>2 DEF LedgerInv, CommittedOnce

\* Moving a pending record to the committed list.
LEMMA LedgerMove ==
  ASSUME TypeOK, LedgerInv, NEW s \in Sequences, IsPending(s), MoveToCommitted(s),
         UNCHANGED <<lastSequence, keyOf, retryCount>>
  PROVE  LedgerInv'
<1>1. committed[s] = 0
  BY DEF TypeOK, StateFileOK, LedgerInv, CommittedOnce, IsCommitted
<1>2. Allocated(s)
  BY DEF LedgerInv, AllocationInv, IsPending
<1>3. /\ \A t \in Sequences : t # s => /\ dispatch'[t] = dispatch[t]
                                       /\ committed'[t] = committed[t]
      /\ dispatch'[s] = "none" /\ committed'[s] = 1
  BY <1>1 DEF MoveToCommitted, TypeOK, StateFileOK
<1>4. CommittedOnce'
  BY <1>3 DEF LedgerInv, CommittedOnce, IsPending, IsCommitted
<1>5. KeyAllocatedOnce'
  BY <1>3 DEF LedgerInv, KeyAllocatedOnce, IsPending, IsCommitted, Allocated
<1>6. AllocationInv'
  BY <1>2, <1>3 DEF LedgerInv, AllocationInv, Allocated
<1> QED
  BY <1>4, <1>5, <1>6 DEF LedgerInv

LEMMA LedgerStep == TypeOK /\ LedgerInv /\ [Next]_vars => LedgerInv'
<1> SUFFICES ASSUME TypeOK, LedgerInv, [Next]_vars PROVE LedgerInv'
  OBVIOUS
<1>1. CASE Hydrate
  <2>1. \A s \in Sequences : dispatch'[s] = AfterRestart(dispatch[s])
    BY <1>1, NothingReplayed DEF Hydrate
  <2>2. \A s \in Sequences : IsPending(s)' <=> IsPending(s)
    BY <2>1 DEF AfterRestart, IsPending
  <2> QED
    BY <1>1, <2>2, LedgerFrame DEF Hydrate
<1>2. ASSUME NEW k \in Keys, Prepare(k) PROVE LedgerInv'
  <2> DEFINE n == lastSequence + 1
  <2>1. n \in Sequences /\ ~Allocated(n) /\ lastSequence' = n
    BY <1>2, BoundsAssumption DEF Prepare, TypeOK, StateFileOK, Sequences, Allocated
  <2>2. /\ keyOf'[n] = k /\ dispatch'[n] = "prepared" /\ committed'[n] = 0
        /\ \A s \in Sequences : s # n => keyOf'[s] = keyOf[s] /\ dispatch'[s] = dispatch[s]
        /\ UNCHANGED <<committed, retryCount>>
    BY <1>2, <2>1 DEF Prepare, TypeOK, StateFileOK, LedgerInv, AllocationInv
  <2>3. \A s \in Sequences : Allocated(s)' <=> (Allocated(s) \/ s = n)
    BY <2>1 DEF Allocated, Sequences, TypeOK, StateFileOK
  <2>4. \A s \in Sequences : Allocated(s) => keyOf[s] # k
    BY <1>2 DEF Prepare, KeyIsPending, KeyIsCommitted, LedgerInv, KeyAllocatedOnce
  <2>5. CommittedOnce'
    BY <2>1, <2>2 DEF LedgerInv, CommittedOnce, AllocationInv, IsPending, IsCommitted
  <2>6. KeyAllocatedOnce'
    BY <2>1, <2>2, <2>3, <2>4 DEF LedgerInv, KeyAllocatedOnce, IsPending, IsCommitted
  <2>7. AllocationInv'
    BY <2>1, <2>2, <2>3 DEF LedgerInv, AllocationInv
  <2> QED
    BY <2>5, <2>6, <2>7 DEF LedgerInv
<1>3. ASSUME NEW w \in Workers, NEW s \in Sequences, BeginAttempt(w, s) PROVE LedgerInv'
  <2>1. IsPending(s) /\ Allocated(s)
    BY <1>3 DEF BeginAttempt, MayCommit, LedgerInv, AllocationInv, IsPending
  <2>2. /\ \A t \in Sequences : t # s => /\ dispatch'[t] = dispatch[t]
                                         /\ retryCount'[t] = retryCount[t]
        /\ dispatch'[s] = "in_flight"
        /\ UNCHANGED <<lastSequence, keyOf, committed>>
    BY <1>3 DEF BeginAttempt, CountAttempt, TypeOK, StateFileOK
  <2>3. CommittedOnce' /\ KeyAllocatedOnce'
    BY <2>1, <2>2 DEF LedgerInv, CommittedOnce, KeyAllocatedOnce, IsPending,
                      IsCommitted, Allocated
  <2>4. AllocationInv'
    BY <2>1, <2>2 DEF LedgerInv, AllocationInv, Allocated
  <2> QED
    BY <2>3, <2>4 DEF LedgerInv
<1>4. ASSUME NEW w \in Workers, Finalize(w) PROVE LedgerInv'
  <2>1. target[w] \in Sequences
    BY <1>4 DEF Finalize, TypeOK, ProcessOK
  <2>2. CASE IsPending(target[w])
    BY <1>4, <2>1, <2>2, LedgerMove DEF Finalize
  <2>3. CASE ~IsPending(target[w])
    BY <1>4, <2>1, <2>3, LedgerFrame DEF Finalize, IsPending
  <2> QED
    BY <2>2, <2>3
<1>5. ASSUME NEW w \in Workers, MarkUncertain(w) PROVE LedgerInv'
  <2>1. \A s \in Sequences : IsPending(s)' <=> IsPending(s)
    BY <1>5 DEF MarkUncertain, IsPending, TypeOK, StateFileOK
  <2> QED
    BY <1>5, <2>1, LedgerFrame DEF MarkUncertain
<1>6. ASSUME NEW s \in Sequences, ConfirmCommitted(s) PROVE LedgerInv'
  BY <1>6, LedgerMove DEF ConfirmCommitted, Reconcilable, IsPending
<1>7. ASSUME NEW s \in Sequences, ConfirmNotCommitted(s) \/ Abandon(s) PROVE LedgerInv'
  <2>1. \A t \in Sequences : IsPending(t)' <=> IsPending(t)
    BY <1>7 DEF ConfirmNotCommitted, Abandon, Reconcilable, IsPending, TypeOK, StateFileOK
  <2> QED
    BY <1>7, <2>1, LedgerFrame DEF ConfirmNotCommitted, Abandon
<1>8. CASE UNCHANGED <<lastSequence, keyOf, dispatch, committed, retryCount>>
  BY <1>8, LedgerFrame DEF IsPending
<1>9. ASSUME NEW b \in BOOLEAN, SetMutationEnabled(b) \/ SetKillSwitch(b) PROVE LedgerInv'
  BY <1>8, <1>9 DEF SetMutationEnabled, SetKillSwitch
<1>10. ASSUME NEW w \in Workers, NEW s \in Sequences, RetryCheck(w, s) PROVE LedgerInv'
  BY <1>8, <1>10 DEF RetryCheck, stateFile
<1>11. ASSUME NEW w \in Workers, CallStep(w) PROVE LedgerInv'
  BY <1>4, <1>5, <1>8, <1>11 DEF CallStep, RetryRefused, Send, ResponseOk, RequestFails,
     FinalizeFails, MarkUncertainFails, stateFile
<1>12. ASSUME NEW s \in Sequences, Accept(s) \/ DeadlinePasses(s) PROVE LedgerInv'
  BY <1>8, <1>12 DEF Accept, DeadlinePasses, stateFile
<1>13. CASE Crash
  BY <1>8, <1>13 DEF Crash, stateFile
<1>14. CASE UNCHANGED vars
  BY <1>8, <1>14 DEF vars, stateFile
<1> QED
  BY <1>1, <1>2, <1>3, <1>6, <1>7, <1>9, <1>10, <1>11, <1>12, <1>13, <1>14 DEF Next

LEMMA LedgerInit == Init => LedgerInv
BY BoundsAssumption DEF Init, LedgerInv, CommittedOnce, KeyAllocatedOnce, AllocationInv,
   Allocated, IsPending, IsCommitted, Sequences

LEMMA LedgerAlways == Spec => []LedgerInv
BY LedgerInit, LedgerStep, TypeCorrect, PTL DEF Spec

\* No publication is recorded as committed twice, or is committed and pending.
THEOREM CommittedOnceHolds == Spec => []CommittedOnce
<1>1. LedgerInv => CommittedOnce
  BY DEF LedgerInv
<1> QED
  BY <1>1, LedgerAlways, PTL

\* No idempotency key is ever allocated to a second sequence.
THEOREM KeyAllocatedOnceHolds == Spec => []KeyAllocatedOnce
<1>1. LedgerInv => KeyAllocatedOnce
  BY DEF LedgerInv
<1> QED
  BY <1>1, LedgerAlways, PTL

-----------------------------------------------------------------------------
(* The attempts: which requests have left.                                  *)

InAttempt(w) == pc[w] \in {"dispatching", "awaiting", "finalizing", "failing"}

\* A call in an attempt holds a number that its record has counted and that no
\* other call holds; the request of a number not counted was never sent.
HoldsCounted(w)  == InAttempt(w) => attemptNo[w] <= retryCount[target[w]]
HoldsUnsent(w)   == pc[w] = "dispatching" => sent[target[w]][attemptNo[w]] = 0
HoldsAlone(v, w) == /\ InAttempt(v) /\ InAttempt(w)
                    /\ target[v] = target[w] /\ attemptNo[v] = attemptNo[w]
                    => v = w
UncountedUnsent  == \A s \in Sequences, n \in Attempts : n > retryCount[s] => sent[s][n] = 0

AttemptInv ==
  /\ UncountedUnsent
  /\ \A w \in Workers : HoldsCounted(w) /\ HoldsUnsent(w)
  /\ \A v, w \in Workers : HoldsAlone(v, w)
  /\ AttemptSentOnce

\* A step of a call that is not the sending of a request, or of nobody.
LEMMA AttemptFrame ==
  ASSUME TypeOK, AttemptInv, UNCHANGED <<retryCount, sent>>,
         \A w \in Workers :
           InAttempt(w)' => /\ InAttempt(w)
                            /\ target'[w] = target[w] /\ attemptNo'[w] = attemptNo[w]
                            /\ pc'[w] = "dispatching" => pc[w] = "dispatching"
  PROVE  AttemptInv'
BY DEF AttemptInv, HoldsCounted, HoldsUnsent, HoldsAlone, UncountedUnsent, InAttempt,
       AttemptSentOnce

LEMMA AttemptStep == TypeOK /\ AttemptInv /\ [Next]_vars => AttemptInv'
<1> SUFFICES ASSUME TypeOK, AttemptInv, [Next]_vars PROVE AttemptInv'
  OBVIOUS
<1>1. ASSUME NEW w \in Workers, NEW s \in Sequences, BeginAttempt(w, s) PROVE AttemptInv'
  <2> DEFINE n == retryCount[s] + 1
  <2>1. /\ n \in Attempts /\ retryCount[s] \in Nat /\ ~InAttempt(w)
    BY <1>1, BoundsAssumption DEF BeginAttempt, MayCommit, TypeOK, StateFileOK, Attempts, InAttempt
  <2>2. /\ pc'[w] = "dispatching" /\ target'[w] = s /\ attemptNo'[w] = n
        /\ \A v \in Workers : v # w => /\ pc'[v] = pc[v] /\ target'[v] = target[v]
                                       /\ attemptNo'[v] = attemptNo[v]
        /\ retryCount'[s] = n
        /\ \A t \in Sequences : t # s => retryCount'[t] = retryCount[t]
        /\ UNCHANGED sent
    BY <1>1 DEF BeginAttempt, CountAttempt, TypeOK, StateFileOK, ProcessOK
  <2>3. sent[s][n] = 0
    BY <2>1 DEF AttemptInv, UncountedUnsent
  <2>4. UncountedUnsent' /\ AttemptSentOnce'
    BY <2>1, <2>2, BoundsAssumption
       DEF AttemptInv, UncountedUnsent, AttemptSentOnce, TypeOK, StateFileOK, Attempts
  <2>5. \A v \in Workers : v # w /\ InAttempt(v) =>
          target[v] \in Sequences /\ attemptNo[v] <= retryCount[target[v]]
    BY DEF AttemptInv, HoldsCounted, InAttempt, TypeOK, ProcessOK
  <2>6. ASSUME NEW v \in Workers PROVE HoldsCounted(v)' /\ HoldsUnsent(v)'
    <3>1. CASE v = w
      BY <2>1, <2>2, <2>3, <3>1 DEF HoldsCounted, HoldsUnsent
    <3>2. CASE v # w
      BY <2>1, <2>2, <2>5, <3>2, BoundsAssumption
         DEF AttemptInv, HoldsCounted, HoldsUnsent, InAttempt, TypeOK, StateFileOK, ProcessOK
    <3> QED
      BY <3>1, <3>2
  <2>7. ASSUME NEW u \in Workers, NEW v \in Workers PROVE HoldsAlone(u, v)'
    BY <2>1, <2>2, <2>5, BoundsAssumption
       DEF AttemptInv, HoldsAlone, InAttempt, TypeOK, StateFileOK, ProcessOK
  <2> QED
    BY <2>4, <2>6, <2>7 DEF AttemptInv
<1>2. ASSUME NEW w \in Workers, Send(w) PROVE AttemptInv'
  <2> DEFINE s == target[w]
             n == attemptNo[w]
  <2>1. /\ s \in Sequences /\ n \in Attempts /\ n <= retryCount[s] /\ sent[s][n] = 0
    BY <1>2 DEF Send, TypeOK, ProcessOK, AttemptInv, HoldsCounted, HoldsUnsent, InAttempt
  <2>2. /\ sent'[s][n] = 1
        /\ \A t \in Sequences, m \in Attempts :
             t # s \/ m # n => sent'[t][m] = sent[t][m]
        /\ UNCHANGED <<retryCount, target, attemptNo>>
        /\ pc' = [pc EXCEPT ![w] = "awaiting"]
    BY <1>2, <2>1 DEF Send, Goto, stateFile, TypeOK, WorldOK
  <2>3. UncountedUnsent' /\ AttemptSentOnce'
    BY <2>1, <2>2, BoundsAssumption, SMTT(30)
       DEF AttemptInv, UncountedUnsent, AttemptSentOnce, TypeOK, StateFileOK, Attempts
  <2>4. ASSUME NEW v \in Workers PROVE HoldsCounted(v)'
    BY <1>2, <2>2 DEF Send, AttemptInv, HoldsCounted, InAttempt, TypeOK, ProcessOK
  <2>5. ASSUME NEW u \in Workers, NEW v \in Workers PROVE HoldsAlone(u, v)'
    BY <1>2, <2>2 DEF Send, AttemptInv, HoldsAlone, InAttempt, TypeOK, ProcessOK
  <2>6. ASSUME NEW v \in Workers PROVE HoldsUnsent(v)'
    <3> SUFFICES ASSUME pc'[v] = "dispatching" PROVE (sent[target[v]][attemptNo[v]])' = 0
      BY DEF HoldsUnsent
    <3>1. v # w /\ pc[v] = "dispatching"
      BY <2>2 DEF TypeOK, ProcessOK
    <3>2. target[v] \in Sequences /\ attemptNo[v] \in Attempts
          /\ sent[target[v]][attemptNo[v]] = 0
      BY <3>1 DEF TypeOK, ProcessOK, AttemptInv, HoldsUnsent
    <3>3. target[v] # s \/ attemptNo[v] # n
      BY <1>2, <3>1 DEF Send, AttemptInv, HoldsAlone, InAttempt
    <3> QED
      BY <2>2, <3>2, <3>3
  <2> QED
    BY <2>3, <2>4, <2>5, <2>6 DEF AttemptInv
<1>3. ASSUME NEW w \in Workers, CallStep(w) PROVE AttemptInv'
  <2>1. ASSUME Return(w), UNCHANGED <<retryCount, sent>> PROVE AttemptInv'
    <3>1. \A v \in Workers : InAttempt(v)' =>
            /\ v # w /\ pc'[v] = pc[v]
            /\ target'[v] = target[v] /\ attemptNo'[v] = attemptNo[v]
      BY <2>1 DEF Return, InAttempt, TypeOK, ProcessOK
    <3> QED
      BY <2>1, <3>1, AttemptFrame DEF InAttempt
  <2>2. ASSUME Goto(w, "finalizing") \/ Goto(w, "failing"), InAttempt(w),
               UNCHANGED <<retryCount, sent>>
        PROVE  AttemptInv'
    <3>1. \A v \in Workers : InAttempt(v)' =>
            /\ InAttempt(v) /\ (pc'[v] = "dispatching" => pc[v] = "dispatching")
            /\ target'[v] = target[v] /\ attemptNo'[v] = attemptNo[v]
      BY <2>2 DEF Goto, InAttempt, TypeOK, ProcessOK
    <3> QED
      BY <2>2, <3>1, AttemptFrame
  <2>3. CASE RetryRefused(w) \/ MarkUncertain(w) \/ MarkUncertainFails(w)
    BY <2>1, <2>3 DEF RetryRefused, MarkUncertain, MarkUncertainFails, stateFile, world
  <2>4. CASE ResponseOk(w) \/ RequestFails(w) \/ FinalizeFails(w)
    BY <2>2, <2>4 DEF ResponseOk, RequestFails, FinalizeFails, stateFile, world, InAttempt
  <2>5. CASE Finalize(w)
    BY <2>1, <2>2, <2>5 DEF Finalize, world, InAttempt
  <2> QED
    BY <1>2, <1>3, <2>3, <2>4, <2>5 DEF CallStep
<1>4. ASSUME NEW w \in Workers, NEW s \in Sequences, RetryCheck(w, s) PROVE AttemptInv'
  <2>1. \A v \in Workers : InAttempt(v)' =>
          /\ InAttempt(v) /\ pc'[v] = pc[v]
          /\ target'[v] = target[v] /\ attemptNo'[v] = attemptNo[v]
    BY <1>4 DEF RetryCheck, InAttempt, TypeOK, ProcessOK
  <2> QED
    BY <1>4, <2>1, AttemptFrame DEF RetryCheck, stateFile, world
<1>5. CASE Crash
  <2>1. \A v \in Workers : ~InAttempt(v)'
    BY <1>5 DEF Crash, InAttempt
  <2> QED
    BY <1>5, <2>1, AttemptFrame DEF Crash, stateFile
<1>6. CASE UNCHANGED <<retryCount, sent, pc, target, attemptNo>>
  BY <1>6, AttemptFrame DEF InAttempt
<1>7. CASE Hydrate \/ (\E b \in BOOLEAN : SetMutationEnabled(b) \/ SetKillSwitch(b))
           \/ (\E k \in Keys : Prepare(k))
  BY <1>6, <1>7 DEF Hydrate, SetMutationEnabled, SetKillSwitch, Prepare, process, world
<1>8. ASSUME NEW s \in Sequences,
             \/ Accept(s) \/ ConfirmCommitted(s) \/ ConfirmNotCommitted(s)
             \/ Abandon(s) \/ DeadlinePasses(s)
      PROVE  AttemptInv'
  BY <1>6, <1>8 DEF Accept, ConfirmCommitted, ConfirmNotCommitted, Abandon, DeadlinePasses,
     stateFile, process, world
<1>9. CASE UNCHANGED vars
  BY <1>6, <1>9 DEF vars, stateFile, process, world
<1> QED
  BY <1>1, <1>3, <1>4, <1>5, <1>7, <1>8, <1>9 DEF Next

LEMMA AttemptInit == Init => AttemptInv
BY DEF Init, AttemptInv, HoldsCounted, HoldsUnsent, HoldsAlone, UncountedUnsent, InAttempt,
   AttemptSentOnce

LEMMA AttemptAlways == Spec => []AttemptInv
BY AttemptInit, AttemptStep, TypeCorrect, PTL DEF Spec

\* No attempt number of a publication is sent twice, so at most
\* MAX_RETRY_ATTEMPTS requests ever leave for it, each charged on its own.
THEOREM AttemptSentOnceHolds == Spec => []AttemptSentOnce
<1>1. AttemptInv => AttemptSentOnce
  BY DEF AttemptInv
<1> QED
  BY <1>1, AttemptAlways, PTL

-----------------------------------------------------------------------------
(* What the provider has executed is never forgotten.                       *)

\* The provider executes only what an attempt sent, and a record that is ready
\* to be sent, or given up, without a ruling was never attempted.
DeliveryInv ==
  \A s \in Sequences :
    /\ accepted[s] => retryCount[s] > 0
    /\ dispatch[s] \in {"prepared", "abandoned"} /\ ~ruledOut[s] => retryCount[s] = 0

\* A step that leaves the counts and the rulings alone and makes no record
\* ready or abandoned.
LEMMA DeliveryFrame ==
  ASSUME DeliveryInv, UNCHANGED <<retryCount, accepted, ruledOut>>,
         \A s \in Sequences : dispatch'[s] \in {"prepared", "abandoned"}
                                => dispatch'[s] = dispatch[s]
  PROVE  DeliveryInv'
BY DEF DeliveryInv

LEMMA DeliveryStep ==
  TypeOK /\ LedgerInv /\ AttemptInv /\ DeliveryInv /\ [Next]_vars => DeliveryInv'
<1> SUFFICES ASSUME TypeOK, LedgerInv, AttemptInv, DeliveryInv, [Next]_vars
             PROVE  DeliveryInv'
  OBVIOUS
<1>1. CASE Hydrate
  <2>1. \A s \in Sequences : dispatch'[s] = AfterRestart(dispatch[s])
    BY <1>1, NothingReplayed DEF Hydrate
  <2> QED
    BY <1>1, <2>1, DeliveryFrame DEF Hydrate, AfterRestart, world
<1>2. ASSUME NEW k \in Keys, Prepare(k) PROVE DeliveryInv'
  <2> DEFINE n == lastSequence + 1
  <2>1. n \in Sequences /\ ~Allocated(n)
    BY <1>2, BoundsAssumption DEF Prepare, TypeOK, StateFileOK, Sequences, Allocated
  <2>2. retryCount[n] = 0
    BY <2>1 DEF LedgerInv, AllocationInv
  <2>3. \A s \in Sequences : s # n => dispatch'[s] = dispatch[s]
    BY <1>2, <2>1 DEF Prepare, TypeOK, StateFileOK
  <2> QED
    BY <1>2, <2>1, <2>2, <2>3 DEF Prepare, DeliveryInv, world
<1>3. ASSUME NEW w \in Workers, NEW s \in Sequences, BeginAttempt(w, s) PROVE DeliveryInv'
  <2>1. /\ retryCount'[s] = retryCount[s] + 1 /\ retryCount[s] \in Nat
        /\ dispatch'[s] = "in_flight"
        /\ \A t \in Sequences : t # s => /\ retryCount'[t] = retryCount[t]
                                         /\ dispatch'[t] = dispatch[t]
                                         /\ ruledOut'[t] = ruledOut[t]
        /\ UNCHANGED accepted
    BY <1>3, BoundsAssumption DEF BeginAttempt, CountAttempt, TypeOK, StateFileOK, WorldOK
  <2> QED
    BY <2>1 DEF DeliveryInv
<1>4. ASSUME NEW s \in Sequences, Accept(s) PROVE DeliveryInv'
  <2>1. PICK n \in Attempts : sent[s][n] > 0
    BY <1>4 DEF Accept
  <2>2. n <= retryCount[s]
    BY <2>1, BoundsAssumption DEF AttemptInv, UncountedUnsent, TypeOK, StateFileOK, Attempts
  <2>3. retryCount[s] > 0
    BY <2>2, BoundsAssumption DEF Attempts, TypeOK, StateFileOK
  <2> QED
    BY <1>4, <2>3 DEF Accept, DeliveryInv, stateFile, TypeOK, WorldOK
<1>5. ASSUME NEW s \in Sequences, MoveToCommitted(s),
             UNCHANGED <<retryCount, accepted, ruledOut>>
      PROVE  DeliveryInv'
  BY <1>5, DeliveryFrame DEF MoveToCommitted, TypeOK, StateFileOK
<1>6. CASE UNCHANGED <<retryCount, accepted, ruledOut, dispatch>>
  BY <1>6, DeliveryFrame
<1>7. ASSUME NEW w \in Workers, CallStep(w) PROVE DeliveryInv'
  <2>1. CASE Finalize(w)
    <3>1. target[w] \in Sequences
      BY <2>1 DEF Finalize, TypeOK, ProcessOK
    <3> QED
      BY <1>5, <1>6, <2>1, <3>1 DEF Finalize, world
  <2>2. CASE MarkUncertain(w)
    <3>1. \A s \in Sequences : dispatch'[s] \in {"prepared", "abandoned"}
                                 => dispatch'[s] = dispatch[s]
      BY <2>2 DEF MarkUncertain, TypeOK, StateFileOK
    <3> QED
      BY <2>2, <3>1, DeliveryFrame DEF MarkUncertain, world
  <2> QED
    BY <1>6, <1>7, <2>1, <2>2 DEF CallStep, RetryRefused, Send, ResponseOk, RequestFails,
       FinalizeFails, MarkUncertainFails, stateFile, world
<1>8. ASSUME NEW s \in Sequences, ConfirmNotCommitted(s) \/ Abandon(s) PROVE DeliveryInv'
  <2>1. /\ ruledOut'[s] = TRUE
        /\ \A t \in Sequences : t # s => /\ dispatch'[t] = dispatch[t]
                                         /\ ruledOut'[t] = ruledOut[t]
        /\ UNCHANGED <<retryCount, accepted>>
    BY <1>8 DEF ConfirmNotCommitted, Abandon, TypeOK, StateFileOK, WorldOK
  <2> QED
    BY <2>1 DEF DeliveryInv
<1>9. ASSUME NEW s \in Sequences, ConfirmCommitted(s) \/ DeadlinePasses(s) PROVE DeliveryInv'
  BY <1>5, <1>6, <1>9 DEF ConfirmCommitted, DeadlinePasses, world
<1>10. CASE \/ \E b \in BOOLEAN : SetMutationEnabled(b) \/ SetKillSwitch(b)
            \/ \E w \in Workers, s \in Sequences : RetryCheck(w, s)
            \/ Crash \/ UNCHANGED vars
  BY <1>6, <1>10 DEF SetMutationEnabled, SetKillSwitch, RetryCheck, Crash, vars,
     stateFile, world
<1> QED
  BY <1>1, <1>2, <1>3, <1>4, <1>7, <1>8, <1>9, <1>10 DEF Next

LEMMA DeliveryInit == Init => DeliveryInv
BY DEF Init, DeliveryInv

LEMMA DeliveryAlways == Spec => []DeliveryInv
BY DeliveryInit, DeliveryStep, TypeCorrect, LedgerAlways, AttemptAlways, PTL DEF Spec

\* A publication the provider has executed is committed, in flight or uncertain
\* until the operator rules otherwise.
THEOREM DeliveredNotForgottenHolds == Spec => []DeliveredNotForgotten
<1>1. TypeOK /\ LedgerInv /\ DeliveryInv => DeliveredNotForgotten
  <2> SUFFICES ASSUME TypeOK, LedgerInv, DeliveryInv, NEW s \in Sequences, accepted[s],
                      ~IsCommitted(s), ~ruledOut[s]
               PROVE  dispatch[s] \in {"in_flight", "uncertain"}
    BY DEF DeliveredNotForgotten
  <2>1. Allocated(s)
    BY DEF DeliveryInv, LedgerInv, AllocationInv
  <2>2. dispatch[s] \in DispatchStates
    BY <2>1 DEF LedgerInv, KeyAllocatedOnce, IsPending, TypeOK, StateFileOK
  <2> QED
    BY <2>2 DEF DeliveryInv, DispatchStates
<1> QED
  BY <1>1, TypeCorrect, LedgerAlways, DeliveryAlways, PTL

-----------------------------------------------------------------------------
(* While the storage works, whoever put a record in flight works on it.     *)

\* A step after which nobody has stopped working and nothing more is in flight.
LEMMA OwnedFrame ==
  ASSUME InFlightOwned, hydrated' => hydrated,
         \A s \in Sequences : dispatch'[s] = "in_flight" => dispatch[s] = "in_flight",
         \A w \in Workers, s \in Sequences :
           Working(w, s) /\ dispatch'[s] = "in_flight" => Working(w, s)'
  PROVE  InFlightOwned'
BY DEF InFlightOwned

\* A call that settles leaves no record in flight behind.
LEMMA OwnedReturn ==
  ASSUME TypeOK, InFlightOwned, NEW w \in Workers, Return(w),
         \A s \in Sequences : dispatch'[s] = "in_flight" => dispatch[s] = "in_flight",
         pc[w] = "checked" \/ dispatch'[target[w]] # "in_flight"
  PROVE  InFlightOwned'
<1>1. \A v \in Workers : v # w => pc'[v] = pc[v] /\ target'[v] = target[v]
  BY DEF Return, TypeOK, ProcessOK
<1>2. \A v \in Workers, s \in Sequences :
        Working(v, s) /\ dispatch'[s] = "in_flight" => Working(v, s)'
  BY <1>1 DEF Working
<1> QED
  BY <1>2, OwnedFrame DEF Return

LEMMA OwnedGoto ==
  ASSUME TypeOK, InFlightOwned, NEW w \in Workers, UNCHANGED dispatch,
         Goto(w, "awaiting") \/ Goto(w, "finalizing") \/ Goto(w, "failing")
  PROVE  InFlightOwned'
<1>1. \A v \in Workers, s \in Sequences : Working(v, s) => Working(v, s)'
  BY DEF Goto, Working, TypeOK, ProcessOK
<1> QED
  BY <1>1, OwnedFrame DEF Goto

LEMMA OwnedStep ==
  ASSUME StorageMayFail = FALSE
  PROVE  TypeOK /\ LedgerInv /\ InFlightOwned /\ [Next]_vars => InFlightOwned'
<1> SUFFICES ASSUME TypeOK, LedgerInv, InFlightOwned, [Next]_vars PROVE InFlightOwned'
  OBVIOUS
<1>1. CASE Hydrate
  <2>1. \A s \in Sequences : dispatch'[s] = AfterRestart(dispatch[s])
    BY <1>1, NothingReplayed DEF Hydrate
  <2> QED
    BY <2>1 DEF AfterRestart, InFlightOwned
<1>2. ASSUME NEW w \in Workers, NEW s \in Sequences, BeginAttempt(w, s) PROVE InFlightOwned'
  <2>1. /\ \A v \in Workers : v # w => pc'[v] = pc[v] /\ target'[v] = target[v]
        /\ pc'[w] = "dispatching" /\ target'[w] = s
        /\ \A t \in Sequences : t # s => dispatch'[t] = dispatch[t]
        /\ pc[w] \in {"idle", "checked"} /\ hydrated
    BY <1>2 DEF BeginAttempt, TypeOK, StateFileOK, ProcessOK
  <2>2. \A t \in Sequences : t # s /\ dispatch[t] = "in_flight"
                               => \E v \in Workers : v # w /\ Working(v, t)
    BY <2>1 DEF InFlightOwned, Working
  <2> QED
    BY <2>1, <2>2 DEF InFlightOwned, Working
<1>3. ASSUME NEW w \in Workers, CallStep(w) PROVE InFlightOwned'
  <2>1. CASE RetryRefused(w)
    BY <2>1, OwnedReturn DEF RetryRefused, stateFile
  <2>2. CASE Send(w) \/ ResponseOk(w) \/ RequestFails(w) \/ FinalizeFails(w)
    BY <2>2, OwnedGoto DEF Send, ResponseOk, RequestFails, FinalizeFails, stateFile
  <2>3. CASE Finalize(w)
    <3>1. target[w] \in Sequences
      BY <2>3 DEF Finalize, TypeOK, ProcessOK
    <3>2. CASE IsPending(target[w])
      BY <2>3, <3>1, <3>2, OwnedReturn DEF Finalize, MoveToCommitted, TypeOK, StateFileOK
    <3>3. CASE ~IsPending(target[w])
      BY <2>3, <3>1, <3>3, OwnedReturn, OwnedGoto DEF Finalize, IsPending
    <3> QED
      BY <3>2, <3>3
  <2>4. CASE MarkUncertain(w)
    <3>1. target[w] \in Sequences
      BY <2>4 DEF MarkUncertain, TypeOK, ProcessOK
    <3>2. /\ dispatch'[target[w]] # "in_flight"
          /\ \A s \in Sequences : dispatch'[s] = "in_flight" => dispatch[s] = "in_flight"
      BY <2>4, <3>1 DEF MarkUncertain, IsPending, TypeOK, StateFileOK
    <3> QED
      BY <2>4, <3>2, OwnedReturn DEF MarkUncertain
  <2>5. CASE MarkUncertainFails(w)
    BY <2>5 DEF MarkUncertainFails
  <2> QED
    BY <1>3, <2>1, <2>2, <2>3, <2>4, <2>5 DEF CallStep
<1>4. ASSUME NEW w \in Workers, NEW s \in Sequences, RetryCheck(w, s) PROVE InFlightOwned'
  <2>1. \A v \in Workers, t \in Sequences : Working(v, t) => Working(v, t)'
    BY <1>4 DEF RetryCheck, Working, TypeOK, ProcessOK
  <2> QED
    BY <1>4, <2>1, OwnedFrame DEF RetryCheck, stateFile
<1>5. ASSUME UNCHANGED <<hydrated, pc, target>>,
             \A s \in Sequences : dispatch'[s] = "in_flight" => dispatch[s] = "in_flight"
      PROVE  InFlightOwned'
  BY <1>5, OwnedFrame DEF Working
<1>6. ASSUME NEW k \in Keys, Prepare(k) PROVE InFlightOwned'
  BY <1>5, <1>6 DEF Prepare, process, TypeOK, StateFileOK
<1>7. ASSUME NEW s \in Sequences,
             \/ Accept(s) \/ ConfirmCommitted(s) \/ ConfirmNotCommitted(s)
             \/ Abandon(s) \/ DeadlinePasses(s)
      PROVE  InFlightOwned'
  <2>1. \A t \in Sequences : dispatch'[t] = "in_flight" => dispatch[t] = "in_flight"
    BY <1>7 DEF Accept, ConfirmCommitted, MoveToCommitted, ConfirmNotCommitted, Abandon,
       DeadlinePasses, stateFile, TypeOK, StateFileOK
  <2>2. UNCHANGED <<hydrated, pc, target>>
    BY <1>7 DEF Accept, ConfirmCommitted, ConfirmNotCommitted, Abandon, DeadlinePasses, process
  <2> QED
    BY <1>5, <2>1, <2>2
<1>8. CASE \/ \E b \in BOOLEAN : SetMutationEnabled(b) \/ SetKillSwitch(b)
           \/ UNCHANGED vars
  BY <1>5, <1>8 DEF SetMutationEnabled, SetKillSwitch, vars, stateFile, process
<1>9. CASE Crash
  BY <1>9 DEF Crash, InFlightOwned
<1> QED
  BY <1>1, <1>2, <1>3, <1>4, <1>6, <1>7, <1>8, <1>9 DEF Next

LEMMA OwnedInit == Init => InFlightOwned
BY DEF Init, InFlightOwned

\* While every write succeeds, a record is in flight only as long as a call
\* works on it, however many calls run and whenever the process restarts.
THEOREM InFlightOwnedHolds ==
  ASSUME StorageMayFail = FALSE
  PROVE  Spec => []InFlightOwned
<1>1. TypeOK /\ LedgerInv /\ InFlightOwned /\ [Next]_vars => InFlightOwned'
  BY OwnedStep
<1> QED
  BY <1>1, OwnedInit, TypeCorrect, LedgerAlways, PTL DEF Spec

-----------------------------------------------------------------------------
(* An overdue publication waits for the operator.                           *)

\* Only an attempt makes a record uncertain or starts its deadline.
Attempted(s) == retryCount[s] > 0
DeadlineInv ==
  \A s \in Sequences :
    deadline[s] # "unset" \/ dispatch[s] \in {"in_flight", "uncertain"} => Attempted(s)

LEMMA DeadlineFrame ==
  ASSUME DeadlineInv, UNCHANGED retryCount,
         \A s \in Sequences : /\ deadline'[s] # "unset" => deadline[s] # "unset" \/ Attempted(s)
                              /\ dispatch'[s] \in {"in_flight", "uncertain"} =>
                                   dispatch[s] \in {"in_flight", "uncertain"} \/ Attempted(s)
  PROVE  DeadlineInv'
BY DEF DeadlineInv, Attempted

LEMMA DeadlineStep ==
  TypeOK /\ LedgerInv /\ AttemptInv /\ DeadlineInv /\ [Next]_vars => DeadlineInv'
<1> SUFFICES ASSUME TypeOK, LedgerInv, AttemptInv, DeadlineInv, [Next]_vars
             PROVE  DeadlineInv'
  OBVIOUS
<1>1. CASE Hydrate
  <2>1. \A s \in Sequences : dispatch'[s] = AfterRestart(dispatch[s])
    BY <1>1, NothingReplayed DEF Hydrate
  <2>2. \A s \in Sequences : deadline'[s] # "unset" =>
          deadline[s] # "unset" \/ AfterRestart(dispatch[s]) = "uncertain"
    BY <1>1 DEF Hydrate, TypeOK, StateFileOK
  <2> QED
    BY <1>1, <2>1, <2>2 DEF Hydrate, AfterRestart, DeadlineInv, Attempted
<1>2. ASSUME NEW w \in Workers, NEW s \in Sequences, BeginAttempt(w, s) PROVE DeadlineInv'
  <2>1. /\ retryCount'[s] = retryCount[s] + 1 /\ retryCount[s] \in Nat
        /\ \A t \in Sequences : t # s => /\ retryCount'[t] = retryCount[t]
                                         /\ dispatch'[t] = dispatch[t]
        /\ UNCHANGED deadline
    BY <1>2, BoundsAssumption DEF BeginAttempt, CountAttempt, TypeOK, StateFileOK
  <2> QED
    BY <2>1 DEF DeadlineInv, Attempted
<1>3. ASSUME NEW w \in Workers, MarkUncertain(w) PROVE DeadlineInv'
  <2>1. target[w] \in Sequences /\ Attempted(target[w])
    BY <1>3, BoundsAssumption DEF MarkUncertain, TypeOK, StateFileOK, ProcessOK, AttemptInv,
       HoldsCounted, InAttempt, Attempted, Attempts
  <2>2. /\ \A t \in Sequences : t # target[w] => /\ dispatch'[t] = dispatch[t]
                                                 /\ deadline'[t] = deadline[t]
        /\ UNCHANGED retryCount
    BY <1>3 DEF MarkUncertain, TypeOK, StateFileOK
  <2> QED
    BY <2>1, <2>2, DeadlineFrame
<1>4. ASSUME NEW w \in Workers, CallStep(w) PROVE DeadlineInv'
  <2>1. CASE Finalize(w)
    BY <2>1, DeadlineFrame DEF Finalize, MoveToCommitted, TypeOK, StateFileOK
  <2> QED
    BY <1>3, <1>4, <2>1, DeadlineFrame DEF CallStep, RetryRefused, Send, ResponseOk,
       RequestFails, FinalizeFails, MarkUncertainFails, stateFile
<1>5. ASSUME NEW k \in Keys, Prepare(k) PROVE DeadlineInv'
  BY <1>5, DeadlineFrame DEF Prepare, TypeOK, StateFileOK
<1>6. ASSUME NEW s \in Sequences, Accept(s) \/ ConfirmCommitted(s) \/ ConfirmNotCommitted(s) \/ Abandon(s)
      PROVE  DeadlineInv'
  <2>1. UNCHANGED <<deadline, retryCount>>
    BY <1>6 DEF Accept, ConfirmCommitted, ConfirmNotCommitted, Abandon, stateFile
  <2>2. \A t \in Sequences : dispatch'[t] \in {"in_flight", "uncertain"} => dispatch'[t] = dispatch[t]
    BY <1>6 DEF Accept, ConfirmCommitted, MoveToCommitted, ConfirmNotCommitted, Abandon,
       stateFile, TypeOK, StateFileOK
  <2> QED
    BY <2>1, <2>2, DeadlineFrame
<1>7. ASSUME NEW s \in Sequences, DeadlinePasses(s) PROVE DeadlineInv'
  <2>1. \A t \in Sequences : deadline'[t] # "unset" => deadline[t] # "unset"
    BY <1>7 DEF DeadlinePasses, TypeOK, StateFileOK
  <2> QED
    BY <1>7, <2>1, DeadlineFrame DEF DeadlinePasses
<1>8. CASE \/ \E b \in BOOLEAN : SetMutationEnabled(b) \/ SetKillSwitch(b)
           \/ \E w \in Workers, s \in Sequences : RetryCheck(w, s)
           \/ Crash \/ UNCHANGED vars
  BY <1>8, DeadlineFrame DEF SetMutationEnabled, SetKillSwitch, RetryCheck, Crash, vars, stateFile
<1> QED
  BY <1>1, <1>2, <1>4, <1>5, <1>6, <1>7, <1>8 DEF Next

LEMMA DeadlineInit == Init => DeadlineInv
BY DEF Init, DeadlineInv

LEMMA DeadlineAlways == Spec => []DeadlineInv
BY DeadlineInit, DeadlineStep, TypeCorrect, LedgerAlways, AttemptAlways, PTL DEF Spec

\* Only the beginning of an attempt raises a retry count.
LEMMA OnlyAttemptsCount ==
  ASSUME TypeOK, [Next]_vars, NEW s \in Sequences, retryCount'[s] > retryCount[s]
  PROVE  \E w \in Workers : BeginAttempt(w, s)
<1>1. retryCount[s] \in Nat /\ retryCount' # retryCount
  BY BoundsAssumption DEF TypeOK, StateFileOK
<1>2. \E w \in Workers, t \in Sequences : BeginAttempt(w, t)
  <2>1. ~(\E w \in Workers : CallStep(w))
    BY <1>1 DEF CallStep, RetryRefused, Send, ResponseOk, RequestFails, Finalize,
       FinalizeFails, MarkUncertain, MarkUncertainFails, stateFile
  <2>2. ~(\E t \in Sequences : \/ Accept(t) \/ ConfirmCommitted(t) \/ ConfirmNotCommitted(t)
                               \/ Abandon(t) \/ DeadlinePasses(t))
    BY <1>1 DEF Accept, ConfirmCommitted, ConfirmNotCommitted, Abandon, DeadlinePasses, stateFile
  <2> QED
    BY <1>1, <2>1, <2>2 DEF Next, Hydrate, SetMutationEnabled, SetKillSwitch, Prepare,
       RetryCheck, Crash, vars, stateFile
<1>3. PICK w \in Workers, t \in Sequences : BeginAttempt(w, t)
  BY <1>2
<1>4. t = s
  BY <1>1, <1>3 DEF BeginAttempt, CountAttempt, TypeOK, StateFileOK
<1> QED
  BY <1>3, <1>4

\* With one call at a time and a storage that works, an attempt on a publication
\* that has been uncertain for too long starts on a ruling of the operator.
THEOREM OverdueNeedsRulingHolds ==
  ASSUME StorageMayFail = FALSE, \A v, w \in Workers : v = w
  PROVE  Spec => OverdueNeedsRuling
<1> DEFINE Ruled == \A s \in Sequences :
                      retryCount'[s] > retryCount[s] /\ deadline[s] = "passed" => ruledOut[s]
<1>1. TypeOK /\ LedgerInv /\ InFlightOwned /\ DeliveryInv /\ DeadlineInv /\ [Next]_vars => [Ruled]_vars
  <2> SUFFICES ASSUME TypeOK, LedgerInv, InFlightOwned, DeliveryInv, DeadlineInv, [Next]_vars,
                      NEW s \in Sequences, retryCount'[s] > retryCount[s], deadline[s] = "passed",
                      ~ruledOut[s]
               PROVE  FALSE
    OBVIOUS
  <2>1. PICK w \in Workers : BeginAttempt(w, s)
    BY OnlyAttemptsCount
  <2>2. retryCount[s] > 0
    BY DEF DeadlineInv, Attempted
  <2>3. dispatch[s] \in {"in_flight", "uncertain"}
    BY <2>1, <2>2 DEF BeginAttempt, MayCommit, IsPending, DeliveryInv, TypeOK, StateFileOK, DispatchStates
  <2>4. dispatch[s] = "in_flight" /\ hydrated /\ pc[w] \in {"idle", "checked"}
    BY <2>1, <2>3 DEF BeginAttempt, MayCommit
  <2> QED
    BY <2>4 DEF InFlightOwned, Working
<1>2. Spec => []InFlightOwned
  BY InFlightOwnedHolds
<1> HIDE DEF Ruled
<1>3. Spec => [][Ruled]_vars
  BY <1>1, <1>2, TypeCorrect, LedgerAlways, DeliveryAlways, DeadlineAlways, PTL DEF Spec
<1> QED
  BY <1>3 DEF OverdueNeedsRuling, Ruled

-----------------------------------------------------------------------------
(* The protocol implements the abstract ledger of PublicationLedger.        *)

StatusFunction == [k \in Keys |-> KeyStatus(k)]
LedgerState    == <<StatusFunction, KeysOf(accepted), KeysOf(ruledIn)>>

\* A call has an answer to record only when the provider has executed its
\* publication; what the operator confirmed is in the committed list.
GroundsInv ==
  /\ \A w \in Workers : pc[w] = "finalizing" => accepted[target[w]]
  /\ \A s \in Sequences : ruledIn[s] => IsCommitted(s)

\* A step after which no other call has an answer to record.
LEMMA GroundsFrame ==
  ASSUME GroundsInv, UNCHANGED ruledIn,
         \A w \in Workers : pc'[w] = "finalizing" =>
                              pc[w] = "finalizing" /\ target'[w] = target[w],
         \A s \in Sequences : /\ accepted[s] => accepted'[s]
                              /\ IsCommitted(s) => IsCommitted(s)',
         TypeOK
  PROVE  GroundsInv'
BY DEF GroundsInv, TypeOK, ProcessOK

LEMMA GroundsStep == TypeOK /\ GroundsInv /\ [Next]_vars => GroundsInv'
<1> SUFFICES ASSUME TypeOK, GroundsInv, [Next]_vars PROVE GroundsInv'
  OBVIOUS
<1>1. ASSUME NEW w \in Workers, CallStep(w) PROVE GroundsInv'
  <2>1. ASSUME Return(w), UNCHANGED <<committed, accepted, ruledIn>> PROVE GroundsInv'
    <3>1. \A v \in Workers : pc'[v] = "finalizing" =>
                               pc[v] = "finalizing" /\ target'[v] = target[v]
      BY <2>1 DEF Return, TypeOK, ProcessOK
    <3> QED
      BY <2>1, <3>1, GroundsFrame DEF IsCommitted
  <2>2. ASSUME Goto(w, "awaiting") \/ Goto(w, "failing"),
               UNCHANGED <<committed, accepted, ruledIn>>
        PROVE  GroundsInv'
    <3>1. \A v \in Workers : pc'[v] = "finalizing" =>
                               pc[v] = "finalizing" /\ target'[v] = target[v]
      BY <2>2 DEF Goto, TypeOK, ProcessOK
    <3> QED
      BY <2>2, <3>1, GroundsFrame DEF IsCommitted
  <2>3. CASE ResponseOk(w)
    BY <2>3 DEF ResponseOk, Goto, GroundsInv, IsCommitted, stateFile, world, TypeOK, ProcessOK
  <2>4. CASE Finalize(w)
    <3>1. CASE IsPending(target[w])
      <4>1. \A v \in Workers : pc'[v] = "finalizing" =>
                                 pc[v] = "finalizing" /\ target'[v] = target[v]
        BY <2>4, <3>1 DEF Finalize, Return, TypeOK, ProcessOK
      <4>2. \A s \in Sequences : IsCommitted(s) => IsCommitted(s)'
        BY <2>4, <3>1 DEF Finalize, MoveToCommitted, IsCommitted, TypeOK, StateFileOK
      <4> QED
        BY <2>4, <4>1, <4>2, GroundsFrame DEF Finalize, world
    <3>2. CASE ~IsPending(target[w])
      BY <2>1, <2>2, <2>4, <3>2 DEF Finalize, world
    <3> QED
      BY <3>1, <3>2
  <2>5. CASE RetryRefused(w) \/ MarkUncertain(w) \/ MarkUncertainFails(w)
    BY <2>1, <2>5 DEF RetryRefused, MarkUncertain, MarkUncertainFails, stateFile, world
  <2>6. CASE Send(w) \/ RequestFails(w) \/ FinalizeFails(w)
    BY <2>2, <2>6 DEF Send, RequestFails, FinalizeFails, stateFile, world
  <2> QED
    BY <1>1, <2>3, <2>4, <2>5, <2>6 DEF CallStep
<1>2. ASSUME NEW s \in Sequences, Accept(s) PROVE GroundsInv'
  <2>1. \A t \in Sequences : accepted[t] => accepted'[t]
    BY <1>2 DEF Accept, TypeOK, WorldOK
  <2> QED
    BY <1>2, <2>1, GroundsFrame DEF Accept, IsCommitted, stateFile, process
<1>3. ASSUME NEW s \in Sequences, ConfirmCommitted(s) PROVE GroundsInv'
  <2>1. /\ committed'[s] > 0 /\ \A t \in Sequences : t # s => committed'[t] = committed[t]
        /\ \A t \in Sequences : t # s => ruledIn'[t] = ruledIn[t]
    BY <1>3 DEF ConfirmCommitted, MoveToCommitted, TypeOK, StateFileOK, WorldOK
  <2> QED
    BY <1>3, <2>1 DEF ConfirmCommitted, GroundsInv, IsCommitted, process
<1>4. ASSUME NEW w \in Workers, NEW s \in Sequences, RetryCheck(w, s) \/ BeginAttempt(w, s)
      PROVE  GroundsInv'
  <2>1. \A v \in Workers : pc'[v] = "finalizing" =>
                             pc[v] = "finalizing" /\ target'[v] = target[v]
    BY <1>4 DEF RetryCheck, BeginAttempt, TypeOK, ProcessOK
  <2> QED
    BY <1>4, <2>1, GroundsFrame DEF RetryCheck, BeginAttempt, IsCommitted, stateFile, world
<1>5. CASE Crash
  <2>1. \A v \in Workers : pc'[v] # "finalizing"
    BY <1>5 DEF Crash
  <2> QED
    BY <1>5, <2>1, GroundsFrame DEF Crash, IsCommitted, stateFile
<1>6. CASE UNCHANGED <<pc, target, committed, accepted, ruledIn>>
  BY <1>6, GroundsFrame DEF IsCommitted
<1>7. CASE Hydrate \/ (\E b \in BOOLEAN : SetMutationEnabled(b) \/ SetKillSwitch(b))
           \/ (\E k \in Keys : Prepare(k))
           \/ (\E s \in Sequences : ConfirmNotCommitted(s) \/ Abandon(s) \/ DeadlinePasses(s))
           \/ UNCHANGED vars
  BY <1>6, <1>7 DEF Hydrate, SetMutationEnabled, SetKillSwitch, Prepare, ConfirmNotCommitted,
     Abandon, DeadlinePasses, vars, stateFile, process, world
<1> QED
  BY <1>1, <1>2, <1>3, <1>4, <1>5, <1>7 DEF Next

LEMMA GroundsAlways == Spec => []GroundsInv
<1>1. Init => GroundsInv
  BY DEF Init, GroundsInv
<1> QED
  BY <1>1, GroundsStep, TypeCorrect, PTL DEF Spec

\* The status of a key is that of the one sequence it is allocated to.
LEMMA StatusOfAllocated ==
  ASSUME TypeOK, LedgerInv, NEW s \in Sequences, Allocated(s)
  PROVE  KeyStatus(keyOf[s]) = IF IsPending(s) THEN "open" ELSE "published"
<1>1. \A t \in Sequences : (IsPending(t) \/ IsCommitted(t)) /\ keyOf[t] = keyOf[s] => t = s
  BY DEF LedgerInv, AllocationInv, KeyAllocatedOnce, IsPending, IsCommitted
<1>2. IsPending(s) \/ IsCommitted(s)
  BY DEF LedgerInv, KeyAllocatedOnce
<1> QED
  BY <1>1, <1>2 DEF KeyStatus

\* A step that moves no record in or out of the two lists is a stutter.
LEMMA RefinementFrame ==
  ASSUME UNCHANGED <<keyOf, accepted, ruledIn, committed>>,
         \A s \in Sequences : IsPending(s)' <=> IsPending(s)
  PROVE  UNCHANGED LedgerState
BY DEF LedgerState, StatusFunction, KeysOf, KeyStatus, IsCommitted

\* Moving a record to the committed list publishes its key, which was open.
LEMMA RefinementMove ==
  ASSUME TypeOK, LedgerInv, TypeOK', LedgerInv', NEW s \in Sequences, IsPending(s),
         MoveToCommitted(s), UNCHANGED <<lastSequence, keyOf>>
  PROVE  /\ keyOf[s] \in Keys /\ StatusFunction[keyOf[s]] = "open"
         /\ StatusFunction' = [StatusFunction EXCEPT ![keyOf[s]] = "published"]
<1>1. Allocated(s) /\ Allocated(s)' /\ keyOf[s] \in Keys
  BY DEF LedgerInv, AllocationInv, IsPending, Allocated
<1>2. KeyStatus(keyOf[s]) = "open"
  BY <1>1, StatusOfAllocated
<1>3. /\ \A t \in Sequences : t # s => /\ dispatch'[t] = dispatch[t]
                                       /\ committed'[t] = committed[t]
      /\ dispatch'[s] = "none" /\ committed'[s] > 0
  BY DEF MoveToCommitted, TypeOK, StateFileOK
<1>4. ~IsPending(s)' /\ IsCommitted(s)'
  BY <1>3 DEF IsPending, IsCommitted
<1>5. KeyStatus(keyOf[s])' = "published"
  <2>1. \A t \in Sequences : IsPending(t)' => keyOf[t] # keyOf[s]
    <3> SUFFICES ASSUME NEW t \in Sequences, IsPending(t)', keyOf[t] = keyOf[s] PROVE FALSE
      OBVIOUS
    <3>1. t # s /\ IsPending(t)
      BY <1>3, <1>4 DEF IsPending
    <3>2. Allocated(t)
      BY <3>1 DEF LedgerInv, AllocationInv, IsPending
    <3> QED
      BY <1>1, <3>1, <3>2 DEF LedgerInv, KeyAllocatedOnce
  <2> QED
    BY <1>4, <2>1 DEF KeyStatus
<1>6. \A k \in Keys : k # keyOf[s] => KeyStatus(k)' = KeyStatus(k)
  BY <1>3 DEF KeyStatus, IsPending, IsCommitted
<1> QED
  BY <1>1, <1>2, <1>5, <1>6 DEF StatusFunction

LEMMA RefinementStep ==
  ASSUME TypeOK, LedgerInv, AttemptInv, DeliveryInv, GroundsInv, TypeOK', LedgerInv',
         [Next]_vars
  PROVE  [Ledger!Next]_LedgerState
<1>1. ASSUME UNCHANGED <<keyOf, accepted, ruledIn, committed>>,
             \A s \in Sequences : IsPending(s)' <=> IsPending(s)
      PROVE  [Ledger!Next]_LedgerState
  BY <1>1, RefinementFrame
<1>2. ASSUME NEW k \in Keys, Prepare(k) PROVE [Ledger!Next]_LedgerState
  <2> DEFINE n == lastSequence + 1
  <2>1. n \in Sequences /\ ~Allocated(n)
    BY <1>2, BoundsAssumption DEF Prepare, TypeOK, StateFileOK, Sequences, Allocated
  <2>2. /\ keyOf'[n] = k /\ dispatch'[n] = "prepared"
        /\ \A s \in Sequences : s # n => keyOf'[s] = keyOf[s] /\ dispatch'[s] = dispatch[s]
        /\ UNCHANGED <<committed, accepted, ruledIn>>
        /\ ~accepted[n] /\ ~IsPending(n) /\ ~IsCommitted(n)
    BY <1>2, <2>1 DEF Prepare, TypeOK, StateFileOK, world, DeliveryInv, LedgerInv,
       AllocationInv, IsPending, IsCommitted
  <2>3. ~ruledIn[n]
    BY <2>1, <2>2 DEF GroundsInv
  <2>4. KeyStatus(k) = "absent"
    BY <1>2 DEF Prepare, KeyStatus, KeyIsPending, KeyIsCommitted
  <2>5. KeyStatus(k)' = "open"
    BY <2>1, <2>2 DEF KeyStatus, IsPending
  <2>6. \A j \in Keys : j # k => KeyStatus(j)' = KeyStatus(j)
    BY <2>1, <2>2 DEF KeyStatus, IsPending, IsCommitted
  <2>7. UNCHANGED <<KeysOf(accepted), KeysOf(ruledIn)>>
    BY <2>1, <2>2, <2>3 DEF KeysOf
  <2>8. Ledger!Open(k)
    BY <2>4, <2>5, <2>6, <2>7 DEF Ledger!Open, StatusFunction
  <2> QED
    BY <2>8 DEF Ledger!Next
<1>3. ASSUME NEW s \in Sequences, Accept(s) PROVE [Ledger!Next]_LedgerState
  <2>1. PICK n \in Attempts : sent[s][n] > 0
    BY <1>3 DEF Accept
  <2>2. n <= retryCount[s]
    BY <2>1, BoundsAssumption DEF AttemptInv, UncountedUnsent, TypeOK, StateFileOK, Attempts
  <2>3. retryCount[s] > 0
    BY <2>2, BoundsAssumption DEF Attempts, TypeOK, StateFileOK
  <2>4. Allocated(s) /\ keyOf[s] \in Keys
    BY <2>3 DEF LedgerInv, AllocationInv
  <2>5. KeyStatus(keyOf[s]) # "absent"
    BY <2>4, StatusOfAllocated
  <2>6. /\ KeysOf(accepted)' = KeysOf(accepted) \cup {keyOf[s]}
        /\ UNCHANGED <<KeysOf(ruledIn), StatusFunction>>
    BY <1>3, <2>4 DEF Accept, KeysOf, StatusFunction, KeyStatus, IsPending, IsCommitted,
       stateFile, TypeOK, WorldOK
  <2>7. PICK k \in Keys : k = keyOf[s]
    BY <2>4
  <2>8. Ledger!Execute(k)
    BY <2>5, <2>6, <2>7 DEF Ledger!Execute, StatusFunction
  <2> QED
    BY <2>8 DEF Ledger!Next
<1>4. CASE Hydrate
  <2>1. \A s \in Sequences : dispatch'[s] = AfterRestart(dispatch[s])
    BY <1>4, NothingReplayed DEF Hydrate
  <2> QED
    BY <1>1, <1>4, <2>1 DEF Hydrate, AfterRestart, IsPending, world
<1>5. ASSUME NEW w \in Workers, NEW s \in Sequences, BeginAttempt(w, s)
      PROVE  [Ledger!Next]_LedgerState
  BY <1>1, <1>5 DEF BeginAttempt, MayCommit, IsPending, TypeOK, StateFileOK
<1>6. CASE UNCHANGED <<keyOf, accepted, ruledIn, committed, dispatch>>
  BY <1>1, <1>6 DEF IsPending
<1>7. ASSUME NEW w \in Workers, CallStep(w) PROVE [Ledger!Next]_LedgerState
  <2>1. CASE Finalize(w)
    <3> DEFINE s == target[w]
    <3>1. s \in Sequences /\ accepted[s]
      BY <2>1 DEF Finalize, TypeOK, ProcessOK, GroundsInv
    <3>2. CASE IsPending(s)
      <4>1. MoveToCommitted(s) /\ UNCHANGED <<lastSequence, keyOf, accepted, ruledIn>>
        BY <2>1, <3>2 DEF Finalize, world
      <4>2. /\ keyOf[s] \in Keys /\ StatusFunction[keyOf[s]] = "open"
            /\ StatusFunction' = [StatusFunction EXCEPT ![keyOf[s]] = "published"]
        BY <3>1, <3>2, <4>1, RefinementMove
      <4>3. keyOf[s] \in KeysOf(accepted) /\ UNCHANGED <<KeysOf(accepted), KeysOf(ruledIn)>>
        BY <3>1, <4>1, <4>2 DEF KeysOf
      <4>4. Ledger!Publish(keyOf[s])
        BY <4>2, <4>3 DEF Ledger!Publish, StatusFunction
      <4> QED
        BY <4>2, <4>4 DEF Ledger!Next
    <3>3. CASE ~IsPending(s)
      BY <1>6, <2>1, <3>3 DEF Finalize, world
    <3> QED
      BY <3>2, <3>3
  <2>2. CASE MarkUncertain(w)
    BY <1>1, <2>2 DEF MarkUncertain, IsPending, TypeOK, StateFileOK, world
  <2> QED
    BY <1>6, <1>7, <2>1, <2>2 DEF CallStep, RetryRefused, Send, ResponseOk, RequestFails,
       FinalizeFails, MarkUncertainFails, stateFile, world
<1>8. ASSUME NEW s \in Sequences, ConfirmCommitted(s) PROVE [Ledger!Next]_LedgerState
  <2>1. /\ IsPending(s) /\ MoveToCommitted(s) /\ UNCHANGED <<lastSequence, keyOf, accepted>>
        /\ ruledIn' = [ruledIn EXCEPT ![s] = TRUE]
    BY <1>8 DEF ConfirmCommitted, Reconcilable, IsPending
  <2>2. /\ keyOf[s] \in Keys /\ StatusFunction[keyOf[s]] = "open"
        /\ StatusFunction' = [StatusFunction EXCEPT ![keyOf[s]] = "published"]
    BY <2>1, RefinementMove
  <2>3. KeysOf(ruledIn)' = KeysOf(ruledIn) \cup {keyOf[s]} /\ UNCHANGED KeysOf(accepted)
    BY <2>1, <2>2 DEF KeysOf, TypeOK, WorldOK
  <2>4. Ledger!Confirm(keyOf[s])
    BY <2>2, <2>3 DEF Ledger!Confirm, StatusFunction
  <2> QED
    BY <2>2, <2>4 DEF Ledger!Next
<1>9. ASSUME NEW s \in Sequences, ConfirmNotCommitted(s) \/ Abandon(s)
      PROVE  [Ledger!Next]_LedgerState
  BY <1>1, <1>9 DEF ConfirmNotCommitted, Abandon, Reconcilable, IsPending, TypeOK, StateFileOK
<1>10. CASE \/ \E b \in BOOLEAN : SetMutationEnabled(b) \/ SetKillSwitch(b)
            \/ \E w \in Workers, s \in Sequences : RetryCheck(w, s)
            \/ \E s \in Sequences : DeadlinePasses(s)
            \/ Crash \/ UNCHANGED vars
  BY <1>6, <1>10 DEF SetMutationEnabled, SetKillSwitch, RetryCheck, DeadlinePasses, Crash,
     vars, stateFile, world
<1> QED
  BY <1>2, <1>3, <1>4, <1>5, <1>7, <1>8, <1>9, <1>10 DEF Next

LEMMA RefinementInit == Init => Ledger!Init
BY DEF Init, Ledger!Init, KeyStatus, KeysOf, IsPending, IsCommitted

\* Seen by key, the protocol is the abstract ledger: a key is opened once and is
\* published once, from open, when the provider has executed its payload or the
\* operator has confirmed it; and the provider executes only what was opened.
THEOREM LedgerImplemented == Spec => ImplementsLedger
<1> DEFINE Inv == TypeOK /\ LedgerInv /\ AttemptInv /\ DeliveryInv /\ GroundsInv
<1>1. Inv /\ TypeOK' /\ LedgerInv' /\ [Next]_vars => [Ledger!Next]_LedgerState
  BY RefinementStep
<1>2. LedgerState = Ledger!ledger
  BY DEF LedgerState, StatusFunction, Ledger!ledger
<1>3. Inv /\ TypeOK' /\ LedgerInv' /\ [Next]_vars => [Ledger!Next]_Ledger!ledger
  BY <1>1, <1>2 DEF LedgerState, StatusFunction, Ledger!ledger
<1> QED
  BY <1>3, RefinementInit, TypeCorrect, LedgerAlways, AttemptAlways, DeliveryAlways,
     GroundsAlways, PTL DEF Spec, ImplementsLedger, Ledger!Spec
=============================================================================
