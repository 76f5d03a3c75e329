--------------------------- MODULE MutationControl ---------------------------
(***************************************************************************)
(* The outbound publication protocol of security/mutation-control.js.      *)
(*                                                                         *)
(* A publication is prepared (it gets the next mutation sequence and an    *)
(* idempotency key), then committed: a first governance transaction marks  *)
(* it in flight, the request goes out with no transaction held, a second   *)
(* transaction moves it to the committed list, or, when anything failed,   *)
(* marks it uncertain until a retry or the operator's reconciliation.      *)
(*                                                                         *)
(* Every governance transaction is one atomic step: withGovernanceTrans-   *)
(* action runs its handlers one after the other and persists the state by  *)
(* a rename, and a handler that throws persists nothing.  Calls interleave *)
(* between their transactions, and a crash may fall between any two steps. *)
(* What the transactions themselves guarantee is in GovernanceStore.       *)
(***************************************************************************)
EXTENDS Naturals

CONSTANTS
  Keys,             \* idempotency keys: one per provider and canonical payload
  NoKey,            \* the key of a sequence that is not allocated
  Workers,          \* commit and retry calls that may run at the same time
  MaxSequence,      \* bound: publications prepared in a behaviour
  MaxRetryAttempts, \* MUTATION_CONSTANTS.MAX_RETRY_ATTEMPTS
  MaxCrashes,       \* bound: process restarts in a behaviour
  StorageMayFail    \* whether a finalising transaction may fail to persist

ASSUME KeysAssumption == NoKey \notin Keys
ASSUME BoundsAssumption ==
  /\ MaxSequence \in Nat
  /\ MaxRetryAttempts \in Nat
  /\ MaxCrashes \in Nat
  /\ StorageMayFail \in BOOLEAN

Sequences == 1..MaxSequence
Attempts  == 1..MaxRetryAttempts

VARIABLES
  \* outboundMutation in the governance state file
  enabled, killSwitch,
  lastSequence,     \* lastMutationSequence
  keyOf,            \* the idempotency key of each allocated sequence
  dispatch,         \* dispatchState of the pending record, "none" without one
  allowRetry, retryCount,
  deadline,         \* uncertainDeadlineAt against the clock
  committed,        \* committedPublications: how many records of a sequence
  \* the process: one commit or retry call per worker
  hydrated,         \* hydrateReplayProtection has run in this process
  pc, target, attemptNo,
  \* the provider, and what the operator has ruled
  sent,             \* how often the request of an attempt was sent
  accepted,         \* the provider has executed the publication
  ruledIn,          \* reconciled as committed
  ruledOut,         \* reconciled as not committed, or abandoned, since the last attempt
  crashes

stateFile == <<enabled, killSwitch, lastSequence, keyOf, dispatch, allowRetry,
               retryCount, deadline, committed>>
process   == <<hydrated, pc, target, attemptNo>>
world     == <<sent, accepted, ruledIn, ruledOut, crashes>>
vars      == <<stateFile, process, world>>

DispatchStates == {"prepared", "in_flight", "uncertain", "abandoned"}

IsPending(s)   == dispatch[s] # "none"
IsCommitted(s) == committed[s] > 0

StateFileOK ==
  /\ enabled \in BOOLEAN
  /\ killSwitch \in BOOLEAN
  /\ lastSequence \in 0..MaxSequence
  /\ keyOf \in [Sequences -> Keys \cup {NoKey}]
  /\ dispatch \in [Sequences -> DispatchStates \cup {"none"}]
  /\ allowRetry \in [Sequences -> BOOLEAN]
  /\ retryCount \in [Sequences -> 0..MaxRetryAttempts]
  /\ deadline \in [Sequences -> {"unset", "running", "passed"}]
  /\ committed \in [Sequences -> Nat]

ProcessOK ==
  /\ hydrated \in BOOLEAN
  /\ pc \in [Workers -> {"idle", "checked", "dispatching", "awaiting",
                         "finalizing", "failing"}]
  /\ target \in [Workers -> Sequences \cup {0}]
  /\ attemptNo \in [Workers -> 0..MaxRetryAttempts]
  /\ \A w \in Workers : pc[w] # "idle" => target[w] \in Sequences
  /\ \A w \in Workers : pc[w] \notin {"idle", "checked"} => attemptNo[w] \in Attempts

WorldOK ==
  /\ sent \in [Sequences -> [Attempts -> Nat]]
  /\ accepted \in [Sequences -> BOOLEAN]
  /\ ruledIn \in [Sequences -> BOOLEAN]
  /\ ruledOut \in [Sequences -> BOOLEAN]
  /\ crashes \in 0..MaxCrashes

TypeOK == StateFileOK /\ ProcessOK /\ WorldOK

\* buildDefaultV8State: a fresh state file, outbound mutation disabled.
Init ==
  /\ enabled = FALSE
  /\ killSwitch = FALSE
  /\ lastSequence = 0
  /\ keyOf = [s \in Sequences |-> NoKey]
  /\ dispatch = [s \in Sequences |-> "none"]
  /\ allowRetry = [s \in Sequences |-> FALSE]
  /\ retryCount = [s \in Sequences |-> 0]
  /\ deadline = [s \in Sequences |-> "unset"]
  /\ committed = [s \in Sequences |-> 0]
  /\ hydrated = FALSE
  /\ pc = [w \in Workers |-> "idle"]
  /\ target = [w \in Workers |-> 0]
  /\ attemptNo = [w \in Workers |-> 0]
  /\ sent = [s \in Sequences |-> [n \in Attempts |-> 0]]
  /\ accepted = [s \in Sequences |-> FALSE]
  /\ ruledIn = [s \in Sequences |-> FALSE]
  /\ ruledOut = [s \in Sequences |-> FALSE]
  /\ crashes = 0

-----------------------------------------------------------------------------
(* Startup.  mcp-service runs hydrateReplayProtection before the first      *)
(* mutation method of a process (ensureMutationHydrated).  A record is      *)
(* always prepared while enabled, so preparedWhenEnabled is not modelled.   *)

\* Variants named <definition>_<fault> are the same code with one fault; each is
\* used to see that a property notices the fault, and by no specification.
KeyIsPending_Active(k)  == \E s \in Sequences : /\ dispatch[s] \in DispatchStates \ {"abandoned"}
                                               /\ keyOf[s] = k
KeyIsCommitted(k) == \E s \in Sequences : IsCommitted(s) /\ keyOf[s] = k
KeyIsPending(k)   == \E s \in Sequences : IsPending(s) /\ keyOf[s] = k

AfterRestart_Resend(d)  == IF d = "in_flight" THEN "prepared" ELSE d
AfterRestart_Trusted(d) == d

\* The outcome of an attempt that a crash cut short is not known.
AfterRestart(d) == IF d = "in_flight" THEN "uncertain" ELSE d

\* hydrateReplayProtection
Hydrate ==
  LET Replayed(s)  == IsPending(s) /\ KeyIsCommitted(keyOf[s])
      Uncertain(s) == ~Replayed(s) /\ AfterRestart(dispatch[s]) = "uncertain"
  IN
  /\ ~hydrated
  /\ hydrated' = TRUE
  /\ dispatch' = [s \in Sequences |-> IF Replayed(s) THEN "abandoned"
                                      ELSE AfterRestart(dispatch[s])]
  /\ deadline' = [s \in Sequences |->
                    IF Uncertain(s) /\ deadline[s] = "unset" THEN "running"
                    ELSE deadline[s]]
  /\ allowRetry' = [s \in Sequences |->
                      /\ allowRetry[s]
                      /\ ~Replayed(s)
                      /\ ~(Uncertain(s) /\ deadline[s] = "passed")]
  /\ UNCHANGED <<enabled, killSwitch, lastSequence, keyOf, retryCount, committed,
                 pc, target, attemptNo, world>>

-----------------------------------------------------------------------------
(* Operator controls.  The toggle cooldown and the toggles per minute only  *)
(* refuse a call, which then changes nothing.                               *)

\* setMutationEnabled
SetMutationEnabled(b) ==
  /\ hydrated
  /\ ~killSwitch
  /\ enabled' = b
  /\ UNCHANGED <<killSwitch, lastSequence, keyOf, dispatch, allowRetry, retryCount,
                 deadline, committed, process, world>>

\* setKillSwitch
SetKillSwitch(b) ==
  /\ hydrated
  /\ killSwitch' = b
  /\ UNCHANGED <<enabled, lastSequence, keyOf, dispatch, allowRetry, retryCount,
                 deadline, committed, process, world>>

\* preparePublication: the transaction that allocates the sequence
Prepare(k) ==
  LET s == lastSequence + 1 IN
  /\ hydrated
  /\ ~killSwitch
  /\ enabled
  /\ ~KeyIsCommitted(k)
  /\ ~KeyIsPending(k)
  /\ lastSequence < MaxSequence
  /\ lastSequence' = s
  /\ keyOf' = [keyOf EXCEPT ![s] = k]
  /\ dispatch' = [dispatch EXCEPT ![s] = "prepared"]
  /\ allowRetry' = [allowRetry EXCEPT ![s] = TRUE]
  /\ UNCHANGED <<enabled, killSwitch, retryCount, deadline, committed, process, world>>

-----------------------------------------------------------------------------
(* The commit call, one action per stretch of code between two awaits.      *)

Goto(w, where) ==
  /\ pc' = [pc EXCEPT ![w] = where]
  /\ UNCHANGED <<hydrated, target, attemptNo>>

\* The call settles, with an answer or an error to its caller.
Return(w) ==
  /\ pc' = [pc EXCEPT ![w] = "idle"]
  /\ target' = [target EXCEPT ![w] = 0]
  /\ attemptNo' = [attemptNo EXCEPT ![w] = 0]
  /\ UNCHANGED hydrated

\* retryPublication: its own transaction only checks, then commitPublication runs
RetryCheck(w, s) ==
  /\ hydrated
  /\ pc[w] = "idle"
  /\ dispatch[s] = "uncertain"
  /\ allowRetry[s]
  /\ retryCount[s] < MaxRetryAttempts
  /\ pc' = [pc EXCEPT ![w] = "checked"]
  /\ target' = [target EXCEPT ![w] = s]
  /\ UNCHANGED <<stateFile, hydrated, attemptNo, world>>

MayCommit_NoDeadline(s) ==
  /\ ~killSwitch /\ enabled /\ IsPending(s)
  /\ ~(dispatch[s] = "uncertain" /\ ~allowRetry[s])
  /\ ~IsCommitted(s) /\ ~KeyIsCommitted(keyOf[s])
  /\ retryCount[s] < MaxRetryAttempts

\* The checks of commitPublication's first transaction.
MayCommit(s) ==
  /\ ~killSwitch
  /\ enabled
  /\ IsPending(s)
  /\ ~(dispatch[s] = "uncertain" /\ ~allowRetry[s])
  /\ ~IsCommitted(s)
  /\ ~KeyIsCommitted(keyOf[s])
  /\ retryCount[s] < MaxRetryAttempts
  /\ ~(dispatch[s] = "uncertain" /\ deadline[s] = "passed")

CountAttempt_Never(s) == UNCHANGED retryCount
CountAttempt(s) == retryCount' = [retryCount EXCEPT ![s] = @ + 1]

\* commitPublication: the first transaction
BeginAttempt(w, s) ==
  /\ hydrated
  /\ pc[w] = "idle" \/ (pc[w] = "checked" /\ target[w] = s)
  /\ MayCommit(s)
  /\ dispatch' = [dispatch EXCEPT ![s] = "in_flight"]
  /\ CountAttempt(s)
  /\ pc' = [pc EXCEPT ![w] = "dispatching"]
  /\ target' = [target EXCEPT ![w] = s]
  /\ attemptNo' = [attemptNo EXCEPT ![w] = retryCount[s] + 1]
  /\ ruledOut' = [ruledOut EXCEPT ![s] = FALSE]
  /\ UNCHANGED <<enabled, killSwitch, lastSequence, keyOf, allowRetry, deadline,
                 committed, hydrated, sent, accepted, ruledIn, crashes>>

\* A retry whose commit is refused, by a check or by the publish quota.
RetryRefused(w) ==
  /\ pc[w] = "checked"
  /\ Return(w)
  /\ UNCHANGED <<stateFile, world>>

\* executePinnedRequest writes the request on the socket.
Send(w) ==
  /\ pc[w] = "dispatching"
  /\ Goto(w, "awaiting")
  /\ sent' = [sent EXCEPT ![target[w]][attemptNo[w]] = @ + 1]
  /\ UNCHANGED <<stateFile, accepted, ruledIn, ruledOut, crashes>>

\* The provider executes a request it was sent, answered or not (external).
Accept(s) ==
  /\ \E n \in Attempts : sent[s][n] > 0
  /\ ~accepted[s]
  /\ accepted' = [accepted EXCEPT ![s] = TRUE]
  /\ UNCHANGED <<stateFile, process, sent, ruledIn, ruledOut, crashes>>

ResponseOk_AnyStatus(w) ==
  /\ pc[w] = "awaiting"
  /\ Goto(w, "finalizing")
  /\ UNCHANGED <<stateFile, world>>

\* A 2xx answer arrives: the provider has executed the publication.
ResponseOk(w) ==
  /\ pc[w] = "awaiting"
  /\ accepted[target[w]]
  /\ Goto(w, "finalizing")
  /\ UNCHANGED <<stateFile, world>>

\* A preflight refusal, a socket error, the 12 s timeout or a non-2xx answer.
RequestFails(w) ==
  /\ pc[w] \in {"dispatching", "awaiting"}
  /\ Goto(w, "failing")
  /\ UNCHANGED <<stateFile, world>>

MoveToCommitted_Keeps(s) ==
  /\ UNCHANGED dispatch
  /\ committed' = [committed EXCEPT ![s] = @ + 1]

\* The record leaves the pending list and joins the committed one.  What the
\* record said of its retries is kept in the model, as a history.
MoveToCommitted(s) ==
  /\ dispatch' = [dispatch EXCEPT ![s] = "none"]
  /\ committed' = [committed EXCEPT ![s] = @ + 1]

\* commitPublication: the second transaction.  A record that another call has
\* already moved to the committed list is returned as it is.
Finalize(w) ==
  LET s == target[w] IN
  /\ pc[w] = "finalizing"
  /\ IF IsPending(s)
     THEN MoveToCommitted(s) /\ Return(w)
     ELSE /\ IF IsCommitted(s) THEN Return(w) ELSE Goto(w, "failing")
          /\ UNCHANGED <<dispatch, committed>>
  /\ UNCHANGED <<enabled, killSwitch, lastSequence, keyOf, allowRetry, retryCount,
                 deadline, world>>

\* The second transaction cannot persist: its effect is lost, the catch runs.
FinalizeFails(w) ==
  /\ StorageMayFail
  /\ pc[w] = "finalizing"
  /\ Goto(w, "failing")
  /\ UNCHANGED <<stateFile, world>>

\* commitPublication: the transaction of the catch block
MarkUncertain(w) ==
  LET s == target[w] IN
  /\ pc[w] = "failing"
  /\ IF IsPending(s)
     THEN /\ dispatch' = [dispatch EXCEPT ![s] = "uncertain"]
          /\ deadline' = [deadline EXCEPT ![s] = IF @ = "unset" THEN "running" ELSE @]
          /\ allowRetry' = [allowRetry EXCEPT
                              ![s] = @ /\ retryCount[s] < MaxRetryAttempts]
     ELSE UNCHANGED <<dispatch, deadline, allowRetry>>
  /\ Return(w)
  /\ UNCHANGED <<enabled, killSwitch, lastSequence, keyOf, retryCount, committed,
                 world>>

\* The catch block's transaction cannot persist either: the record stays in flight.
MarkUncertainFails(w) ==
  /\ StorageMayFail
  /\ pc[w] = "failing"
  /\ Return(w)
  /\ UNCHANGED <<stateFile, world>>

-----------------------------------------------------------------------------
(* reconcilePublication: the operator settles an uncertain publication.     *)

Reconcilable(s) == hydrated /\ dispatch[s] = "uncertain"

ConfirmCommitted(s) ==
  /\ Reconcilable(s)
  /\ MoveToCommitted(s)
  /\ ruledIn' = [ruledIn EXCEPT ![s] = TRUE]
  /\ UNCHANGED <<enabled, killSwitch, lastSequence, keyOf, allowRetry, retryCount,
                 deadline, process, sent, accepted, ruledOut, crashes>>

ConfirmNotCommitted(s) ==
  /\ Reconcilable(s)
  /\ IF retryCount[s] >= MaxRetryAttempts
     THEN /\ allowRetry' = [allowRetry EXCEPT ![s] = FALSE]
          /\ UNCHANGED dispatch
     ELSE /\ dispatch' = [dispatch EXCEPT ![s] = "prepared"]
          /\ UNCHANGED allowRetry
  /\ ruledOut' = [ruledOut EXCEPT ![s] = TRUE]
  /\ UNCHANGED <<enabled, killSwitch, lastSequence, keyOf, retryCount, deadline,
                 committed, process, sent, accepted, ruledIn, crashes>>

Abandon(s) ==
  /\ Reconcilable(s)
  /\ dispatch' = [dispatch EXCEPT ![s] = "abandoned"]
  /\ allowRetry' = [allowRetry EXCEPT ![s] = FALSE]
  /\ ruledOut' = [ruledOut EXCEPT ![s] = TRUE]
  /\ UNCHANGED <<enabled, killSwitch, lastSequence, keyOf, retryCount, deadline,
                 committed, process, sent, accepted, ruledIn, crashes>>

-----------------------------------------------------------------------------
(* The clock and the process.                                               *)

\* UNCERTAIN_MAX_AGE_HOURS go by since firstUncertainAt.
DeadlinePasses(s) ==
  /\ deadline[s] = "running"
  /\ IsPending(s)
  /\ deadline' = [deadline EXCEPT ![s] = "passed"]
  /\ UNCHANGED <<enabled, killSwitch, lastSequence, keyOf, dispatch, allowRetry,
                 retryCount, committed, process, world>>

\* The process dies and restarts: the state file stays, every call is lost.
Crash ==
  /\ crashes < MaxCrashes
  /\ crashes' = crashes + 1
  /\ hydrated' = FALSE
  /\ pc' = [w \in Workers |-> "idle"]
  /\ target' = [w \in Workers |-> 0]
  /\ attemptNo' = [w \in Workers |-> 0]
  /\ UNCHANGED <<stateFile, sent, accepted, ruledIn, ruledOut>>

\* The steps of a call that the event loop runs without the caller's help.
CallStep(w) ==
  \/ RetryRefused(w)
  \/ Send(w)
  \/ ResponseOk(w)
  \/ RequestFails(w)
  \/ Finalize(w)
  \/ FinalizeFails(w)
  \/ MarkUncertain(w)
  \/ MarkUncertainFails(w)

Next ==
  \/ Hydrate
  \/ \E b \in BOOLEAN : SetMutationEnabled(b) \/ SetKillSwitch(b)
  \/ \E k \in Keys : Prepare(k)
  \/ \E w \in Workers, s \in Sequences : RetryCheck(w, s) \/ BeginAttempt(w, s)
  \/ \E w \in Workers : CallStep(w)
  \/ \E s \in Sequences :
       \/ Accept(s)
       \/ ConfirmCommitted(s)
       \/ ConfirmNotCommitted(s)
       \/ Abandon(s)
       \/ DeadlinePasses(s)
  \/ Crash

Spec == Init /\ [][Next]_vars

\* A call that has started goes on: every await in it is a transaction or a
\* request with a timeout.  Nothing obliges the operator or the provider.
Fairness == \A w \in Workers : WF_vars(CallStep(w))

FairSpec == Spec /\ Fairness

-----------------------------------------------------------------------------
(* Safety.                                                                  *)

Allocated(s) == s <= lastSequence

\* A publication is recorded as committed at most once, and a committed one is
\* not pending: the second transaction of a slow call, the operator's
\* confirmation and a restart never add a second record nor leave one behind.
CommittedOnce ==
  \A s \in Sequences : committed[s] <= 1 /\ (IsCommitted(s) => ~IsPending(s))

\* Replay protection: an idempotency key belongs to one sequence for ever, and
\* every allocated sequence is still pending or committed, so that the check of
\* preparePublication cannot miss it.
KeyAllocatedOnce ==
  /\ \A s \in Sequences : Allocated(s) => IsPending(s) \/ IsCommitted(s)
  /\ \A s, t \in Sequences :
       Allocated(s) /\ Allocated(t) /\ keyOf[s] = keyOf[t] => s = t

\* The attempt number of a request (commit:<sequence>:<attempt> in the
\* accounting) is never sent twice, whatever the retries, the concurrent calls
\* and the restarts: each request is charged to the quota on its own, and no
\* more than MAX_RETRY_ATTEMPTS leave for a sequence.
AttemptSentOnce ==
  \A s \in Sequences, n \in Attempts : sent[s][n] <= 1

\* What the provider has executed is never forgotten: unless the operator ruled
\* it out after the last attempt, the record is committed, in flight or
\* uncertain, never ready to be sent as if nothing had happened.
DeliveredNotForgotten ==
  \A s \in Sequences :
    accepted[s] => \/ IsCommitted(s)
                   \/ dispatch[s] \in {"in_flight", "uncertain"}
                   \/ ruledOut[s]

\* While the storage works, a record is in flight only while a call works on it:
\* once hydrated, no record waits for an attempt that nobody makes.
Working(w, s) ==
  /\ target[w] = s
  /\ pc[w] \in {"dispatching", "awaiting", "finalizing", "failing"}

InFlightOwned ==
  hydrated => \A s \in Sequences :
                dispatch[s] = "in_flight" => \E w \in Workers : Working(w, s)

\* An attempt that starts later than 24 hours after the publication became
\* uncertain starts on a ruling of the operator made since the last attempt.
\* With one call at a time; another call may slip in while one is in flight.
OverdueNeedsRuling ==
  [][\A s \in Sequences :
       retryCount'[s] > retryCount[s] /\ deadline[s] = "passed" => ruledOut[s]]_vars

\* The external call is not executed again once its publication is committed.
NotResentOnceCommitted ==
  [][\A s \in Sequences, n \in Attempts :
       sent'[s][n] > sent[s][n] => ~IsCommitted(s)]_vars

\* An abandoned publication has its retry disabled: no attempt starts on it.
AbandonedNotRetried ==
  [][\A s \in Sequences :
       dispatch[s] = "abandoned" => retryCount'[s] = retryCount[s]]_vars

-----------------------------------------------------------------------------
(* Liveness, and the abstract ledger.                                       *)

\* An attempt always settles: its record leaves the in-flight state, by an
\* answer, a failure or the timeout, unless the process dies first.
AttemptSettles ==
  \A s \in Sequences :
    dispatch[s] = "in_flight" ~> (dispatch[s] # "in_flight" \/ ~hydrated)

KeyStatus(k) ==
  IF \E s \in Sequences : IsPending(s) /\ keyOf[s] = k THEN "open"
  ELSE IF \E s \in Sequences : IsCommitted(s) /\ keyOf[s] = k THEN "published"
  ELSE "absent"

\* The protocol implements the abstract ledger of publications: a key becomes
\* published once, from open, and only when the provider has executed its payload
\* or the operator confirms that it has, whatever the second transactions of slow
\* calls, the timeouts and the restarts do in between.
KeysOf(holds) == {k \in Keys : \E s \in Sequences : holds[s] /\ keyOf[s] = k}

Ledger == INSTANCE PublicationLedger WITH
            status    <- [k \in Keys |-> KeyStatus(k)],
            executed  <- KeysOf(accepted),
            confirmed <- KeysOf(ruledIn)
ImplementsLedger == Ledger!Spec
=============================================================================
