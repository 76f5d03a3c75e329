--------------------------- MODULE CircuitBreaker ---------------------------
(***************************************************************************)
(* The entry that supervisor/circuit-breaker.js keeps for one skill or one *)
(* provider.  Its operations run between two awaits of their callers, so   *)
(* each is a function of the entry; when they are called, and by how many  *)
(* callers at a time, is the business of the modules that extend this one. *)
(***************************************************************************)
EXTENDS Naturals

CONSTANTS
  FailureThreshold,   \* failures in a row that open the breaker
  SuccessThreshold    \* successes that close it while it is half open

ASSUME ThresholdsAssumption ==
  FailureThreshold \in Nat \ {0} /\ SuccessThreshold \in Nat \ {0}

\* elapsed: timeoutMs has passed since the last transition.
Counts == 0..FailureThreshold
Entry ==
  [state : {"CLOSED", "OPEN", "HALF_OPEN"}, failureCount : Counts,
   successCount : Nat, halfOpenInFlight : BOOLEAN, elapsed : BOOLEAN]

NewEntry ==
  [state |-> "CLOSED", failureCount |-> 0, successCount |-> 0,
   halfOpenInFlight |-> FALSE, elapsed |-> FALSE]

MoveOpenToHalfOpenIfReady(entry) ==
  IF entry.state = "OPEN" /\ entry.elapsed
  THEN [entry EXCEPT !.state = "HALF_OPEN", !.successCount = 0,
                     !.halfOpenInFlight = FALSE, !.elapsed = FALSE]
  ELSE entry

\* checkBeforeRequest: whether the request may go, and the entry it leaves.
Allowed(entry) ==
  LET moved == MoveOpenToHalfOpenIfReady(entry)
  IN  \/ moved.state = "CLOSED"
      \/ moved.state = "HALF_OPEN" /\ ~ moved.halfOpenInFlight

TakesLease(entry) ==
  Allowed(entry) /\ MoveOpenToHalfOpenIfReady(entry).state = "HALF_OPEN"

CheckBeforeRequest(entry) ==
  LET moved == MoveOpenToHalfOpenIfReady(entry)
  IN  [moved EXCEPT !.halfOpenInFlight = @ \/ TakesLease(entry)]

Probed(entry) ==
  [entry EXCEPT !.successCount = @ + 1, !.halfOpenInFlight = FALSE]

\* The breaker closes as it began.  A success that finds it open came too late.
RecordSuccess(entry) ==
  IF entry.state = "HALF_OPEN"
  THEN IF entry.successCount + 1 >= SuccessThreshold
       THEN NewEntry ELSE Probed(entry)
  ELSE IF entry.state = "CLOSED"
       THEN [entry EXCEPT !.failureCount = 0, !.successCount = 0]
       ELSE entry

\* The failures that go on counting in a half-open breaker are not told apart:
\* above the threshold the count is only reported.
Opened(entry) ==
  [entry EXCEPT !.state = "OPEN", !.failureCount = FailureThreshold,
                !.successCount = 0, !.elapsed = FALSE]

\* Whatever the state was: a late failure counts, unless the breaker is open.
RecordFailure_OffByOne(entry) ==
  IF entry.state = "HALF_OPEN"
  THEN [Opened(entry) EXCEPT !.halfOpenInFlight = FALSE]
  ELSE IF entry.state = "CLOSED"
       THEN IF entry.failureCount >= FailureThreshold
            THEN Opened(entry) ELSE [entry EXCEPT !.failureCount = @ + 1]
       ELSE entry
RecordFailure(entry) ==
  IF entry.state = "HALF_OPEN"
  THEN [Opened(entry) EXCEPT !.halfOpenInFlight = FALSE]
  ELSE IF entry.state = "CLOSED"
       THEN IF entry.failureCount + 1 >= FailureThreshold
            THEN Opened(entry) ELSE [entry EXCEPT !.failureCount = @ + 1]
       ELSE entry

\* What exportState writes, less the lease, which importState never reads.
Exported(entry) == [entry EXCEPT !.halfOpenInFlight = FALSE]

\* importState, with resetHalfOpenToOpen as the supervisor calls it.
Imported(entry) ==
  [entry EXCEPT !.state = IF @ = "HALF_OPEN" THEN "OPEN" ELSE @,
                !.halfOpenInFlight = FALSE]
=============================================================================
