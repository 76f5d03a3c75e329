---------------------------- MODULE GovernanceQuota ----------------------------
(***************************************************************************)
(* The limits that src/security/api-governance.js keeps inside the         *)
(* governance transactions: requests and tokens of the research services   *)
(* by the minute and the day, publications by the hour and the day,        *)
(* control toggles by the minute.  Transactions run one at a time, and one *)
(* that throws stores nothing; the circuit breaker that a violation opens  *)
(* is memory only.                                                         *)
(***************************************************************************)
EXTENDS Naturals, Sequences, FiniteSets

CONSTANTS
  Mcps,                  \* research services
  TokenCosts,            \* what a request or a publication may cost
  Attempts,              \* the identifiers of publication attempts
  McpPerMinute, GlobalPerMinute, RequestsPerDay, TokensPerDay,
  PublishesPerHour, PublishesPerDay, WriteTokensPerDay, TogglesPerMinute,
  AttemptTtl,            \* mutationAttemptIdTtlMs, in minutes
  MinutesPerHour, MinutesPerDay,
  MaxQuotaMinutes,       \* bound on the clock
  MaxEvents              \* bound on the length of the history

ASSUME QuotaAssumption ==
  /\ TokenCosts \subseteq Nat /\ AttemptTtl \in Nat
  /\ {McpPerMinute, GlobalPerMinute, RequestsPerDay, TokensPerDay, PublishesPerHour, PublishesPerDay,
      WriteTokensPerDay, TogglesPerMinute, MaxQuotaMinutes, MaxEvents} \subseteq Nat
  /\ {MinutesPerHour, MinutesPerDay} \subseteq Nat \ {0}

VARIABLES
  minuteNow,   \* the clock
  usage,       \* stored: the windows of requests
  mutation,    \* stored: the windows of publications and toggles, and the attempts
  breaker,     \* the entry of the breaker "api-governance"
  tripped,     \* manualCircuitReason is set
  history      \* what was counted and what happened between, for the properties

quotaVars == <<minuteNow, usage, mutation, breaker, tripped, history>>

QuotaBreaker == INSTANCE CircuitBreaker WITH FailureThreshold <- 1, SuccessThreshold <- 1

HourOf(m) == m \div MinutesPerHour
DayOf(m) == m \div MinutesPerDay
Event(kind, mcp, tokens, attempt) ==
  [kind |-> kind, mcp |-> mcp, tokens |-> tokens, attempt |-> attempt, minute |-> minuteNow]
Happens(kind) == history' = Append(history, Event(kind, "none", 0, "none"))
HasRoom == Len(history) < MaxEvents
-----------------------------------------------------------------------------
(* Requests to the research services *)

\* The day's counts are dropped with the minute's.
Rolled_ByMinute(u) ==
  IF u.minute = minuteNow THEN u
  ELSE [minute |-> minuteNow, perMcp |-> [m \in Mcps |-> 0], inMinute |-> 0,
        day |-> DayOf(minuteNow), inDay |-> 0, tokens |-> 0]

\* A window other than the current one starts from nothing.
Rolled(u) ==
  LET sameMinute == u.minute = minuteNow
      sameDay == u.day = DayOf(minuteNow)
  IN  [minute |-> minuteNow,
       perMcp |-> IF sameMinute THEN u.perMcp ELSE [m \in Mcps |-> 0],
       inMinute |-> IF sameMinute THEN u.inMinute ELSE 0,
       day |-> DayOf(minuteNow),
       inDay |-> IF sameDay THEN u.inDay ELSE 0,
       tokens |-> IF sameDay THEN u.tokens ELSE 0]

Counted(u, mcp, tokens) ==
  [Rolled(u) EXCEPT !.perMcp[mcp] = @ + 1, !.inMinute = @ + 1, !.inDay = @ + 1, !.tokens = @ + tokens]

WithinUsage(u) ==
  /\ \A m \in Mcps : u.perMcp[m] <= McpPerMinute
  /\ u.inMinute <= GlobalPerMinute
  /\ u.inDay <= RequestsPerDay
  /\ u.tokens <= TokensPerDay

\* A violation that leaves the breaker as it is.
Violated_Uncounted(entry) == entry

\* recordViolation: the count of violations is lost with the transaction, the breaker opens.
Violated(entry) == QuotaBreaker!RecordFailure(entry)

\* applyUsageCounters in its transaction, which may yet fail to be stored. While the
\* breaker is open, or tripped by hand, a request is refused and changes nothing.
ApplyUsage(mcp, tokens) ==
  /\ HasRoom
  /\ ~tripped /\ QuotaBreaker!Allowed(breaker)
  /\ LET gate == QuotaBreaker!CheckBeforeRequest(breaker)
         next == Counted(usage, mcp, tokens)
     IN  \/ /\ WithinUsage(next)
            /\ breaker' = QuotaBreaker!RecordSuccess(gate)
            /\ \/ usage' = next /\ history' = Append(history, Event("use", mcp, tokens, "none"))
               \/ UNCHANGED <<usage, history>>
         \/ /\ ~WithinUsage(next)
            /\ breaker' = Violated(gate)
            /\ Happens("excess")
            /\ UNCHANGED usage
  /\ UNCHANGED <<minuteNow, mutation, tripped>>

-----------------------------------------------------------------------------
(* Publications and toggles *)

\* An attempt is forgotten when its time is up, not when it has passed.
Pruned_Sooner(accounted) == [a \in Attempts |-> IF accounted[a] + AttemptTtl <= minuteNow + 1 THEN 0 ELSE accounted[a]]

\* accounted[a]: the minute the attempt was counted in, plus one; 0 when it is not known.
Pruned(accounted) == [a \in Attempts |-> IF accounted[a] + AttemptTtl < minuteNow + 1 THEN 0 ELSE accounted[a]]

Published(m, attempt, tokens) ==
  LET sameDay == m.day = DayOf(minuteNow) IN
  [m EXCEPT !.hour = HourOf(minuteNow),
            !.inHour = IF m.hour = HourOf(minuteNow) THEN @ + 1 ELSE 1,
            !.day = DayOf(minuteNow),
            !.inDay = IF sameDay THEN @ + 1 ELSE 1,
            !.writeTokens = IF sameDay THEN @ + tokens ELSE tokens,
            !.accounted = [Pruned(@) EXCEPT ![attempt] = minuteNow + 1]]

WithinPublishes(m) ==
  m.inHour <= PublishesPerHour /\ m.inDay <= PublishesPerDay /\ m.writeTokens <= WriteTokensPerDay

\* A limit that is passed opens the breaker of the requests, too. Neither the breaker
\* nor a manual trip stops a publication.
AccountPublish(attempt, tokens) ==
  /\ HasRoom
  /\ Pruned(mutation.accounted)[attempt] = 0
  /\ LET next == Published(mutation, attempt, tokens) IN
     \/ /\ WithinPublishes(next)
        /\ mutation' = next
        /\ history' = Append(history, Event("publish", "none", tokens, attempt))
        /\ UNCHANGED breaker
     \/ /\ ~WithinPublishes(next)
        /\ breaker' = Violated(breaker)
        /\ Happens("publication excess")
        /\ UNCHANGED mutation
  /\ UNCHANGED <<minuteNow, usage, tripped>>

\* An attempt counted before is not counted again.
RepeatPublish(attempt) ==
  /\ Pruned(mutation.accounted)[attempt] # 0
  /\ mutation' = [mutation EXCEPT !.accounted = Pruned(@)]
  /\ UNCHANGED <<minuteNow, usage, breaker, tripped, history>>

\* Each toggle has an identifier of its own.
Toggled(m) ==
  [m EXCEPT !.minute = minuteNow, !.toggles = IF m.minute = minuteNow THEN @ + 1 ELSE 1]

AccountToggle ==
  /\ HasRoom
  /\ IF Toggled(mutation).toggles <= TogglesPerMinute
     THEN mutation' = Toggled(mutation) /\ Happens("toggle") /\ UNCHANGED breaker
     ELSE breaker' = Violated(breaker) /\ Happens("toggle excess") /\ UNCHANGED mutation
  /\ UNCHANGED <<minuteNow, usage, tripped>>
-----------------------------------------------------------------------------
TripCircuit ==
  /\ HasRoom /\ ~tripped
  /\ tripped' = TRUE
  /\ breaker' = QuotaBreaker!RecordFailure(breaker)
  /\ Happens("trip")
  /\ UNCHANGED <<minuteNow, usage, mutation>>

\* circuitTimeoutMs has passed since the breaker opened.
TimeoutPasses ==
  /\ HasRoom /\ breaker.state = "OPEN" /\ ~breaker.elapsed
  /\ breaker' = [breaker EXCEPT !.elapsed = TRUE]
  /\ Happens("timeout")
  /\ UNCHANGED <<minuteNow, usage, mutation, tripped>>

QuotaRestart ==
  /\ HasRoom /\ (tripped \/ breaker # QuotaBreaker!NewEntry)
  /\ tripped' = FALSE /\ breaker' = QuotaBreaker!NewEntry
  /\ Happens("restart")
  /\ UNCHANGED <<minuteNow, usage, mutation>>

MinutePasses ==
  /\ minuteNow < MaxQuotaMinutes
  /\ minuteNow' = minuteNow + 1
  /\ UNCHANGED <<usage, mutation, breaker, tripped, history>>
-----------------------------------------------------------------------------
QuotaInit ==
  /\ minuteNow = 0
  /\ usage = [minute |-> 0, perMcp |-> [m \in Mcps |-> 0], inMinute |-> 0, day |-> 0, inDay |-> 0, tokens |-> 0]
  /\ mutation = [hour |-> 0, inHour |-> 0, day |-> 0, inDay |-> 0, writeTokens |-> 0,
                 minute |-> 0, toggles |-> 0, accounted |-> [a \in Attempts |-> 0]]
  /\ breaker = QuotaBreaker!NewEntry /\ tripped = FALSE /\ history = <<>>

QuotaNext ==
  \/ \E mcp \in Mcps, tokens \in TokenCosts : ApplyUsage(mcp, tokens)
  \/ \E attempt \in Attempts, tokens \in TokenCosts : AccountPublish(attempt, tokens)
  \/ \E attempt \in Attempts : RepeatPublish(attempt)
  \/ AccountToggle \/ TripCircuit \/ TimeoutPasses \/ QuotaRestart \/ MinutePasses

QuotaSpec == QuotaInit /\ [][QuotaNext]_quotaVars
-----------------------------------------------------------------------------
(* Properties *)

QuotaTypeOK ==
  /\ minuteNow \in 0..MaxQuotaMinutes /\ tripped \in BOOLEAN
  /\ usage.perMcp \in [Mcps -> Nat] /\ usage.inMinute \in Nat /\ usage.inDay \in Nat /\ usage.tokens \in Nat
  /\ mutation.inHour \in Nat /\ mutation.inDay \in Nat /\ mutation.writeTokens \in Nat
  /\ mutation.accounted \in [Attempts -> 0..(MaxQuotaMinutes + 1)]
  /\ breaker \in QuotaBreaker!Entry /\ Len(history) <= MaxEvents

\* The places in the history of what was counted in the n-th window of so many minutes.
Window(kind, minutes, n) == {i \in DOMAIN history : history[i].kind = kind /\ history[i].minute \div minutes = n}

TokensOf(places) ==
  LET sum[n \in 0..Len(history)] ==
        IF n = 0 THEN 0 ELSE sum[n - 1] + (IF n \in places THEN history[n].tokens ELSE 0)
  IN  sum[Len(history)]

\* Of all that was ever counted, no minute, hour or day has more than its limit, over
\* windows that start anew, failed writes and restarts (applyUsageCounters,
\* applyMutationAccounting).
WithinLimits ==
  \A n \in 0..MaxQuotaMinutes :
    /\ Cardinality(Window("use", 1, n)) <= GlobalPerMinute
    /\ \A mcp \in Mcps : Cardinality({i \in Window("use", 1, n) : history[i].mcp = mcp}) <= McpPerMinute
    /\ Cardinality(Window("use", MinutesPerDay, n)) <= RequestsPerDay
    /\ TokensOf(Window("use", MinutesPerDay, n)) <= TokensPerDay
    /\ Cardinality(Window("publish", MinutesPerHour, n)) <= PublishesPerHour
    /\ Cardinality(Window("publish", MinutesPerDay, n)) <= PublishesPerDay
    /\ TokensOf(Window("publish", MinutesPerDay, n)) <= WriteTokensPerDay
    /\ Cardinality(Window("toggle", 1, n)) <= TogglesPerMinute

\* An attempt is counted again only when it has been forgotten, and after a request
\* too many, or a manual trip, no request is counted until the timeout or a restart
\* (checkBeforeRequest, tripCircuit).
CountedInTurn ==
  \A i, j \in DOMAIN history : i < j =>
    /\ history[i].kind = "publish" /\ history[j].kind = "publish" /\ history[i].attempt = history[j].attempt
         => history[j].minute > history[i].minute + AttemptTtl
    /\ history[i].kind \in {"excess", "trip"} /\ history[j].kind = "use"
         => \E k \in i..j : \/ history[k].kind = "restart"
                            \/ history[k].kind = "timeout" /\ history[i].kind = "excess"
=============================================================================
