-------------------------------- MODULE Gateway --------------------------------
(***************************************************************************)
(* The way of a request through the bridge: the checks before the server   *)
(* listens (mcp-service.js, security/phase7- to phase14-startup-integrity),*)
(* the bearer token and the principal it stands for (bridge-auth.js), the  *)
(* event streams and the rate limit (server.ts), the methods allowed to it *)
(* (mcp-transport.js) and the hydration of the mutation control before the *)
(* first mutation (mcp-service.js).  The token is looked at before the     *)
(* body is awaited, and never again.                                       *)
(***************************************************************************)
EXTENDS Naturals, Sequences, FiniteSets

CONSTANTS
  Requests,          \* the requests made
  BearerTokens,      \* the tokens of the store that the access workflows write
  TokenRecord,       \* token -> [role, integration: it holds the integration scope]
  PossibleFaults,    \* what may be wrong with the deployment
  RateLimit,         \* mcpPerIpLimitPerMinute, for the one address modelled
  MaxStreams,        \* bound: event streams
  MaxMinutes,        \* bound: minutes
  MaxFaultChanges    \* bound: changes of the deployment

\* The faults are those the checks look for and one that they leave alone.
ASSUME GatewayAssumption ==
  /\ PossibleFaults \subseteq
       {"research sequence", "rollout chain", "registration lock", "compliance chain", "evidence bundle",
        "compliance scan", "policy drift", "phase artifacts", "override chain", "files", "directories",
        "alert channels", "attestation allowlist", "supply-chain policies", "role policy", "dependency drift"}
  /\ RateLimit \in Nat \ {0} /\ MaxMinutes \in Nat

VARIABLES
  bearer,          \* token -> live, revoked or expired
  passed,          \* how many of the startup checks have passed
  faults,          \* what is wrong with the deployment now
  lasting,         \* what has been wrong ever since the process was started
  streams,         \* [principal, open]: the event streams opened so far
  requests,        \* request -> [pc, token, as: its principal, allowed: methods, stream]
  rate,            \* [minute, count]: what the server remembers of the address
  minute,
  accepted,        \* requests accepted in this minute
  hydration,       \* none, running or done
  faultChanges

gatewayVars == <<bearer, passed, faults, lasting, streams, requests, rate, minute, accepted, hydration, faultChanges>>

Principals == {"operator", "supervisor", "integration", "none"}
Methods == {"read", "mutate"}
GatewayIdle == [pc |-> "idle", token |-> "none", as |-> "none", allowed |-> {}, stream |-> 0]
-----------------------------------------------------------------------------
(* The checks at the start, one after the other *)

VerifyStoredReplay == "research sequence" \notin faults
VerifyPhase7 == faults \cap {"rollout chain", "registration lock"} = {}
VerifyPhase8 == faults \cap {"compliance chain", "evidence bundle"} = {}
VerifyPhase9 == faults \cap {"compliance scan", "policy drift", "phase artifacts", "override chain"} = {}

\* The later ones answer that they are not healthy and throw nothing.  What the
\* backup verifier, the dependency verifier and the policy engine find is not
\* looked at, only that they answer.
VerifyPhase10_NotLooked == TRUE
VerifyPhase10 == faults \cap {"files", "directories", "alert channels", "attestation allowlist"} = {}
VerifyPhase11 == faults \cap {"files", "directories"} = {}
VerifyPhase12 == faults \cap {"files", "directories", "supply-chain policies"} = {}
VerifyPhase13 == faults \cap {"files", "directories", "role policy"} = {}
VerifyPhase14 == faults \cap {"files", "directories"} = {}

Checks == <<VerifyStoredReplay, VerifyPhase7, VerifyPhase8, VerifyPhase9, VerifyPhase10, VerifyPhase11,
            VerifyPhase12, VerifyPhase13, VerifyPhase14>>
Listening == passed = Len(Checks)

GatewayTypeOK ==
  /\ bearer \in [BearerTokens -> {"live", "revoked", "expired"}] /\ passed \in 0..Len(Checks)
  /\ faults \subseteq PossibleFaults /\ lasting \subseteq faults \cup PossibleFaults
  /\ \A i \in DOMAIN streams : streams[i].principal \in Principals /\ streams[i].open \in BOOLEAN
  /\ \A r \in Requests : requests[r].pc \in {"idle", "reading", "hydrating", "handled", "refused"}
                         /\ requests[r].as \in Principals /\ requests[r].allowed \subseteq Methods
  /\ minute \in 0..MaxMinutes /\ hydration \in {"none", "running", "done"}

GatewayInit ==
  /\ bearer = [t \in BearerTokens |-> "live"] /\ passed = 0
  /\ faults \in SUBSET PossibleFaults /\ lasting = faults
  /\ streams = <<>> /\ requests = [r \in Requests |-> GatewayIdle]
  /\ rate = [minute |-> 0, count |-> 0] /\ minute = 0 /\ accepted = 0 /\ hydration = "none" /\ faultChanges = 0

\* A check that fails ends the process, which is then started again.
Initialize ==
  /\ ~Listening
  /\ IF Checks[passed + 1] THEN passed' = passed + 1 /\ UNCHANGED lasting
     ELSE passed' = 0 /\ lasting' = faults
  /\ UNCHANGED <<bearer, faults, streams, requests, rate, minute, accepted, hydration, faultChanges>>

\* A file or a chain is broken or repaired, which a listening server never notices.
ChangeDeployment ==
  /\ faultChanges < MaxFaultChanges /\ faultChanges' = faultChanges + 1
  /\ \E f \in PossibleFaults :
       faults' = IF f \in faults THEN faults \ {f} ELSE faults \cup {f}
  /\ lasting' = IF Listening THEN lasting ELSE lasting \cap faults'
  /\ UNCHANGED <<bearer, passed, streams, requests, rate, minute, accepted, hydration>>
-----------------------------------------------------------------------------
(* Authentication *)

DerivePrincipal(t) ==
  IF TokenRecord[t].integration THEN "integration"
  ELSE IF TokenRecord[t].role = "operator_admin" THEN "operator"
  ELSE IF TokenRecord[t].role = "system_automated" THEN "supervisor" ELSE "none"

IsAllowedForRoute(principal, route) ==
  IF route = "operator" THEN principal = "operator" ELSE principal # "none"

Resolve(t, route) == bearer[t] = "live" /\ IsAllowedForRoute(DerivePrincipal(t), route)

\* A new minute starts a new count.
WithinRate_OneMore == rate.minute # minute \/ rate.count <= RateLimit
WithinRate == rate.minute # minute \/ rate.count < RateLimit
GatewayCounted == rate' = [minute |-> minute, count |-> IF rate.minute = minute THEN rate.count + 1 ELSE 1]

McpAllowlist(principal) == IF principal = "operator" THEN Methods ELSE {"read"}
-----------------------------------------------------------------------------
(* Requests *)

OpenStream(t) ==
  /\ Listening /\ Resolve(t, "sse") /\ Len(streams) < MaxStreams
  /\ streams' = Append(streams, [principal |-> DerivePrincipal(t), open |-> TRUE])
  /\ UNCHANGED <<bearer, passed, faults, lasting, requests, rate, minute, accepted, hydration, faultChanges>>

CloseStream(s) ==
  /\ streams[s].open /\ streams' = [streams EXCEPT ![s].open = FALSE]
  /\ UNCHANGED <<bearer, passed, faults, lasting, requests, rate, minute, accepted, hydration, faultChanges>>

Accept(r, t, as, allowed, s) ==
  /\ Listening /\ requests[r] = GatewayIdle /\ WithinRate /\ GatewayCounted /\ accepted' = accepted + 1
  /\ requests' = [requests EXCEPT ![r] =
       [pc |-> "reading", token |-> t, as |-> as, allowed |-> allowed, stream |-> s]]
  /\ UNCHANGED <<bearer, passed, faults, lasting, streams, minute, hydration, faultChanges>>

PostStreamable(r, t) ==
  Resolve(t, "mcp") /\ Accept(r, t, DerivePrincipal(t), McpAllowlist(DerivePrincipal(t)), 0)
PostOperator(r, t) == Resolve(t, "operator") /\ Accept(r, t, "operator", {"mutate"}, 0)

\* On a stream only by the principal that has opened it, and reading only.  Any
\* other is refused after it has been counted.
SameStream_Any(t, s) == streams[s].open
SameStream(t, s) == streams[s].open /\ streams[s].principal = DerivePrincipal(t)
PostMessage(r, t, s) ==
  /\ Resolve(t, "messages")
  /\ IF SameStream(t, s) THEN Accept(r, t, DerivePrincipal(t), {"read"}, s)
     ELSE /\ Listening /\ requests[r] = GatewayIdle /\ WithinRate /\ GatewayCounted
          /\ UNCHANGED <<bearer, passed, faults, lasting, streams, requests, minute, accepted, hydration, faultChanges>>

\* The body has come: the method must be on the list, and a mutation wants the
\* operator, and waits for the hydration, which the first one starts.
End(r, pc) == requests' = [requests EXCEPT ![r].pc = pc]
Handle(r) ==
  /\ requests[r].pc = "reading"
  /\ \E method \in Methods :
       IF method \notin requests[r].allowed \/ (method = "mutate" /\ requests[r].as # "operator")
       THEN End(r, "refused") /\ UNCHANGED hydration
       ELSE IF method = "read" THEN End(r, "handled") /\ UNCHANGED hydration
       ELSE End(r, "hydrating") /\ hydration' = IF hydration = "none" THEN "running" ELSE hydration
  /\ UNCHANGED <<bearer, passed, faults, lasting, streams, rate, minute, accepted, faultChanges>>

\* All that wait for it fail when it fails, and the next mutation tries again.
EnsureMutationHydrated ==
  /\ hydration = "running"
  /\ \/ hydration' = "done" /\ UNCHANGED requests
     \/ /\ hydration' = "none"
        /\ requests' = [r \in Requests |-> IF requests[r].pc = "hydrating"
                                           THEN [requests[r] EXCEPT !.pc = "refused"] ELSE requests[r]]
  /\ UNCHANGED <<bearer, passed, faults, lasting, streams, rate, minute, accepted, faultChanges>>

Mutate(r) ==
  /\ requests[r].pc = "hydrating" /\ hydration = "done" /\ End(r, "handled")
  /\ UNCHANGED <<bearer, passed, faults, lasting, streams, rate, minute, accepted, hydration, faultChanges>>
-----------------------------------------------------------------------------
Revoke(t) ==
  /\ bearer[t] = "live" /\ \E end \in {"revoked", "expired"} : bearer' = [bearer EXCEPT ![t] = end]
  /\ UNCHANGED <<passed, faults, lasting, streams, requests, rate, minute, accepted, hydration, faultChanges>>

NextMinute ==
  /\ minute < MaxMinutes /\ minute' = minute + 1 /\ accepted' = 0
  /\ UNCHANGED <<bearer, passed, faults, lasting, streams, requests, rate, hydration, faultChanges>>

GatewayNext ==
  \/ Initialize \/ ChangeDeployment \/ EnsureMutationHydrated \/ NextMinute
  \/ \E s \in DOMAIN streams : CloseStream(s)
  \/ \E r \in Requests : Handle(r) \/ Mutate(r)
  \/ \E t \in BearerTokens :
       \/ OpenStream(t) \/ Revoke(t)
       \/ \E r \in Requests : \/ PostStreamable(r, t) \/ PostOperator(r, t)
                              \/ \E s \in DOMAIN streams : PostMessage(r, t, s)

GatewaySpec == GatewayInit /\ [][GatewayNext]_gatewayVars
-----------------------------------------------------------------------------
(* Properties *)

\* The server does not listen with anything wrong that was wrong ever since the
\* process began to check and that some check looks for (initialize).
NoStartOnFault == Listening => lasting \subseteq {"dependency drift"}

\* Whoever is let through on a stream is the principal who opened it, a mutation
\* has an operator's token behind it, and no more requests come through in one
\* minute than the limit, at the turn of it as well (server.ts, mcp-service.js).
HandledByRight ==
  /\ \A r \in Requests :
       /\ requests[r].stream # 0 => DerivePrincipal(requests[r].token) = streams[requests[r].stream].principal
       /\ requests[r].pc = "hydrating" => DerivePrincipal(requests[r].token) = "operator"
  /\ accepted <= RateLimit
=============================================================================
