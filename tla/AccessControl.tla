---------------------------- MODULE AccessControl ----------------------------
(***************************************************************************)
(* src/workflows/access-control: scoped tokens that are issued, rotated    *)
(* and revoked (token-lifecycle-manager.js), the sessions opened with them *)
(* (session-governance-manager.js), the decisions taken on them            *)
(* (permission-boundary-enforcer.js, legacy-access-bridge.js) and the      *)
(* ledger that records each decision (access-decision-ledger.js).  A call  *)
(* decides and changes its store without waiting, and then waits until the *)
(* ledger's append queue, a chain of promises, has recorded the decision.  *)
(***************************************************************************)
EXTENDS Naturals, Sequences, SequencesExt

CONSTANTS
  RolePolicy,       \* rbac-policy.json: role -> the scopes whose action and resource it permits
  ScopeRegistry,    \* scope-registry.json: scope -> the roles that may hold it
  TokenRequests,    \* what is asked for: [role, scopes]
  MaxTokens,        \* bound: tokens, and sessions
  MaxAccessCalls,   \* bound: calls
  MaxRestarts       \* bound: restarts of the process

ASSUME AccessAssumption == MaxTokens \in Nat /\ MaxAccessCalls \in Nat /\ MaxRestarts \in Nat

VARIABLES
  tokens,         \* token-store.json: a token is named by its sequence number
  sessions,       \* session-store.json
  accessLedger,   \* access-decision-ledger.json: [op, token, allowed, call]
  appendQueue,    \* decisions waiting to be appended
  queueBroken,    \* the chain of promises ended in a rejection
  transaction,    \* the call that holds the governance transaction, or 0
  accessCalls,    \* every call so far: its entry, and what came of it
  restarts

accessVars == <<tokens, sessions, accessLedger, appendQueue, queueBroken, transaction, accessCalls, restarts>>

Ops == {"issue", "rotate", "revoke", "evaluate", "session", "invalidate", "legacy"}
Entries == [op : Ops, token : 0..MaxTokens, allowed : BOOLEAN, call : 1..MaxAccessCalls]
TokenType == [request : TokenRequests, revoked : BOOLEAN, expired : BOOLEAN, previous : 0..MaxTokens]

AccessTypeOK ==
  /\ tokens \in Seq(TokenType) /\ Len(tokens) <= MaxTokens
  /\ sessions \in Seq([token : 1..MaxTokens, active : BOOLEAN, expired : BOOLEAN])
  /\ accessLedger \in Seq(Entries) /\ appendQueue \in Seq(Entries)
  /\ queueBroken \in BOOLEAN /\ transaction \in 0..MaxAccessCalls
  /\ accessCalls \in Seq([entry : Entries, answer : {"none", "given", "rejected", "lost"}])
  /\ restarts \in 0..MaxRestarts

AccessInit ==
  /\ tokens = <<>> /\ sessions = <<>> /\ accessLedger = <<>> /\ appendQueue = <<>>
  /\ queueBroken = FALSE /\ transaction = 0 /\ accessCalls = <<>> /\ restarts = 0
-----------------------------------------------------------------------------
(* Roles and scopes *)

IsRoleAllowedForScope(scope, role) == role = "operator_admin" \/ role \in ScopeRegistry[scope]
HasPermission(role, scope) == role \in DOMAIN RolePolicy /\ scope \in RolePolicy[role]

ScopePermits(scope, role) ==
  /\ scope \in DOMAIN ScopeRegistry
  /\ IsRoleAllowedForScope(scope, role) /\ HasPermission(role, scope)

ValidateRoleAndScopes(request) ==
  /\ request.scopes # {} /\ request.role \in DOMAIN RolePolicy
  /\ \A scope \in request.scopes : ScopePermits(scope, request.role)

ValidateToken(t) == t \in DOMAIN tokens /\ ~tokens[t].revoked /\ ~tokens[t].expired
ValidateSession(s) == sessions[s].active /\ ~sessions[s].expired /\ ValidateToken(sessions[s].token)

EvaluateAccess(t, scope) ==
  /\ ValidateToken(t) /\ scope \in tokens[t].request.scopes
  /\ ScopePermits(scope, tokens[t].request.role)

\* A caller that names no role is taken for the administrator.
EvaluateLegacyAccess(role, scope) ==
  ScopePermits(scope, IF role = "" THEN "operator_admin" ELSE role)
-----------------------------------------------------------------------------
(* The ledger *)

\* recordDecision hangs an append on the queue; on a queue that ended in a
\* rejection it is rejected too.
RecordDecision(op, t, allowed) ==
  LET c == Len(accessCalls) + 1
      entry == [op |-> op, token |-> t, allowed |-> allowed, call |-> c]
  IN /\ c <= MaxAccessCalls
     /\ appendQueue' = IF queueBroken THEN appendQueue ELSE Append(appendQueue, entry)
     /\ accessCalls' = Append(accessCalls, [entry |-> entry, answer |->
          IF op = "legacy" THEN "given" ELSE IF queueBroken THEN "rejected" ELSE "none"])
     /\ UNCHANGED <<accessLedger, queueBroken, restarts>>

Answered(calls, answer) ==
  [c \in DOMAIN accessCalls |->
     IF c \in calls /\ accessCalls[c].answer = "none" THEN [accessCalls[c] EXCEPT !.answer = answer]
     ELSE accessCalls[c]]

AppendDecision_AnyOrder ==
  \E i \in DOMAIN appendQueue :
    /\ accessLedger' = Append(accessLedger, appendQueue[i])
    /\ appendQueue' = RemoveAt(appendQueue, i)
    /\ accessCalls' = Answered({appendQueue[i].call}, "given")
    /\ transaction' = IF transaction = appendQueue[i].call THEN 0 ELSE transaction
    /\ UNCHANGED <<tokens, sessions, queueBroken, restarts>>
AppendDecision ==
  /\ appendQueue # <<>>
  /\ LET entry == Head(appendQueue) IN
       /\ accessLedger' = Append(accessLedger, entry)
       /\ accessCalls' = Answered({entry.call}, "given")
       /\ transaction' = IF transaction = entry.call THEN 0 ELSE transaction
  /\ appendQueue' = Tail(appendQueue)
  /\ UNCHANGED <<tokens, sessions, queueBroken, restarts>>

\* The file cannot be read, its chain is broken, or it cannot be written: this
\* call and every one behind it are rejected, and so is every later one.
AppendFails ==
  /\ appendQueue # <<>>
  /\ queueBroken' = TRUE /\ appendQueue' = <<>> /\ transaction' = 0
  /\ accessCalls' = Answered(DOMAIN accessCalls, "rejected")
  /\ UNCHANGED <<tokens, sessions, accessLedger, restarts>>
-----------------------------------------------------------------------------
(* Tokens, one call at a time in a governance transaction *)

Transaction(op, t, allowed) ==
  /\ transaction = 0
  /\ transaction' = IF queueBroken THEN 0 ELSE Len(accessCalls) + 1
  /\ RecordDecision(op, t, allowed)

\* Without confirmation, a reason or a token the call is refused, and so recorded.
LifecycleRefused(op, t) == Transaction(op, t, FALSE) /\ UNCHANGED <<tokens, sessions>>

NewToken(request, previous) ==
  [request |-> request, revoked |-> FALSE, expired |-> FALSE, previous |-> previous]

IssueToken ==
  \E request \in TokenRequests :
    /\ ValidateRoleAndScopes(request) /\ Len(tokens) < MaxTokens
    /\ tokens' = Append(tokens, NewToken(request, 0))
    /\ Transaction("issue", Len(tokens) + 1, TRUE)
    /\ UNCHANGED sessions

\* The new token takes over the role and the scopes, and the old one is revoked.
Rotated(t) == Append([tokens EXCEPT ![t].revoked = TRUE], NewToken(tokens[t].request, t))
RotateToken_AnyToken(t) ==
  /\ t \in DOMAIN tokens /\ Len(tokens) < MaxTokens
  /\ tokens' = Rotated(t)
  /\ Transaction("rotate", t, TRUE)
  /\ UNCHANGED sessions
RotateToken(t) ==
  /\ ValidateToken(t) /\ Len(tokens) < MaxTokens
  /\ tokens' = Rotated(t)
  /\ Transaction("rotate", t, TRUE)
  /\ UNCHANGED sessions

RevokeToken(t) ==
  /\ t \in DOMAIN tokens
  /\ tokens' = [tokens EXCEPT ![t].revoked = TRUE]
  /\ Transaction("revoke", t, TRUE)
  /\ UNCHANGED sessions
-----------------------------------------------------------------------------
(* Sessions and decisions, in no transaction *)

CreateSession(t) ==
  /\ IF ValidateToken(t)
     THEN /\ Len(sessions) < MaxTokens
          /\ sessions' = Append(sessions, [token |-> t, active |-> TRUE, expired |-> FALSE])
     ELSE UNCHANGED sessions
  /\ RecordDecision("session", t, ValidateToken(t))
  /\ UNCHANGED <<tokens, transaction>>

InvalidateSession(s) ==
  /\ s \in DOMAIN sessions
  /\ sessions' = [sessions EXCEPT ![s].active = FALSE]
  /\ RecordDecision("invalidate", sessions[s].token, TRUE)
  /\ UNCHANGED <<tokens, transaction>>

Evaluate(t) ==
  /\ \E scope \in DOMAIN ScopeRegistry : RecordDecision("evaluate", t, EvaluateAccess(t, scope))
  /\ UNCHANGED <<tokens, sessions, transaction>>

\* The answer is given at once, and a decision that cannot be recorded is logged.
LegacyAccess ==
  /\ \E role \in DOMAIN RolePolicy \cup {""}, scope \in DOMAIN ScopeRegistry :
       RecordDecision("legacy", 0, EvaluateLegacyAccess(role, scope))
  /\ UNCHANGED <<tokens, sessions, transaction>>

Expire ==
  /\ \/ \E t \in DOMAIN tokens : ~tokens[t].expired /\ tokens' = [tokens EXCEPT ![t].expired = TRUE]
                                 /\ UNCHANGED sessions
     \/ \E s \in DOMAIN sessions : ValidateSession(s) /\ sessions' = [sessions EXCEPT ![s].expired = TRUE]
                                   /\ UNCHANGED tokens
  /\ UNCHANGED <<accessLedger, appendQueue, queueBroken, transaction, accessCalls, restarts>>

AccessRestart ==
  /\ restarts < MaxRestarts /\ restarts' = restarts + 1
  /\ appendQueue' = <<>> /\ queueBroken' = FALSE /\ transaction' = 0
  /\ accessCalls' = Answered(DOMAIN accessCalls, "lost")
  /\ UNCHANGED <<tokens, sessions, accessLedger>>

AccessNext ==
  \/ \E op \in {"issue", "rotate", "revoke"} : LifecycleRefused(op, 0)
  \/ IssueToken
  \/ \E t \in 1..MaxTokens : RotateToken(t) \/ RevokeToken(t) \/ CreateSession(t) \/ Evaluate(t)
                             \/ InvalidateSession(t)
  \/ LegacyAccess \/ AppendDecision \/ AppendFails \/ Expire \/ AccessRestart

AccessSpec == AccessInit /\ [][AccessNext]_accessVars
-----------------------------------------------------------------------------
(* Properties *)

\* Read from the first entry to the last, the ledger never allows something with
\* a token after it records that the token was revoked or rotated, though the
\* decisions overlap, appends fail and the process restarts (revokeToken,
\* evaluateAccess, recordDecision).
RevocationFinal ==
  \A i, j \in DOMAIN accessLedger :
    /\ i < j /\ accessLedger[i].allowed /\ accessLedger[i].op \in {"revoke", "rotate"}
    /\ accessLedger[j].allowed /\ accessLedger[j].op \in {"evaluate", "session", "rotate"}
    => accessLedger[i].token # accessLedger[j].token

\* The token that a chain of rotations began with.
Origin[t \in 0..MaxTokens] == IF t \notin DOMAIN tokens \/ tokens[t].previous = 0 THEN t
                              ELSE Origin[tokens[t].previous]

\* Of the tokens that replaced one another at most one is not revoked, in
\* whatever order they are rotated, revoked and expire (rotateToken).
OneSuccessor ==
  \A t, u \in DOMAIN tokens :
    Origin[t] = Origin[u] /\ ~tokens[t].revoked /\ ~tokens[u].revoked => t = u

\* Whoever was told that access is granted, other than through the legacy
\* bridge, is in the ledger (evaluateAccess awaits recordDecision).
AnswersRecorded ==
  \A c \in DOMAIN accessCalls :
    accessCalls[c].answer = "given" /\ accessCalls[c].entry.op # "legacy"
    => accessCalls[c].entry \in Range(accessLedger)
=============================================================================
