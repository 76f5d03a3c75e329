---------------------------- MODULE WorkflowProofs ----------------------------
(***************************************************************************)
(* Proofs about the workflows that operators start, one section for each   *)
(* component, and about Workflows, which runs them beside the services.    *)
(***************************************************************************)
EXTENDS Workflows, ServiceProofs, SequenceTheorems, FiniteSetTheorems, WellFoundedInduction, TLAPS

-----------------------------------------------------------------------------
(* Access control: AccessControl.                                           *)

-----------------------------------------------------------------------------
(* Types.                                                                   *)

TokenList == {s \in Seq(TokenType) : Len(s) <= MaxTokens}
SessionType == [token : 1..MaxTokens, active : BOOLEAN, expired : BOOLEAN]
AnswerType == [entry : Entries, answer : {"none", "given", "rejected", "lost"}]

AccessShape ==
  /\ tokens \in TokenList /\ sessions \in Seq(SessionType)
  /\ accessLedger \in Seq(Entries) /\ appendQueue \in Seq(Entries)
  /\ accessCalls \in Seq(AnswerType)

\* The decisions in the order in which they are, or will be, in the ledger.
AccessDecisions == accessLedger \o appendQueue

LEMMA SameSequence ==
  ASSUME NEW S, NEW s, NEW n \in Nat, s \in [1..n -> S] PROVE s \in Seq(S) /\ Len(s) = n
<1>1. s \in Seq(S)
  BY SeqDef
<1>2. Len(s) \in Nat /\ DOMAIN s = 1..Len(s) /\ DOMAIN s = 1..n
  BY <1>1, LenProperties
<1> QED
  BY <1>1, <1>2

LEMMA AnsweredKeeps ==
  ASSUME AccessShape, NEW which, NEW answer \in {"given", "rejected", "lost"}
  PROVE  /\ Answered(which, answer) \in Seq(AnswerType)
         /\ DOMAIN Answered(which, answer) = DOMAIN accessCalls
         /\ \A c \in DOMAIN accessCalls :
              /\ Answered(which, answer)[c].entry = accessCalls[c].entry
              /\ \/ Answered(which, answer)[c].answer = accessCalls[c].answer
                 \/ c \in which /\ Answered(which, answer)[c].answer = answer
<1>1. /\ Len(accessCalls) \in Nat /\ DOMAIN accessCalls = 1..Len(accessCalls)
      /\ \A c \in DOMAIN accessCalls : accessCalls[c] \in AnswerType
  BY LenProperties, ElementOfSeq DEF AccessShape, TokenList
<1>2. \A c \in DOMAIN accessCalls :
        /\ [accessCalls[c] EXCEPT !.answer = answer] \in AnswerType
        /\ [accessCalls[c] EXCEPT !.answer = answer].entry = accessCalls[c].entry
        /\ [accessCalls[c] EXCEPT !.answer = answer].answer = answer
  BY <1>1 DEF AnswerType
<1>3. Answered(which, answer) \in [1..Len(accessCalls) -> AnswerType]
  BY <1>1, <1>2 DEF Answered
<1>4. Answered(which, answer) \in Seq(AnswerType) /\ DOMAIN Answered(which, answer) = DOMAIN accessCalls
  BY <1>1, <1>3, SameSequence
<1> QED
  BY <1>2, <1>4 DEF Answered

\* The decision of a call, and what recording it does.
Decision(op, t, allowed) == [op |-> op, token |-> t, allowed |-> allowed, call |-> Len(accessCalls) + 1]

LEMMA AccessRecordSteps ==
  ASSUME AccessShape, NEW op \in Ops, NEW t \in 0..MaxTokens, NEW allowed \in BOOLEAN, RecordDecision(op, t, allowed)
  PROVE  /\ Decision(op, t, allowed) \in Entries
         /\ accessLedger' = accessLedger
         /\ appendQueue' \in {appendQueue, Append(appendQueue, Decision(op, t, allowed))}
         /\ appendQueue' \in Seq(Entries) /\ accessCalls' \in Seq(AnswerType)
         /\ \E answer \in {"none", "given", "rejected"} :
              /\ accessCalls' = Append(accessCalls, [entry |-> Decision(op, t, allowed), answer |-> answer])
              /\ answer = "given" => op = "legacy"
<1> DEFINE entry == Decision(op, t, allowed)
<1>1. Len(accessCalls) \in Nat
  BY LenProperties DEF AccessShape, TokenList
<1>2. entry \in Entries
  <2>1. Len(accessCalls) + 1 \in 1..MaxAccessCalls
    BY <1>1, AccessAssumption DEF RecordDecision, AccessAssumption
  <2> QED
    BY <2>1 DEF Entries, Decision
<1>3. appendQueue' \in {appendQueue, Append(appendQueue, entry)} /\ accessLedger' = accessLedger
  BY DEF RecordDecision, Decision
<1>4. PICK answer \in {"none", "given", "rejected"} :
        /\ accessCalls' = Append(accessCalls, [entry |-> entry, answer |-> answer])
        /\ answer = "given" => op = "legacy"
  <2>1. CASE op = "legacy"
    BY <2>1 DEF RecordDecision, Decision
  <2>2. CASE op # "legacy" /\ queueBroken
    BY <2>2 DEF RecordDecision, Decision
  <2>3. CASE op # "legacy" /\ ~queueBroken
    BY <2>3 DEF RecordDecision, Decision
  <2> QED
    BY <2>1, <2>2, <2>3
<1> HIDE DEF entry
<1>5. appendQueue' \in Seq(Entries)
  <2>1. appendQueue \in Seq(Entries)
    BY DEF AccessShape
  <2>2. Append(appendQueue, entry) \in Seq(Entries)
    BY <1>2, <2>1, AppendProperties
  <2> QED
    BY <1>3, <2>1, <2>2
<1>6. [entry |-> entry, answer |-> answer] \in AnswerType
  BY <1>2 DEF AnswerType
<1>7. accessCalls' \in Seq(AnswerType)
  BY <1>4, <1>6, AppendProperties DEF AccessShape
<1> QED
  BY <1>2, <1>3, <1>4, <1>5, <1>7 DEF entry

\* Every call that decides records what it decided, and no token comes back from a
\* revocation.
StaysRevoked == \A t \in DOMAIN tokens : t \in DOMAIN tokens' /\ (tokens[t].revoked => tokens'[t].revoked)
Revoking(e) == e.allowed /\ e.op \in {"revoke", "rotate"}
Using(e) == e.allowed /\ e.op \in {"evaluate", "session", "rotate"}

\* A call that decides: it uses a token that is not revoked, and it leaves the token it
\* revokes revoked.
Decides(op, t, allowed) ==
  /\ RecordDecision(op, t, allowed)
  /\ Revoking(Decision(op, t, allowed)) => t \in DOMAIN tokens' /\ tokens'[t].revoked
  /\ Using(Decision(op, t, allowed)) => t \in DOMAIN tokens /\ ~tokens[t].revoked

Deciding ==
  \/ \E op \in {"issue", "rotate", "revoke"} : LifecycleRefused(op, 0)
  \/ IssueToken
  \/ \E t \in 1..MaxTokens : RotateToken(t) \/ RevokeToken(t) \/ CreateSession(t) \/ Evaluate(t)
                             \/ InvalidateSession(t)
  \/ LegacyAccess

LEMMA NoTokenIsOne == 0 \in 0..MaxTokens /\ 1..MaxTokens \subseteq 0..MaxTokens /\ MaxTokens \in Nat
BY AccessAssumption DEF AccessAssumption

LEMMA NewTokenType ==
  ASSUME NEW request \in TokenRequests, NEW previous \in 0..MaxTokens
  PROVE  NewToken(request, previous) \in TokenType
BY DEF NewToken, TokenType

LEMMA RevokedKind ==
  ASSUME AccessShape, NEW t
  PROVE  LET revoked == [tokens EXCEPT ![t].revoked = TRUE] IN
         /\ revoked \in TokenList /\ Len(revoked) = Len(tokens) /\ DOMAIN revoked = DOMAIN tokens
         /\ t \in DOMAIN tokens => revoked[t].revoked
         /\ \A u \in DOMAIN tokens : tokens[u].revoked => revoked[u].revoked
<1> DEFINE revoked == [tokens EXCEPT ![t].revoked = TRUE]
<1>1. /\ Len(tokens) \in Nat /\ tokens \in [1..Len(tokens) -> TokenType] /\ DOMAIN tokens = 1..Len(tokens)
  BY LenProperties DEF AccessShape, TokenList
<1>2. \A u \in DOMAIN tokens : [tokens[u] EXCEPT !.revoked = TRUE] \in TokenType
                             /\ [tokens[u] EXCEPT !.revoked = TRUE].revoked
  BY <1>1 DEF TokenType
<1>3. revoked \in [1..Len(tokens) -> TokenType] /\ DOMAIN revoked = DOMAIN tokens
  BY <1>1, <1>2
<1>4. revoked \in TokenList /\ Len(revoked) = Len(tokens)
  <2>1. revoked \in Seq(TokenType) /\ Len(revoked) = Len(tokens)
    BY <1>1, <1>3, SameSequence
  <2> QED
    BY <2>1 DEF AccessShape, TokenList
<1> QED
  BY <1>1, <1>2, <1>3, <1>4

LEMMA SessionsKept ==
  ASSUME AccessShape, NEW i, NEW value \in BOOLEAN,
         \/ sessions' = [sessions EXCEPT ![i].active = value]
         \/ sessions' = [sessions EXCEPT ![i].expired = value]
  PROVE  sessions' \in Seq(SessionType)
<1>1. /\ Len(sessions) \in Nat /\ sessions \in [1..Len(sessions) -> SessionType]
  BY LenProperties DEF AccessShape, TokenList
<1>2. \A u \in 1..Len(sessions) : /\ [sessions[u] EXCEPT !.active = value] \in SessionType
                                 /\ [sessions[u] EXCEPT !.expired = value] \in SessionType
  BY <1>1 DEF SessionType
<1>3. sessions' \in [1..Len(sessions) -> SessionType]
  BY <1>1, <1>2
<1> QED
  BY <1>1, <1>3, SameSequence

LEMMA TokensUnchanged ==
  ASSUME AccessShape, UNCHANGED tokens PROVE StaysRevoked /\ tokens' \in TokenList
BY DEF StaysRevoked, AccessShape

LEMMA DecidingSteps ==
  ASSUME AccessShape, Deciding
  PROVE  /\ tokens' \in TokenList /\ sessions' \in Seq(SessionType) /\ StaysRevoked
         /\ \E op \in Ops, t \in 0..MaxTokens, allowed \in BOOLEAN : Decides(op, t, allowed)
<1>1. /\ Len(tokens) \in Nat /\ DOMAIN tokens = 1..Len(tokens)
      /\ \A t \in DOMAIN tokens : tokens[t] \in TokenType
  BY LenProperties, ElementOfSeq DEF AccessShape, TokenList
<1>2. sessions \in Seq(SessionType) /\ \A i \in DOMAIN sessions : sessions[i].token \in 0..MaxTokens
  <2>1. sessions \in Seq(SessionType)
    BY DEF AccessShape
  <2>2. \A i \in DOMAIN sessions : sessions[i] \in SessionType
    BY <2>1, LenProperties, ElementOfSeq
  <2> QED
    BY <2>1, <2>2, NoTokenIsOne DEF SessionType
<1>3. ASSUME NEW op \in Ops, NEW t \in 0..MaxTokens, RecordDecision(op, t, FALSE)
      PROVE  Decides(op, t, FALSE)
  BY <1>3 DEF Decides, Revoking, Using, Decision
<1>4. ASSUME NEW op \in {"issue", "rotate", "revoke"}, LifecycleRefused(op, 0)
      PROVE  /\ tokens' \in TokenList /\ UNCHANGED sessions /\ StaysRevoked
             /\ Decides(op, 0, FALSE) /\ op \in Ops
  <2>1. op \in Ops /\ RecordDecision(op, 0, FALSE) /\ UNCHANGED <<tokens, sessions>>
    BY <1>4 DEF LifecycleRefused, Transaction, Ops
  <2> QED
    BY <1>3, <2>1, NoTokenIsOne, TokensUnchanged
<1>5. CASE IssueToken
  <2>1. PICK request \in TokenRequests : tokens' = Append(tokens, NewToken(request, 0))
    BY <1>5 DEF IssueToken
  <2>2. /\ tokens' \in TokenList /\ DOMAIN tokens' = 1..(Len(tokens) + 1)
        /\ \A t \in DOMAIN tokens : tokens'[t] = tokens[t]
    <3>1. NewToken(request, 0) \in TokenType /\ Len(tokens) < MaxTokens
      BY <1>5, NoTokenIsOne, NewTokenType DEF IssueToken
    <3>2. /\ tokens' \in Seq(TokenType) /\ Len(tokens') = Len(tokens) + 1
          /\ \A t \in 1..Len(tokens) : tokens'[t] = tokens[t]
      BY <2>1, <3>1, AppendProperties DEF AccessShape, TokenList
    <3>3. DOMAIN tokens' = 1..(Len(tokens) + 1)
      BY <3>2, LenProperties
    <3>4. Len(tokens) + 1 <= MaxTokens
      BY <1>1, <3>1, NoTokenIsOne
    <3> QED
      BY <1>1, <3>2, <3>3, <3>4 DEF TokenList
  <2>3. StaysRevoked
    BY <1>1, <2>2 DEF StaysRevoked
  <2>4. RecordDecision("issue", Len(tokens) + 1, TRUE) /\ UNCHANGED sessions
    BY <1>5 DEF IssueToken, Transaction
  <2>5. Decides("issue", Len(tokens) + 1, TRUE)
    BY <2>4 DEF Decides, Revoking, Using, Decision
  <2>6. "issue" \in Ops /\ Len(tokens) + 1 \in 0..MaxTokens
    BY <1>1, <1>5, NoTokenIsOne DEF Ops, IssueToken
  <2> QED
    BY <1>2, <2>2, <2>3, <2>4, <2>5, <2>6
<1>6. ASSUME NEW t \in 1..MaxTokens, RotateToken(t)
      PROVE  /\ tokens' \in TokenList /\ UNCHANGED sessions /\ StaysRevoked
             /\ Decides("rotate", t, TRUE)
  <2> DEFINE old == [tokens EXCEPT ![t].revoked = TRUE]
             new == NewToken(tokens[t].request, t)
  <2>1. t \in DOMAIN tokens /\ ~tokens[t].revoked /\ tokens' = Append(old, new)
    BY <1>6 DEF RotateToken, ValidateToken, Rotated
  <2>2. /\ old \in Seq(TokenType) /\ Len(old) = Len(tokens) /\ DOMAIN old = DOMAIN tokens /\ old[t].revoked
        /\ \A u \in DOMAIN tokens : tokens[u].revoked => old[u].revoked
    BY <2>1, RevokedKind DEF TokenList
  <2>3. new \in TokenType
    <3>1. tokens[t].request \in TokenRequests
      BY <1>1, <2>1 DEF TokenType
    <3>2. t \in 0..MaxTokens
      BY NoTokenIsOne
    <3> QED
      BY <3>1, <3>2, NewTokenType
  <2> HIDE DEF old, new
  <2>4. /\ tokens' \in TokenList /\ Len(old) \in Nat /\ DOMAIN old = 1..Len(old)
        /\ DOMAIN tokens' = 1..(Len(old) + 1)
        /\ \A u \in 1..Len(old) : tokens'[u] = old[u]
    <3>1. /\ tokens' \in Seq(TokenType) /\ Len(tokens') = Len(old) + 1 /\ Len(old) \in Nat /\ DOMAIN old = 1..Len(old)
          /\ \A u \in 1..Len(old) : tokens'[u] = old[u]
      BY <2>1, <2>2, <2>3, AppendProperties, LenProperties
    <3>2. Len(old) < MaxTokens
      BY <1>6, <2>2 DEF RotateToken
    <3>3. Len(old) + 1 <= MaxTokens
      BY <3>1, <3>2, NoTokenIsOne
    <3> QED
      BY <3>1, <3>3, LenProperties DEF TokenList
  <2>5. \A u \in DOMAIN tokens : u \in DOMAIN tokens' /\ tokens'[u] = old[u]
    BY <2>2, <2>4
  <2>6. StaysRevoked /\ t \in DOMAIN tokens' /\ tokens'[t].revoked
    BY <2>1, <2>2, <2>5 DEF StaysRevoked
  <2>7. RecordDecision("rotate", t, TRUE) /\ UNCHANGED sessions
    BY <1>6 DEF RotateToken, Transaction
  <2> QED
    BY <2>1, <2>4, <2>6, <2>7 DEF Decides
<1>7. ASSUME NEW t \in 1..MaxTokens, RevokeToken(t)
      PROVE  /\ tokens' \in TokenList /\ UNCHANGED sessions /\ StaysRevoked
             /\ Decides("revoke", t, TRUE)
  <2>1. t \in DOMAIN tokens /\ tokens' = [tokens EXCEPT ![t].revoked = TRUE]
        /\ RecordDecision("revoke", t, TRUE) /\ UNCHANGED sessions
    BY <1>7 DEF RevokeToken, Transaction
  <2>2. /\ tokens' \in TokenList /\ DOMAIN tokens' = DOMAIN tokens /\ tokens'[t].revoked
        /\ \A u \in DOMAIN tokens : tokens[u].revoked => tokens'[u].revoked
    BY <2>1, RevokedKind
  <2>3. StaysRevoked
    BY <2>2 DEF StaysRevoked
  <2>4. ~Using(Decision("revoke", t, TRUE))
    BY DEF Using, Decision
  <2> QED
    BY <2>1, <2>2, <2>3, <2>4 DEF Decides
<1>8. ASSUME NEW t \in 1..MaxTokens, CreateSession(t)
      PROVE  /\ tokens' \in TokenList /\ sessions' \in Seq(SessionType) /\ StaysRevoked
             /\ Decides("session", t, ValidateToken(t))
  <2>1. RecordDecision("session", t, ValidateToken(t)) /\ UNCHANGED tokens
    BY <1>8 DEF CreateSession
  <2>2. [token |-> t, active |-> TRUE, expired |-> FALSE] \in SessionType
    BY DEF SessionType
  <2>3. sessions' \in Seq(SessionType)
    BY <1>2, <1>8, <2>2, AppendProperties DEF CreateSession
  <2>4. ~Revoking(Decision("session", t, ValidateToken(t)))
        /\ (Using(Decision("session", t, ValidateToken(t))) => ValidateToken(t))
    BY DEF Revoking, Using, Decision
  <2> QED
    BY <2>1, <2>3, <2>4, TokensUnchanged DEF Decides, ValidateToken
<1>9. ASSUME NEW t \in 1..MaxTokens, Evaluate(t)
      PROVE  /\ tokens' \in TokenList /\ UNCHANGED sessions /\ StaysRevoked
             /\ \E allowed \in BOOLEAN : Decides("evaluate", t, allowed)
  <2>1. PICK scope \in DOMAIN ScopeRegistry : RecordDecision("evaluate", t, EvaluateAccess(t, scope))
    BY <1>9 DEF Evaluate
  <2>2. UNCHANGED <<tokens, sessions>>
    BY <1>9 DEF Evaluate
  <2>3. ~Revoking(Decision("evaluate", t, EvaluateAccess(t, scope)))
        /\ (Using(Decision("evaluate", t, EvaluateAccess(t, scope))) => EvaluateAccess(t, scope))
    BY DEF Revoking, Using, Decision
  <2>4. Decides("evaluate", t, EvaluateAccess(t, scope))
    BY <2>1, <2>3 DEF Decides, EvaluateAccess, ValidateToken
  <2>5. EvaluateAccess(t, scope) \in BOOLEAN
    BY DEF EvaluateAccess
  <2> QED
    BY <2>2, <2>4, <2>5, TokensUnchanged
<1>10. ASSUME NEW i \in 1..MaxTokens, InvalidateSession(i)
       PROVE  /\ tokens' \in TokenList /\ sessions' \in Seq(SessionType) /\ StaysRevoked
              /\ \E t \in 0..MaxTokens : Decides("invalidate", t, TRUE)
  <2>1. /\ i \in DOMAIN sessions /\ sessions' = [sessions EXCEPT ![i].active = FALSE]
        /\ RecordDecision("invalidate", sessions[i].token, TRUE) /\ UNCHANGED tokens
    BY <1>10 DEF InvalidateSession
  <2>2. sessions' \in Seq(SessionType)
    BY <2>1, SessionsKept
  <2>3. Decides("invalidate", sessions[i].token, TRUE)
    BY <2>1 DEF Decides, Revoking, Using, Decision
  <2> QED
    BY <1>2, <2>1, <2>2, <2>3, TokensUnchanged
<1>11. CASE LegacyAccess
  <2>1. PICK role \in DOMAIN RolePolicy \union {""}, scope \in DOMAIN ScopeRegistry :
          RecordDecision("legacy", 0, EvaluateLegacyAccess(role, scope))
    BY <1>11 DEF LegacyAccess
  <2>2. UNCHANGED <<tokens, sessions>>
    BY <1>11 DEF LegacyAccess
  <2>3. EvaluateLegacyAccess(role, scope) \in BOOLEAN
    BY DEF EvaluateLegacyAccess, ScopePermits
  <2>4. Decides("legacy", 0, EvaluateLegacyAccess(role, scope))
    BY <2>1 DEF Decides, Revoking, Using, Decision
  <2> QED
    BY <1>2, <2>2, <2>3, <2>4, NoTokenIsOne, TokensUnchanged DEF Ops
<1>12. {"issue", "rotate", "revoke", "evaluate", "session", "invalidate", "legacy"} = Ops
       /\ 1..MaxTokens \subseteq 0..MaxTokens /\ \A t : ValidateToken(t) \in BOOLEAN
  BY NoTokenIsOne DEF Ops, ValidateToken
<1>13. CASE \E op \in {"issue", "rotate", "revoke"} : LifecycleRefused(op, 0)
  BY <1>2, <1>4, <1>13, NoTokenIsOne
<1>14. ASSUME NEW t \in 1..MaxTokens, RotateToken(t) \/ RevokeToken(t) \/ CreateSession(t)
       PROVE  /\ tokens' \in TokenList /\ sessions' \in Seq(SessionType) /\ StaysRevoked
              /\ \E op \in Ops, u \in 0..MaxTokens, allowed \in BOOLEAN : Decides(op, u, allowed)
  <2>1. t \in 0..MaxTokens /\ {"rotate", "revoke", "session"} \subseteq Ops
    BY <1>12
  <2>2. CASE RotateToken(t)
    BY <1>2, <1>6, <2>1, <2>2
  <2>3. CASE RevokeToken(t)
    BY <1>2, <1>7, <2>1, <2>3
  <2>4. CASE CreateSession(t)
    BY <1>8, <1>12, <2>1, <2>4
  <2> QED
    BY <1>14, <2>2, <2>3, <2>4
<1>15. ASSUME NEW t \in 1..MaxTokens, Evaluate(t) \/ InvalidateSession(t)
       PROVE  /\ tokens' \in TokenList /\ sessions' \in Seq(SessionType) /\ StaysRevoked
              /\ \E op \in Ops, u \in 0..MaxTokens, allowed \in BOOLEAN : Decides(op, u, allowed)
  <2>1. t \in 0..MaxTokens /\ {"evaluate", "invalidate"} \subseteq Ops
    BY <1>12
  <2>2. CASE Evaluate(t)
    BY <1>2, <1>9, <2>1, <2>2
  <2>3. CASE InvalidateSession(t)
    BY <1>10, <2>1, <2>3
  <2> QED
    BY <1>15, <2>2, <2>3
<1> QED
  BY <1>5, <1>11, <1>13, <1>14, <1>15 DEF Deciding

\* The other steps write the first decision that waits, drop those that wait, or change
\* no decision.
LEMMA OtherSteps ==
  ASSUME AccessShape, AppendDecision \/ AppendFails \/ Expire \/ AccessRestart
  PROVE  AccessShape' /\ StaysRevoked
<1>1. CASE AppendDecision
  <2>1. /\ appendQueue # <<>> /\ appendQueue' = Tail(appendQueue)
        /\ accessLedger' = Append(accessLedger, Head(appendQueue))
        /\ accessCalls' = Answered({Head(appendQueue).call}, "given") /\ UNCHANGED <<tokens, sessions>>
    BY <1>1 DEF AppendDecision
  <2>2. accessLedger' \in Seq(Entries) /\ appendQueue' \in Seq(Entries)
    BY <2>1, HeadTailProperties, AppendProperties DEF AccessShape
  <2>3. accessCalls' \in Seq(AnswerType)
    BY <2>1, AnsweredKeeps
  <2> QED
    BY <2>1, <2>2, <2>3, TokensUnchanged DEF AccessShape
<1>2. CASE AppendFails \/ AccessRestart
  <2>1. /\ appendQueue' = <<>> /\ UNCHANGED <<tokens, sessions, accessLedger>>
        /\ \E answer \in {"rejected", "lost"} : accessCalls' = Answered(DOMAIN accessCalls, answer)
    BY <1>2 DEF AppendFails, AccessRestart
  <2>2. accessCalls' \in Seq(AnswerType)
    BY <2>1, AnsweredKeeps
  <2>3. appendQueue' \in Seq(Entries)
    BY <2>1, EmptySeq
  <2> QED
    BY <2>1, <2>2, <2>3, TokensUnchanged DEF AccessShape
<1>3. CASE Expire
  <2>1. UNCHANGED <<accessLedger, appendQueue, accessCalls>>
    BY <1>3 DEF Expire
  <2>2. ASSUME NEW t \in DOMAIN tokens, tokens' = [tokens EXCEPT ![t].expired = TRUE], UNCHANGED sessions
        PROVE  AccessShape' /\ StaysRevoked
    <3>1. /\ Len(tokens) \in Nat /\ tokens \in [1..Len(tokens) -> TokenType]
      BY LenProperties DEF AccessShape, TokenList
    <3>2. \A u \in 1..Len(tokens) : /\ [tokens[u] EXCEPT !.expired = TRUE] \in TokenType
                                   /\ [tokens[u] EXCEPT !.expired = TRUE].revoked = tokens[u].revoked
      BY <3>1 DEF TokenType
    <3>3. /\ tokens' \in [1..Len(tokens) -> TokenType]
          /\ \A u \in 1..Len(tokens) : tokens'[u].revoked = tokens[u].revoked
      BY <2>2, <3>1, <3>2
    <3>4. tokens' \in TokenList
      <4>1. tokens' \in Seq(TokenType) /\ Len(tokens') = Len(tokens)
        BY <3>1, <3>3, SameSequence
      <4> QED
        BY <4>1 DEF AccessShape, TokenList
    <3> QED
      BY <2>1, <2>2, <3>1, <3>3, <3>4 DEF AccessShape, StaysRevoked
  <2>3. ASSUME NEW i \in DOMAIN sessions, sessions' = [sessions EXCEPT ![i].expired = TRUE], UNCHANGED tokens
        PROVE  AccessShape' /\ StaysRevoked
    <3>1. sessions' \in Seq(SessionType)
      BY <2>3, SessionsKept
    <3> QED
      BY <2>1, <2>3, <3>1, TokensUnchanged DEF AccessShape
  <2> QED
    BY <1>3, <2>2, <2>3 DEF Expire
<1> QED
  BY <1>1, <1>2, <1>3

LEMMA NextSteps ==
  [AccessNext]_accessVars => Deciding \/ AppendDecision \/ AppendFails \/ Expire \/ AccessRestart \/ UNCHANGED accessVars
BY DEF AccessNext, Deciding

LEMMA AccessShapeInit == AccessInit => AccessShape
<1> SUFFICES ASSUME AccessInit PROVE AccessShape
  OBVIOUS
<1>1. \A S : <<>> \in Seq(S) /\ Len(<<>>) <= MaxTokens
  BY EmptySeq, NoTokenIsOne
<1> QED
  BY <1>1 DEF AccessInit, AccessShape, TokenList

LEMMA AccessShapeStep == AccessShape /\ [AccessNext]_accessVars => AccessShape'
<1> SUFFICES ASSUME AccessShape, [AccessNext]_accessVars PROVE AccessShape'
  OBVIOUS
<1>1. CASE UNCHANGED accessVars
  BY <1>1 DEF accessVars, AccessShape
<1>2. CASE Deciding
  <2>1. PICK op \in Ops, t \in 0..MaxTokens, allowed \in BOOLEAN : RecordDecision(op, t, allowed)
    BY <1>2, DecidingSteps DEF Decides
  <2>2. accessLedger' = accessLedger /\ appendQueue' \in Seq(Entries) /\ accessCalls' \in Seq(AnswerType)
    BY <2>1, AccessRecordSteps
  <2> QED
    BY <1>2, <2>2, DecidingSteps DEF AccessShape
<1> QED
  BY <1>1, <1>2, OtherSteps, NextSteps
-----------------------------------------------------------------------------
(* Revocations.                                                             *)

\* A revocation that is decided holds, and no decision after it uses the token.
Final(all) ==
  \A i, j \in DOMAIN all : i < j /\ Revoking(all[i]) /\ Using(all[j]) => all[i].token # all[j].token
Revoked(all) ==
  \A i \in DOMAIN all : Revoking(all[i]) => all[i].token \in DOMAIN tokens /\ tokens[all[i].token].revoked
RevokedInv == Final(AccessDecisions) /\ Revoked(AccessDecisions)

LEMMA RevokedInv_Same ==
  ASSUME RevokedInv, StaysRevoked, AccessDecisions' = AccessDecisions PROVE RevokedInv'
BY DEF RevokedInv, Final, Revoked, StaysRevoked

LEMMA RevokedInv_Appended ==
  ASSUME AccessShape, RevokedInv, StaysRevoked, NEW op \in Ops, NEW t \in 0..MaxTokens, NEW allowed \in BOOLEAN,
         Decides(op, t, allowed), Decision(op, t, allowed) \in Entries,
         AccessDecisions' = Append(AccessDecisions, Decision(op, t, allowed))
  PROVE  RevokedInv'
<1> DEFINE entry == Decision(op, t, allowed)
           all == AccessDecisions
           n == Len(AccessDecisions)
<1>1. all \in Seq(Entries)
  BY ConcatProperties DEF AccessShape, AccessDecisions
<1>2. /\ n \in Nat /\ DOMAIN all = 1..n /\ DOMAIN Append(all, entry) = 1..(n + 1)
      /\ \A i \in 1..n : Append(all, entry)[i] = all[i]
      /\ Append(all, entry)[n + 1] = entry
  BY <1>1, AppendProperties, LenProperties
<1>3. entry.token = t
  BY DEF Decision
<1>4. /\ Revoking(entry) => t \in DOMAIN tokens' /\ tokens'[t].revoked
      /\ Using(entry) => t \in DOMAIN tokens /\ ~tokens[t].revoked
  BY DEF Decides
<1>5. Final(all) /\ Revoked(all)
  BY DEF RevokedInv
<1> HIDE DEF entry, all, n
<1>6. \A i \in 1..n : Revoking(all[i]) => all[i].token \in DOMAIN tokens /\ tokens[all[i].token].revoked
  BY <1>2, <1>5 DEF Revoked
<1>7. Final(Append(all, entry))
  <2> SUFFICES ASSUME NEW i \in 1..(n + 1), NEW j \in 1..(n + 1), i < j,
                      Revoking(Append(all, entry)[i]), Using(Append(all, entry)[j])
               PROVE  Append(all, entry)[i].token # Append(all, entry)[j].token
    BY <1>2 DEF Final
  <2>1. i \in 1..n
    BY <1>2
  <2>2. CASE j \in 1..n
    BY <1>2, <1>5, <2>1, <2>2 DEF Final
  <2>3. CASE j = n + 1
    <3>1. Append(all, entry)[j] = entry /\ Append(all, entry)[i] = all[i]
      BY <1>2, <2>1, <2>3
    <3> QED
      BY <1>3, <1>4, <1>6, <2>1, <3>1
  <2>4. j \in 1..n \/ j = n + 1
    BY <1>2
  <2> QED
    BY <2>2, <2>3, <2>4
<1>8. \A i \in DOMAIN Append(all, entry) : LET e == Append(all, entry)[i] IN
        Revoking(e) => e.token \in DOMAIN tokens' /\ tokens'[e.token].revoked
  <2> SUFFICES ASSUME NEW i \in 1..(n + 1), Revoking(Append(all, entry)[i])
               PROVE  /\ Append(all, entry)[i].token \in DOMAIN tokens'
                      /\ tokens'[Append(all, entry)[i].token].revoked
    BY <1>2
  <2>1. CASE i \in 1..n
    BY <1>2, <1>6, <2>1 DEF StaysRevoked
  <2>2. CASE i = n + 1
    BY <1>2, <1>3, <1>4, <2>2
  <2> QED
    BY <1>2, <2>1, <2>2
<1>9. AccessDecisions' = Append(all, entry)
  BY DEF all, entry
<1> QED
  BY <1>7, <1>8, <1>9 DEF RevokedInv, Final, Revoked

LEMMA LedgerIsPrefix ==
  ASSUME AccessShape
  PROVE  \A i \in DOMAIN accessLedger : i \in DOMAIN AccessDecisions /\ accessLedger[i] = AccessDecisions[i]
<1>1. accessLedger \in Seq(Entries) /\ appendQueue \in Seq(Entries)
  BY DEF AccessShape
<1>2. /\ Len(accessLedger) \in Nat /\ Len(appendQueue) \in Nat /\ DOMAIN accessLedger = 1..Len(accessLedger)
  BY <1>1, LenProperties
<1>3. /\ AccessDecisions \in Seq(Entries) /\ Len(AccessDecisions) = Len(accessLedger) + Len(appendQueue)
      /\ \A i \in 1..Len(accessLedger) : AccessDecisions[i] = accessLedger[i]
  BY <1>1, <1>2, ConcatProperties DEF AccessDecisions
<1>4. DOMAIN AccessDecisions = 1..(Len(accessLedger) + Len(appendQueue))
  BY <1>3, LenProperties
<1> QED
  BY <1>2, <1>3, <1>4

LEMMA RevokedInv_Dropped ==
  ASSUME AccessShape, RevokedInv, StaysRevoked, AccessDecisions' = accessLedger PROVE RevokedInv'
<1> DEFINE all == AccessDecisions
<1>1. \A i \in DOMAIN accessLedger : i \in DOMAIN all /\ accessLedger[i] = all[i]
  BY LedgerIsPrefix
<1>2. Final(all) /\ Revoked(all)
  BY DEF RevokedInv
<1> HIDE DEF all
<1>3. Final(accessLedger)
  BY <1>1, <1>2 DEF Final
<1>4. \A i \in DOMAIN accessLedger : LET e == accessLedger[i] IN
        Revoking(e) => e.token \in DOMAIN tokens' /\ tokens'[e.token].revoked
  BY <1>1, <1>2 DEF Revoked, StaysRevoked
<1> QED
  BY <1>3, <1>4 DEF RevokedInv, Final, Revoked

LEMMA RevokedStep == AccessShape /\ RevokedInv /\ [AccessNext]_accessVars => RevokedInv'
<1> SUFFICES ASSUME AccessShape, RevokedInv, [AccessNext]_accessVars PROVE RevokedInv'
  OBVIOUS
<1>1. CASE UNCHANGED accessVars
  BY <1>1 DEF accessVars, RevokedInv, AccessDecisions, Final, Revoked
<1>2. CASE Deciding
  <2>1. PICK op \in Ops, t \in 0..MaxTokens, allowed \in BOOLEAN : Decides(op, t, allowed)
    BY <1>2, DecidingSteps
  <2> DEFINE entry == Decision(op, t, allowed)
  <2>2. /\ entry \in Entries /\ accessLedger' = accessLedger
        /\ appendQueue' \in {appendQueue, Append(appendQueue, entry)}
    BY <2>1, AccessRecordSteps DEF Decides
  <2>3. StaysRevoked
    BY <1>2, DecidingSteps
  <2>4. CASE appendQueue' = appendQueue
    BY <2>2, <2>3, <2>4, RevokedInv_Same DEF AccessDecisions
  <2>5. CASE appendQueue' = Append(appendQueue, entry)
    <3> HIDE DEF entry
    <3>1. /\ appendQueue \in Seq(Entries) /\ accessLedger \in Seq(Entries) /\ <<entry>> \in Seq(Entries)
      BY <2>2 DEF AccessShape
    <3>2. Append(appendQueue, entry) = appendQueue \o <<entry>>
      BY <2>2, <3>1, AppendIsConcat
    <3>3. accessLedger \o (appendQueue \o <<entry>>) = (accessLedger \o appendQueue) \o <<entry>>
      BY <3>1, ConcatAssociative
    <3>4. accessLedger \o appendQueue \in Seq(Entries)
      BY <3>1, ConcatProperties
    <3>5. (accessLedger \o appendQueue) \o <<entry>> = Append(accessLedger \o appendQueue, entry)
      BY <2>2, <3>4, AppendIsConcat
    <3>6. AccessDecisions' = Append(AccessDecisions, entry)
      BY <2>2, <2>5, <3>2, <3>3, <3>5 DEF AccessDecisions
    <3> QED
      BY <2>1, <2>2, <2>3, <3>6, RevokedInv_Appended DEF entry
  <2> QED
    BY <2>2, <2>4, <2>5
<1>3. CASE AppendDecision
  <2>1. /\ appendQueue # <<>> /\ appendQueue' = Tail(appendQueue)
        /\ accessLedger' = Append(accessLedger, Head(appendQueue))
    BY <1>3 DEF AppendDecision
  <2> DEFINE h == Head(appendQueue)
             q == Tail(appendQueue)
  <2>2. /\ h \in Entries /\ q \in Seq(Entries) /\ appendQueue = <<h>> \o q
    BY <2>1, HeadTailProperties, ConcatProperties DEF AccessShape
  <2> HIDE DEF h, q
  <2>3. <<h>> \in Seq(Entries) /\ accessLedger \in Seq(Entries)
    BY <2>2 DEF AccessShape
  <2>4. Append(accessLedger, h) = accessLedger \o <<h>>
    BY <2>2, <2>3, AppendIsConcat
  <2>5. (accessLedger \o <<h>>) \o q = accessLedger \o (<<h>> \o q)
    BY <2>2, <2>3, ConcatAssociative
  <2>6. AccessDecisions' = AccessDecisions
    BY <2>1, <2>2, <2>4, <2>5 DEF AccessDecisions, h, q
  <2> QED
    BY <1>3, <2>6, OtherSteps, RevokedInv_Same
<1>4. CASE AppendFails \/ AccessRestart
  <2>1. accessLedger' = accessLedger /\ appendQueue' = <<>>
    BY <1>4 DEF AppendFails, AccessRestart
  <2>2. AccessDecisions' = accessLedger
    BY <2>1, ConcatEmptySeq DEF AccessDecisions, AccessShape
  <2> QED
    BY <1>4, <2>2, OtherSteps, RevokedInv_Dropped
<1>5. CASE Expire
  <2>1. AccessDecisions' = AccessDecisions
    BY <1>5 DEF Expire, AccessDecisions
  <2> QED
    BY <1>5, <2>1, OtherSteps, RevokedInv_Same
<1> QED
  BY <1>1, <1>2, <1>3, <1>4, <1>5, NextSteps

\* Read in order, the ledger never allows something with a token after it records that
\* the token was revoked or rotated: for every number of tokens, of calls that overlap and
\* of restarts, though appends fail (revokeToken, rotateToken, recordDecision).
THEOREM RevocationFinalHolds == AccessSpec => []RevocationFinal
<1>1. AccessInit => RevokedInv
  <2> SUFFICES ASSUME AccessInit PROVE RevokedInv
    OBVIOUS
  <2>1. AccessDecisions = <<>>
    BY ConcatEmptySeq, EmptySeq DEF AccessInit, AccessDecisions
  <2>2. DOMAIN <<>> = {}
    BY EmptySeq, LenProperties
  <2> QED
    BY <2>1, <2>2 DEF RevokedInv, Final, Revoked
<1>2. AccessShape /\ RevokedInv => RevocationFinal
  <2> SUFFICES ASSUME AccessShape, RevokedInv, NEW i \in DOMAIN accessLedger, NEW j \in DOMAIN accessLedger,
                      i < j, Revoking(accessLedger[i]), Using(accessLedger[j])
               PROVE  accessLedger[i].token # accessLedger[j].token
    BY DEF RevocationFinal, Revoking, Using
  <2>1. /\ i \in DOMAIN AccessDecisions /\ accessLedger[i] = AccessDecisions[i]
        /\ j \in DOMAIN AccessDecisions /\ accessLedger[j] = AccessDecisions[j]
    BY LedgerIsPrefix
  <2> QED
    BY <2>1 DEF RevokedInv, Final
<1>3. AccessShape /\ RevokedInv /\ [AccessNext]_accessVars => AccessShape' /\ RevokedInv'
  BY AccessShapeStep, RevokedStep
<1> QED
  BY <1>1, <1>2, <1>3, AccessShapeInit, PTL DEF AccessSpec
-----------------------------------------------------------------------------
(* Answers.                                                                 *)

\* What waits to be appended is the entry of its call, and a call that was told what was
\* decided, other than through the legacy bridge, is in the ledger.
Waiting(entry) == entry.call \in DOMAIN accessCalls /\ accessCalls[entry.call].entry = entry
Told == {c \in DOMAIN accessCalls : accessCalls[c].answer = "given" /\ accessCalls[c].entry.op # "legacy"}
AnswersInv ==
  /\ \A i \in DOMAIN appendQueue : Waiting(appendQueue[i])
  /\ \A c \in Told : accessCalls[c].entry \in Range(accessLedger)

LEMMA AnswersInv_Decided ==
  ASSUME AccessShape, AnswersInv, Deciding PROVE AnswersInv'
<1>1. PICK op \in Ops, t \in 0..MaxTokens, allowed \in BOOLEAN : RecordDecision(op, t, allowed)
  BY DecidingSteps DEF Decides
<1>2. PICK entry \in Entries : entry = Decision(op, t, allowed)
  BY <1>1, AccessRecordSteps
<1>3. /\ accessLedger' = accessLedger /\ appendQueue' \in {appendQueue, Append(appendQueue, entry)}
      /\ \E answer \in {"none", "given", "rejected"} :
           /\ accessCalls' = Append(accessCalls, [entry |-> entry, answer |-> answer])
           /\ answer = "given" => op = "legacy"
  BY <1>1, <1>2, AccessRecordSteps
<1>4. PICK answer \in {"none", "given", "rejected"} :
        /\ accessCalls' = Append(accessCalls, [entry |-> entry, answer |-> answer])
        /\ answer = "given" => op = "legacy"
  BY <1>3
<1> DEFINE n == Len(accessCalls)
<1>5. n \in Nat /\ DOMAIN accessCalls = 1..n /\ entry.call = n + 1 /\ entry.op = op
  BY <1>2, LenProperties DEF AccessShape, TokenList, Decision
<1>6. /\ DOMAIN accessCalls' = 1..(n + 1)
      /\ \A c \in 1..n : accessCalls'[c] = accessCalls[c]
      /\ accessCalls'[n + 1] = [entry |-> entry, answer |-> answer]
  <2>1. accessCalls \in Seq(AnswerType) /\ [entry |-> entry, answer |-> answer] \in AnswerType
    BY DEF AccessShape, AnswerType
  <2> QED
    BY <1>4, <2>1, AppendProperties, LenProperties
<1> HIDE DEF n
<1>7. ASSUME NEW i \in DOMAIN appendQueue' PROVE Waiting(appendQueue[i])'
  <2>1. appendQueue \in Seq(Entries) /\ Len(appendQueue) \in Nat
        /\ DOMAIN appendQueue = 1..Len(appendQueue)
    BY LenProperties DEF AccessShape, TokenList
  <2>2. /\ DOMAIN Append(appendQueue, entry) = 1..(Len(appendQueue) + 1)
        /\ \A j \in 1..Len(appendQueue) : Append(appendQueue, entry)[j] = appendQueue[j]
        /\ Append(appendQueue, entry)[Len(appendQueue) + 1] = entry
    BY <2>1, AppendProperties, LenProperties
  <2>3. appendQueue'[i] = entry \/ (i \in DOMAIN appendQueue /\ appendQueue'[i] = appendQueue[i])
    BY <1>3, <2>1, <2>2
  <2>4. i \in DOMAIN appendQueue => Waiting(appendQueue[i])
    BY DEF AnswersInv
  <2> QED
    BY <1>5, <1>6, <2>3, <2>4 DEF Waiting
<1>8. ASSUME NEW c \in Told' PROVE c \in Told /\ accessCalls'[c] = accessCalls[c]
  <2>1. c \in 1..(n + 1) /\ accessCalls'[c].answer = "given" /\ accessCalls'[c].entry.op # "legacy"
    BY <1>6 DEF Told
  <2>2. c # n + 1
    BY <1>4, <1>5, <1>6, <2>1
  <2> QED
    BY <1>5, <1>6, <2>1, <2>2 DEF Told
<1> QED
  BY <1>3, <1>7, <1>8 DEF AnswersInv

LEMMA AnswersInv_Appended ==
  ASSUME AccessShape, AnswersInv, AppendDecision PROVE AnswersInv'
<1>1. /\ appendQueue # <<>> /\ appendQueue \in Seq(Entries) /\ accessLedger \in Seq(Entries)
      /\ appendQueue' = Tail(appendQueue)
      /\ accessLedger' = Append(accessLedger, Head(appendQueue))
      /\ accessCalls' = Answered({Head(appendQueue).call}, "given")
  BY DEF AppendDecision, AccessShape
<1>2. PICK h \in Entries : h = Head(appendQueue)
  BY <1>1, HeadTailProperties
<1>3. /\ DOMAIN accessCalls' = DOMAIN accessCalls
      /\ \A c \in DOMAIN accessCalls :
           /\ accessCalls'[c].entry = accessCalls[c].entry
           /\ \/ accessCalls'[c].answer = accessCalls[c].answer
              \/ c = h.call
  <2>1. accessCalls' = Answered({h.call}, "given")
    BY <1>1, <1>2
  <2> QED
    BY <2>1, AnsweredKeeps
<1>4. /\ Len(appendQueue) \in Nat /\ 1 \in DOMAIN appendQueue /\ appendQueue[1] = h
      /\ DOMAIN appendQueue = 1..Len(appendQueue)
      /\ DOMAIN appendQueue' = 1..(Len(appendQueue) - 1)
      /\ \A i \in DOMAIN appendQueue' : i + 1 \in DOMAIN appendQueue /\ appendQueue'[i] = appendQueue[i + 1]
  <2>1. Len(appendQueue) \in Nat /\ DOMAIN appendQueue = 1..Len(appendQueue)
    BY <1>1, LenProperties
  <2>2. Len(appendQueue) # 0
    BY <1>1, EmptySeq
  <2>3. /\ Tail(appendQueue) \in Seq(Entries) /\ Len(Tail(appendQueue)) = Len(appendQueue) - 1
        /\ \A i \in 1..Len(Tail(appendQueue)) : Tail(appendQueue)[i] = appendQueue[i + 1]
        /\ Head(appendQueue) = appendQueue[1]
    BY <1>1, HeadTailProperties
  <2>4. DOMAIN Tail(appendQueue) = 1..(Len(appendQueue) - 1)
    BY <2>3, LenProperties
  <2> QED
    BY <1>1, <1>2, <2>1, <2>2, <2>3, <2>4
<1>5. h \in Range(accessLedger') /\ Range(accessLedger) \subseteq Range(accessLedger')
  <2>1. Len(accessLedger) \in Nat /\ DOMAIN accessLedger = 1..Len(accessLedger)
    BY <1>1, LenProperties
  <2>2. /\ DOMAIN accessLedger' = 1..(Len(accessLedger) + 1)
        /\ \A i \in 1..Len(accessLedger) : accessLedger'[i] = accessLedger[i]
        /\ accessLedger'[Len(accessLedger) + 1] = h
    BY <1>1, <1>2, <2>1, AppendProperties, LenProperties
  <2>3. Len(accessLedger) + 1 \in DOMAIN accessLedger' /\ DOMAIN accessLedger \subseteq DOMAIN accessLedger'
    BY <2>1, <2>2
  <2> QED
    BY <2>1, <2>2, <2>3 DEF Range
<1>6. \A i \in DOMAIN appendQueue : Waiting(appendQueue[i])
  BY DEF AnswersInv
<1>7. ASSUME NEW i \in DOMAIN appendQueue' PROVE Waiting(appendQueue[i])'
  <2>1. Waiting(appendQueue[i + 1]) /\ appendQueue'[i] = appendQueue[i + 1]
    BY <1>4, <1>6
  <2> QED
    BY <1>3, <2>1 DEF Waiting
<1>8. Waiting(h)
  BY <1>4, <1>6
<1>9. ASSUME NEW c \in Told' PROVE accessCalls'[c].entry \in Range(accessLedger')
  <2>1. /\ c \in DOMAIN accessCalls /\ accessCalls'[c].answer = "given"
        /\ accessCalls[c].entry.op # "legacy" /\ accessCalls'[c].entry = accessCalls[c].entry
    BY <1>3 DEF Told
  <2>2. CASE c = h.call
    BY <1>5, <1>8, <2>1, <2>2 DEF Waiting
  <2>3. CASE c # h.call
    <3>1. c \in Told
      BY <1>3, <2>1, <2>3 DEF Told
    <3> QED
      BY <1>5, <2>1, <3>1 DEF AnswersInv
  <2> QED
    BY <2>2, <2>3
<1> QED
  BY <1>7, <1>9 DEF AnswersInv

LEMMA AnswersInv_Dropped ==
  ASSUME AccessShape, AnswersInv, AppendFails \/ AccessRestart PROVE AnswersInv'
<1>1. appendQueue' = <<>> /\ accessLedger' = accessLedger
  BY DEF AppendFails, AccessRestart
<1>2. PICK answer \in {"rejected", "lost"} : accessCalls' = Answered(DOMAIN accessCalls, answer)
  BY DEF AppendFails, AccessRestart
<1>3. /\ DOMAIN accessCalls' = DOMAIN accessCalls
      /\ \A c \in DOMAIN accessCalls :
           /\ accessCalls'[c].entry = accessCalls[c].entry
           /\ accessCalls'[c].answer = "given" => accessCalls[c].answer = "given"
  BY <1>2, AnsweredKeeps
<1>4. DOMAIN appendQueue' = {}
  BY <1>1, EmptySeq, LenProperties
<1> QED
  BY <1>1, <1>3, <1>4 DEF AnswersInv, Told

\* Whoever was told that access is granted, other than through the legacy bridge, is in
\* the ledger: for every number of overlapping calls, failed appends and restarts
\* (evaluateAccess, recordDecision).
THEOREM AnswersRecordedHolds == AccessSpec => []AnswersRecorded
<1>1. AccessInit => AnswersInv
  <2>1. DOMAIN <<>> = {}
    BY EmptySeq, LenProperties
  <2> QED
    BY <2>1 DEF AccessInit, AnswersInv, Told
<1>2. AnswersInv => AnswersRecorded
  BY DEF AnswersInv, Told, AnswersRecorded
<1>3. AccessShape /\ AnswersInv /\ [AccessNext]_accessVars => AnswersInv'
  <2> SUFFICES ASSUME AccessShape, AnswersInv, [AccessNext]_accessVars PROVE AnswersInv'
    OBVIOUS
  <2>1. CASE UNCHANGED accessVars \/ Expire
    BY <2>1 DEF accessVars, Expire, AnswersInv, Waiting, Told
  <2> QED
    BY <2>1, NextSteps, AnswersInv_Decided, AnswersInv_Appended, AnswersInv_Dropped
<1> QED
  BY <1>1, <1>2, <1>3, AccessShapeInit, AccessShapeStep, PTL DEF AccessSpec
-----------------------------------------------------------------------------
(* The types, with what the calls leave aside.                              *)

AccessRest ==
  queueBroken \in BOOLEAN /\ transaction \in 0..MaxAccessCalls /\ restarts \in 0..MaxRestarts

LEMMA AccessTypeParts == AccessShape /\ AccessRest => AccessTypeOK
BY DEF AccessShape, AccessRest, AccessTypeOK, TokenList, SessionType, AnswerType

LEMMA AccessRestStep == AccessShape /\ AccessRest /\ [AccessNext]_accessVars => AccessRest'
<1> SUFFICES ASSUME AccessShape, AccessRest, [AccessNext]_accessVars PROVE AccessRest'
  OBVIOUS
<1>1. MaxAccessCalls \in Nat /\ MaxRestarts \in Nat /\ Len(accessCalls) \in Nat
  BY AccessAssumption, LenProperties DEF AccessAssumption, AccessShape
<1>2. ASSUME NEW op, NEW t, NEW allowed, Transaction(op, t, allowed) PROVE AccessRest'
  <2>1. /\ transaction' = IF queueBroken THEN 0 ELSE Len(accessCalls) + 1
        /\ Len(accessCalls) + 1 <= MaxAccessCalls /\ UNCHANGED <<queueBroken, restarts>>
    BY <1>2 DEF Transaction, RecordDecision
  <2>2. transaction' \in 0..MaxAccessCalls
    BY <1>1, <2>1
  <2> QED
    BY <2>1, <2>2, Zenon DEF AccessRest
<1>3. ASSUME NEW op, NEW t, NEW allowed, RecordDecision(op, t, allowed), UNCHANGED transaction PROVE AccessRest'
  BY <1>3 DEF RecordDecision, AccessRest
<1>4. CASE IssueToken
  BY <1>2, <1>4 DEF IssueToken
<1>5. ASSUME NEW op, LifecycleRefused(op, 0) PROVE AccessRest'
  BY <1>2, <1>5 DEF LifecycleRefused
<1>6. ASSUME NEW t, RotateToken(t) \/ RevokeToken(t) PROVE AccessRest'
  BY <1>2, <1>6 DEF RotateToken, RevokeToken
<1>7. ASSUME NEW t, CreateSession(t) \/ Evaluate(t) \/ InvalidateSession(t) PROVE AccessRest'
  BY <1>3, <1>7 DEF CreateSession, Evaluate, InvalidateSession
<1>8. CASE LegacyAccess
  BY <1>3, <1>8 DEF LegacyAccess
<1>9. CASE AppendDecision
  <2>1. transaction' \in {0, transaction} /\ UNCHANGED <<queueBroken, restarts>>
    BY <1>9 DEF AppendDecision
  <2>2. transaction' \in 0..MaxAccessCalls
    BY <1>1, <2>1 DEF AccessRest
  <2> QED
    BY <2>1, <2>2, Zenon DEF AccessRest
<1>10. CASE AppendFails
  BY <1>1, <1>10 DEF AppendFails, AccessRest
<1>11. CASE AccessRestart
  <2>1. restarts' \in 0..MaxRestarts /\ transaction' \in 0..MaxAccessCalls
    BY <1>1, <1>11 DEF AccessRestart, AccessRest
  <2>2. queueBroken' = FALSE
    BY <1>11 DEF AccessRestart
  <2> QED
    BY <2>1, <2>2, Zenon DEF AccessRest
<1>12. CASE Expire \/ UNCHANGED accessVars
  BY <1>12 DEF Expire, accessVars, AccessRest
<1> QED
  BY <1>4, <1>5, <1>6, <1>7, <1>8, <1>9, <1>10, <1>11, <1>12 DEF AccessNext

\* The tokens, the sessions, the ledger and the calls keep their types.
THEOREM AccessTypes == AccessSpec => []AccessTypeOK
<1>1. AccessInit => AccessRest
  <2>1. 0 \in 0..MaxAccessCalls /\ 0 \in 0..MaxRestarts
    BY AccessAssumption DEF AccessAssumption
  <2> QED
    BY <2>1, Zenon DEF AccessInit, AccessRest
<1> QED
  BY <1>1, AccessShapeInit, AccessShapeStep, AccessRestStep, AccessTypeParts, PTL DEF AccessSpec
-----------------------------------------------------------------------------
(* Rotations.                                                               *)

\* A token replaces an earlier one that is revoked and that no other replaces.
RotationInv ==
  \A t \in DOMAIN tokens :
    /\ tokens[t].previous \in 0..(t - 1)
    /\ tokens[t].previous # 0 => tokens[tokens[t].previous].revoked
    /\ \A u \in DOMAIN tokens : tokens[u].previous = tokens[t].previous /\ u # t => tokens[t].previous = 0

LEMMA TokensListed ==
  ASSUME AccessShape
  PROVE  /\ tokens \in Seq(TokenType) /\ Len(tokens) \in Nat /\ DOMAIN tokens = 1..Len(tokens)
         /\ tokens \in [1..Len(tokens) -> TokenType] /\ Len(tokens) <= MaxTokens
BY LenProperties DEF AccessShape, TokenList

\* What becomes of the tokens there were when none is added.
LEMMA RotationKept ==
  ASSUME RotationInv, NEW n \in Nat, DOMAIN tokens = 1..n, DOMAIN tokens' = 1..n, StaysRevoked,
         \A t \in DOMAIN tokens : tokens'[t].previous = tokens[t].previous
  PROVE  RotationInv'
<1> SUFFICES ASSUME NEW t \in DOMAIN tokens
             PROVE  /\ tokens'[t].previous \in 0..(t - 1)
                    /\ tokens'[t].previous # 0 => tokens'[tokens'[t].previous].revoked
                    /\ \A u \in DOMAIN tokens : tokens'[u].previous = tokens'[t].previous /\ u # t
                                                => tokens'[t].previous = 0
  BY DEF RotationInv
<1>1. tokens'[t].previous = tokens[t].previous /\ tokens[t].previous \in 0..(t - 1)
  BY DEF RotationInv
<1>2. tokens[t].previous # 0 => tokens[t].previous \in DOMAIN tokens /\ tokens[tokens[t].previous].revoked
  BY <1>1 DEF RotationInv
<1>3. \A u \in DOMAIN tokens : tokens'[u].previous = tokens'[t].previous /\ u # t => tokens'[t].previous = 0
  BY <1>1 DEF RotationInv
<1> QED
  BY <1>1, <1>2, <1>3 DEF StaysRevoked

\* And when one is.
LEMMA RotationAdded ==
  ASSUME RotationInv, NEW n \in Nat, DOMAIN tokens = 1..n, DOMAIN tokens' = 1..(n + 1), StaysRevoked,
         \A t \in 1..n : tokens'[t].previous = tokens[t].previous,
         \/ tokens'[n + 1].previous = 0
         \/ /\ tokens'[n + 1].previous \in 1..n /\ tokens'[tokens'[n + 1].previous].revoked
            /\ \A t \in 1..n : tokens[t].previous # tokens'[n + 1].previous
  PROVE  RotationInv'
<1> DEFINE old(t) == tokens[t].previous
           new(t) == tokens'[t].previous
<1>1. \A t \in 1..n : new(t) = old(t) /\ old(t) \in 0..(t - 1)
  BY DEF RotationInv
<1>2. new(n + 1) \in 0..n /\ 0 \in 0..n
  OBVIOUS
<1>3. \A t \in 1..(n + 1) : t = n + 1 \/ t \in 1..n
  OBVIOUS
<1>4. \A t \in 1..(n + 1) : new(t) \in 0..(t - 1)
  <2> HIDE DEF old, new
  <2>1. \A t \in 1..n : new(t) \in 0..(t - 1)
    BY <1>1
  <2>2. new(n + 1) \in 0..((n + 1) - 1)
    BY <1>2
  <2> QED
    BY <1>3, <2>1, <2>2
<1>5. \A t \in 1..n : old(t) # 0 => tokens'[old(t)].revoked
  <2>1. \A t \in 1..n : old(t) # 0 => old(t) \in DOMAIN tokens /\ tokens[old(t)].revoked
    <3>1. \A t \in 1..n : old(t) # 0 => tokens[old(t)].revoked
      BY DEF RotationInv
    <3>2. \A t \in 1..n : old(t) # 0 => old(t) \in 1..n
      <4> HIDE DEF old
      <4> QED
        BY <1>1
    <3> HIDE DEF old
    <3> QED
      BY <3>1, <3>2
  <2> HIDE DEF old
  <2> QED
    BY <2>1 DEF StaysRevoked
<1>6. \A t, u \in 1..n : old(u) = old(t) /\ u # t => old(t) = 0
  BY DEF RotationInv
<1>7. \A t \in 1..n : new(n + 1) # 0 => old(t) # new(n + 1)
  OBVIOUS
<1>8. new(n + 1) # 0 => tokens'[new(n + 1)].revoked
  OBVIOUS
<1> HIDE DEF old, new
<1>9. \A t \in 1..(n + 1) : new(t) # 0 => tokens'[new(t)].revoked
  BY <1>1, <1>3, <1>5, <1>8
<1>10. \A t, u \in 1..(n + 1) : new(u) = new(t) /\ u # t => new(t) = 0
  <2>1. \A t, u \in 1..n : new(u) = new(t) /\ u # t => new(t) = 0
    BY <1>1, <1>6
  <2>2. \A t \in 1..n : new(t) = new(n + 1) => new(t) = 0
    BY <1>1, <1>7
  <2> QED
    BY <1>3, <2>1, <2>2
<1> QED
  BY <1>4, <1>9, <1>10 DEF RotationInv, new

LEMMA RotationStep == AccessShape /\ RotationInv /\ [AccessNext]_accessVars => RotationInv'
<1> SUFFICES ASSUME AccessShape, RotationInv, [AccessNext]_accessVars PROVE RotationInv'
  OBVIOUS
<1> DEFINE n == Len(tokens)
<1>1. n \in Nat /\ DOMAIN tokens = 1..n /\ tokens \in [1..n -> TokenType] /\ tokens \in Seq(TokenType)
      /\ n <= MaxTokens /\ MaxTokens \in Nat
  BY TokensListed, NoTokenIsOne
<1>2. CASE UNCHANGED tokens
  BY <1>2 DEF RotationInv
<1>3. CASE IssueToken
  <2>1. PICK request \in TokenRequests : tokens' = Append(tokens, NewToken(request, 0))
    BY <1>3 DEF IssueToken
  <2>2. NewToken(request, 0) \in TokenType /\ NewToken(request, 0).previous = 0
    BY NoTokenIsOne, NewTokenType DEF NewToken
  <2>3. /\ tokens' \in Seq(TokenType) /\ Len(tokens') = n + 1
        /\ \A t \in 1..n : tokens'[t] = tokens[t]
        /\ tokens'[n + 1] = NewToken(request, 0)
    BY <1>1, <2>1, <2>2, AppendProperties
  <2>4. DOMAIN tokens' = 1..(n + 1)
    BY <2>3, LenProperties
  <2>5. StaysRevoked
    BY <1>1, <2>3, <2>4 DEF StaysRevoked
  <2> QED
    BY <1>1, <2>2, <2>3, <2>4, <2>5, RotationAdded
<1>4. ASSUME NEW t \in 1..MaxTokens, RotateToken(t) PROVE RotationInv'
  <2> DEFINE old == [tokens EXCEPT ![t].revoked = TRUE]
             new == NewToken(tokens[t].request, t)
  <2>1. t \in 1..n /\ ~tokens[t].revoked /\ tokens' = Append(old, new)
    BY <1>1, <1>4 DEF RotateToken, ValidateToken, Rotated
  <2>2. /\ old \in Seq(TokenType) /\ Len(old) = n /\ old[t].revoked
        /\ \A u \in 1..n : tokens[u].revoked => old[u].revoked
    BY <1>1, <2>1, RevokedKind DEF TokenList
  <2>3. \A u \in 1..n : old[u].previous = tokens[u].previous
    <3>1. \A u \in 1..n : tokens[u] \in TokenType
      BY <1>1
    <3>2. \A u \in 1..n : [tokens[u] EXCEPT !.revoked = TRUE].previous = tokens[u].previous
      BY <3>1 DEF TokenType
    <3>3. \A u \in 1..n : old[u] = IF u = t THEN [tokens[u] EXCEPT !.revoked = TRUE] ELSE tokens[u]
      BY <1>1
    <3> QED
      BY <3>2, <3>3
  <2>4. new \in TokenType /\ new.previous = t
    <3>1. tokens[t].request \in TokenRequests
      BY <1>1, <2>1 DEF TokenType
    <3> QED
      BY <2>1, <3>1, NoTokenIsOne, NewTokenType DEF NewToken
  <2> HIDE DEF old, new
  <2>5. /\ tokens' \in Seq(TokenType) /\ Len(tokens') = n + 1 /\ tokens'[n + 1] = new
        /\ \A u \in 1..n : tokens'[u] = old[u]
    BY SMTT(30), <2>1, <2>2, <2>4, AppendProperties
  <2>6. DOMAIN tokens' = 1..(n + 1)
    BY <2>5, LenProperties
  <2>7. StaysRevoked
    BY <1>1, <2>2, <2>5, <2>6 DEF StaysRevoked
  <2>8. \A u \in 1..n : tokens[u].previous # t
    BY <1>1, <2>1, NoTokenIsOne DEF RotationInv
  <2>9. \A u \in 1..n : tokens'[u].previous = tokens[u].previous
    BY <2>3, <2>5
  <2>10. tokens'[n + 1].previous = t /\ tokens'[t].revoked
    BY <2>1, <2>2, <2>4, <2>5
  <2>11. /\ tokens'[n + 1].previous \in 1..n /\ tokens'[tokens'[n + 1].previous].revoked
         /\ \A u \in 1..n : tokens[u].previous # tokens'[n + 1].previous
    BY <2>1, <2>8, <2>10
  <2> HIDE DEF n
  <2> QED
    BY <1>1, <2>6, <2>7, <2>9, <2>11, RotationAdded
<1>5. ASSUME NEW t \in 1..n,
             \/ tokens' = [tokens EXCEPT ![t].revoked = TRUE]
             \/ tokens' = [tokens EXCEPT ![t].expired = TRUE]
      PROVE  RotationInv'
  <2>1. \A u \in 1..n : tokens[u] \in TokenType
    BY <1>1
  <2>2. \A u \in 1..n : /\ [tokens[u] EXCEPT !.revoked = TRUE].previous = tokens[u].previous
                        /\ [tokens[u] EXCEPT !.revoked = TRUE].revoked
                        /\ [tokens[u] EXCEPT !.expired = TRUE].previous = tokens[u].previous
                        /\ [tokens[u] EXCEPT !.expired = TRUE].revoked = tokens[u].revoked
    BY <2>1 DEF TokenType
  <2>3. DOMAIN tokens' = 1..n
        /\ \A u \in 1..n : \/ tokens'[u] = tokens[u]
                           \/ tokens'[u] = [tokens[u] EXCEPT !.revoked = TRUE]
                           \/ tokens'[u] = [tokens[u] EXCEPT !.expired = TRUE]
    BY <1>1, <1>5
  <2>4. \A u \in 1..n : tokens'[u].previous = tokens[u].previous /\ (tokens[u].revoked => tokens'[u].revoked)
    BY <2>2, <2>3
  <2>5. StaysRevoked
    BY <1>1, <2>3, <2>4 DEF StaysRevoked
  <2> QED
    BY <1>1, <2>3, <2>4, <2>5, RotationKept
<1>6. ASSUME NEW t, RevokeToken(t) PROVE RotationInv'
  BY <1>1, <1>5, <1>6 DEF RevokeToken
<1>7. CASE Expire
  BY <1>1, <1>2, <1>5, <1>7 DEF Expire
<1>8. ASSUME NEW t, CreateSession(t) \/ Evaluate(t) \/ InvalidateSession(t) PROVE UNCHANGED tokens
  BY <1>8 DEF CreateSession, Evaluate, InvalidateSession
<1>9. ASSUME \/ LegacyAccess \/ AppendDecision \/ AppendFails \/ AccessRestart \/ UNCHANGED accessVars
             \/ \E op : LifecycleRefused(op, 0)
      PROVE  UNCHANGED tokens
  BY <1>9 DEF LegacyAccess, AppendDecision, AppendFails, AccessRestart, accessVars, LifecycleRefused
<1> QED
  BY <1>2, <1>3, <1>4, <1>6, <1>7, <1>8, <1>9 DEF AccessNext
-----------------------------------------------------------------------------
(* The recursion of Origin ends: a token replaces an earlier one.           *)

OriginFrom(f, t) == IF t \notin DOMAIN tokens \/ tokens[t].previous = 0 THEN t ELSE f[tokens[t].previous]

LEMMA OriginExists ==
  ASSUME AccessShape, RotationInv PROVE \E f : f = [t \in 0..MaxTokens |-> OriginFrom(f, t)]
<1> DEFINE Defined(n) == \E f : f = [t \in 0..n |-> OriginFrom(f, t)]
           Without == {n \in 0..MaxTokens : ~Defined(n)}
<1>1. MaxTokens \in Nat /\ DOMAIN tokens = 1..Len(tokens) /\ Len(tokens) \in Nat
  BY TokensListed, NoTokenIsOne
<1>2. \A t \in DOMAIN tokens : t \in Nat /\ tokens[t].previous \in 0..(t - 1)
  BY <1>1 DEF RotationInv
<1>3. Defined(0)
  <2>1. 0 \notin DOMAIN tokens
    BY <1>1
  <2> DEFINE f == [t \in 0..0 |-> t]
  <2>2. f = [t \in 0..0 |-> OriginFrom(f, t)]
    BY <2>1 DEF OriginFrom
  <2> QED
    BY <2>2
<1>4. ASSUME NEW n \in 1..MaxTokens, Defined(n - 1) PROVE Defined(n)
  <2>1. PICK f : f = [t \in 0..(n - 1) |-> OriginFrom(f, t)]
    BY <1>4
  <2> DEFINE g == [t \in 0..n |-> IF t = n THEN OriginFrom(f, n) ELSE f[t]]
  <2>2. \A t \in 0..n : t \in DOMAIN tokens => tokens[t].previous \in 0..(n - 1)
    BY <1>2
  <2>3. \A t \in 0..(n - 1) : g[t] = f[t]
    OBVIOUS
  <2>4. \A t \in 0..n : OriginFrom(g, t) = OriginFrom(f, t)
    <3> HIDE DEF g
    <3> QED
      BY <2>2, <2>3 DEF OriginFrom
  <2>5. \A t \in 0..(n - 1) : f[t] = OriginFrom(f, t)
    BY <2>1
  <2>6. \A t \in 0..n : g[t] = OriginFrom(g, t)
    BY <2>4, <2>5
  <2>7. g = [t \in 0..n |-> OriginFrom(g, t)]
    BY <2>6
  <2> QED
    BY <2>7
<1> HIDE DEF Defined
<1>5. Without = {}
  <2> SUFFICES ASSUME Without # {} PROVE FALSE
    OBVIOUS
  <2>1. Without \subseteq Nat
    BY <1>1
  <2>2. \E n \in Without : \A m \in Without : n <= m
    <3> HIDE DEF Without
    <3> QED
      BY <2>1, LeastNumber
  <2>3. PICK n \in Without : \A m \in Without : n <= m
    BY <2>2
  <2>4. n \in 1..MaxTokens /\ n - 1 \in 0..MaxTokens /\ ~Defined(n)
    BY <1>1, <1>3, <2>3
  <2>5. n - 1 \notin Without
    BY <2>3, <2>4
  <2> QED
    BY <1>4, <2>4, <2>5
<1>6. Defined(MaxTokens)
  BY <1>1, <1>5
<1> QED
  BY <1>6 DEF Defined

LEMMA OriginEquation ==
  ASSUME AccessShape, RotationInv PROVE \A t \in 0..MaxTokens : Origin[t] = OriginFrom(Origin, t)
<1> DEFINE Step1(f) == [t \in 0..MaxTokens |->
                          IF t \notin DOMAIN tokens \/ tokens[t].previous = 0 THEN t ELSE f[tokens[t].previous]]
<1>1. Origin = CHOOSE f : f = Step1(f)
  BY DEF Origin
<1>2. \E f : f = Step1(f)
  BY OriginExists DEF OriginFrom
<1>3. Origin = Step1(Origin)
  BY <1>1, <1>2
<1> QED
  BY <1>3 DEF OriginFrom

\* No token is older than the one its chain began with.
LEMMA OriginIsEarlier ==
  ASSUME AccessShape, RotationInv PROVE \A t \in DOMAIN tokens : Origin[t] \in 0..t
<1> DEFINE Out == {t \in DOMAIN tokens : Origin[t] \notin 0..t}
<1> SUFFICES ASSUME Out # {} PROVE FALSE
  OBVIOUS
<1>1. MaxTokens \in Nat /\ DOMAIN tokens = 1..Len(tokens) /\ Len(tokens) \in Nat /\ Len(tokens) <= MaxTokens
  BY TokensListed, NoTokenIsOne
<1>2. \E t \in Out : \A u \in Out : t <= u
  <2>1. Out \subseteq Nat
    BY <1>1
  <2> HIDE DEF Out
  <2> QED
    BY <2>1, LeastNumber
<1>3. PICK t \in Out : \A u \in Out : t <= u
  BY <1>2
<1>4. t \in DOMAIN tokens /\ t \in 0..MaxTokens /\ t \in Nat /\ Origin[t] \notin 0..t
  BY <1>1, <1>3
<1> DEFINE p == tokens[t].previous
<1>5. p \in 0..(t - 1) /\ (p # 0 => p \in DOMAIN tokens)
  BY <1>1, <1>4 DEF RotationInv
<1>6. Origin[t] = IF p = 0 THEN t ELSE Origin[p]
  BY <1>4, OriginEquation DEF OriginFrom
<1>7. p # 0 => p \notin Out
  <2> HIDE DEF p, Out
  <2> QED
    BY <1>3, <1>4, <1>5
<1>8. p # 0 => Origin[p] \in 0..p
  BY <1>5, <1>7
<1> HIDE DEF p
<1> QED
  BY <1>4, <1>5, <1>6, <1>8

\* Of two tokens of one chain the earlier one has been replaced, by the later one at
\* the latest.
LEMMA ChainGoesOn ==
  ASSUME AccessShape, RotationInv
  PROVE  \A u \in DOMAIN tokens : \A t \in DOMAIN tokens :
           t < u /\ Origin[t] = Origin[u] => \E s \in (t + 1)..u : tokens[s].previous = t
<1> DEFINE Goes(u) == \A t \in DOMAIN tokens :
             t < u /\ Origin[t] = Origin[u] => \E s \in (t + 1)..u : tokens[s].previous = t
           Out == {u \in DOMAIN tokens : ~Goes(u)}
<1> SUFFICES ASSUME Out # {} PROVE FALSE
  OBVIOUS
<1>1. MaxTokens \in Nat /\ DOMAIN tokens = 1..Len(tokens) /\ Len(tokens) \in Nat /\ Len(tokens) <= MaxTokens
  BY TokensListed, NoTokenIsOne
<1>2. PICK u \in Out : \A v \in Out : u <= v
  <2>1. Out \subseteq Nat
    BY <1>1
  <2> HIDE DEF Out
  <2> QED
    BY <2>1, LeastNumber
<1>3. \A v \in DOMAIN tokens : v < u => Goes(v)
  <2> HIDE DEF Goes
  <2>1. u \in Nat
    BY <1>1, <1>2
  <2>2. \A v \in DOMAIN tokens : v < u => v \notin Out
    <3> HIDE DEF Out
    <3> QED
      BY <1>1, <1>2, <2>1
  <2> QED
    BY <2>2
<1>4. PICK t \in DOMAIN tokens : /\ t < u /\ Origin[t] = Origin[u]
                                 /\ \A s \in (t + 1)..u : tokens[s].previous # t
  BY <1>2
<1>5. u \in DOMAIN tokens /\ u \in 0..MaxTokens /\ u \in Nat /\ t \in Nat
  BY <1>1, <1>2, <1>4
<1> DEFINE p == tokens[u].previous
<1>6. p \in 0..(u - 1) /\ p # t /\ (p # 0 => p \in DOMAIN tokens)
  BY <1>1, <1>4, <1>5 DEF RotationInv
<1>7. Origin[u] = IF p = 0 THEN u ELSE Origin[p]
  BY <1>5, OriginEquation DEF OriginFrom
<1>8. Origin[t] \in 0..t
  BY <1>4, OriginIsEarlier
<1>9. p # 0 /\ Origin[p] = Origin[t] /\ p \in DOMAIN tokens
  <2> HIDE DEF p
  <2> QED
    BY <1>4, <1>5, <1>6, <1>7, <1>8
<1>10. CASE t < p
  <2>1. \E s \in (t + 1)..p : tokens[s].previous = t
    <3>1. Goes(p)
      <4> HIDE DEF p, Goes
      <4> QED
        BY <1>3, <1>5, <1>6, <1>9
    <3> HIDE DEF p
    <3> QED
      BY <1>4, <1>9, <1>10, <3>1
  <2> HIDE DEF p
  <2> QED
    BY <1>4, <1>5, <1>6, <2>1
<1>11. CASE p < t
  <2>1. Goes(t)
    <3> HIDE DEF Goes
    <3> QED
      BY <1>3, <1>4
  <2>2. PICK s \in (p + 1)..t : tokens[s].previous = p
    <3> HIDE DEF p
    <3> QED
      BY <1>9, <1>11, <2>1
  <2>3. s \in DOMAIN tokens /\ s # u
    <3> HIDE DEF p
    <3> QED
      BY <1>1, <1>4, <1>5, <1>6, <2>2
  <2> QED
    BY <1>5, <1>9, <2>2, <2>3 DEF RotationInv
<1> HIDE DEF p
<1> QED
  BY <1>5, <1>6, <1>10, <1>11

\* Of the tokens that replaced one another at most one is not revoked, in whatever order
\* they are rotated, revoked and expire: for every number of tokens (rotateToken).
THEOREM OneSuccessorHolds == AccessSpec => []OneSuccessor
<1>1. AccessInit => RotationInv
  BY DEF AccessInit, RotationInv
<1>2. AccessShape /\ RotationInv => OneSuccessor
  <2> SUFFICES ASSUME AccessShape, RotationInv,
                      NEW t \in DOMAIN tokens, NEW u \in DOMAIN tokens,
                      Origin[t] = Origin[u], ~tokens[t].revoked, ~tokens[u].revoked
               PROVE  t = u
    BY DEF OneSuccessor
  <2>1. DOMAIN tokens = 1..Len(tokens) /\ Len(tokens) \in Nat
    BY TokensListed
  <2>2. ASSUME NEW a \in DOMAIN tokens, NEW b \in DOMAIN tokens, a < b, Origin[a] = Origin[b]
        PROVE  tokens[a].revoked
    <3>1. PICK s \in (a + 1)..b : tokens[s].previous = a
      BY <2>2, ChainGoesOn
    <3>2. s \in DOMAIN tokens /\ a # 0
      BY <2>1, <3>1
    <3> QED
      BY <3>1, <3>2 DEF RotationInv
  <2>3. ~(t < u) /\ ~(u < t)
    BY <2>2
  <2> QED
    BY <2>1, <2>3
<1> QED
  BY <1>1, <1>2, AccessShapeInit, AccessShapeStep, RotationStep, PTL DEF AccessSpec

-----------------------------------------------------------------------------
(* Operations on a token: OperatorActions.                                   *)

-----------------------------------------------------------------------------
(* Types.                                                                   *)

OperatorOps == Gated \union Escalations \union {"none"}
OperatorStages == {"idle", "checking", "executing", "recording", "answered", "thrown", "lost"}
OperatorResults == {"none", "rejected", "recorded", "applied", "simulated", "failed"}
OperatorKinds == {"override", "decision", "alert.routed", "incident.escalated", "incident.escalation_ack",
                  "alert.acknowledged"}
OperatorCallType == [op : OperatorOps, token : ApprovalTokens \union {NoToken}, pc : OperatorStages, result : OperatorResults,
                     todo : Seq(OperatorKinds)]

OperatorShape ==
  /\ calls \in [Calls -> OperatorCallType]
  /\ approvals \in [ApprovalTokens -> {"issued", "consumed", "gone"}]

Two(a, b) ==
  /\ Head(<<a, b>>) = a /\ Tail(<<a, b>>) = <<b>> /\ Len(<<a, b>>) = 2
  /\ Head(<<b>>) = b /\ Tail(<<b>>) = <<>> /\ Len(<<b>>) = 1 /\ <<a, b>> # <<b>> /\ <<b>> # <<>>
  /\ <<a, b>> \in Seq(OperatorKinds) /\ <<b>> \in Seq(OperatorKinds) /\ <<>> \in Seq(OperatorKinds)

LEMMA LongerThanNone == ASSUME NEW q, Len(q) # 0 PROVE q # <<>>
<1>1. Len(<<>>) = 0
  BY EmptySeq
<1>2. SUFFICES ASSUME q = <<>> PROVE FALSE
  OBVIOUS
<1>3. Len(q) = Len(<<>>)
  BY <1>2
<1> QED
  BY <1>1, <1>3

LEMMA TailOfOne ==
  ASSUME NEW q \in Seq(OperatorKinds), Len(q) = 1
  PROVE  Tail(q) = <<>>
<1>0. Len(q) # 0
  OBVIOUS
<1>1. q # <<>>
  BY <1>0, LongerThanNone
<1>2. Tail(q) \in Seq(OperatorKinds) /\ Len(Tail(q)) = Len(q) - 1
  BY <1>1, HeadTailProperties
<1>3. Len(Tail(q)) = 0
  BY <1>2
<1> QED
  BY <1>2, <1>3, EmptySeq

LEMMA SameOne ==
  ASSUME NEW q \in Seq(OperatorKinds), NEW r \in Seq(OperatorKinds), Len(q) = 1, Len(r) = 1, q[1] = r[1]
  PROVE  q = r
<1>1. \A i \in 1..Len(q) : q[i] = r[i]
  <2> SUFFICES ASSUME NEW i \in 1..Len(q) PROVE q[i] = r[i]
    OBVIOUS
  <2>1. i = 1
    OBVIOUS
  <2> QED
    BY <2>1
<1> QED
  BY <1>1, SeqEqual

LEMMA TailOfTwo ==
  ASSUME NEW q \in Seq(OperatorKinds), Len(q) = 2, NEW r \in Seq(OperatorKinds), Len(r) = 1, r[1] = q[2]
  PROVE  Tail(q) = r
<1>1. q # <<>>
  <2>1. 2 # 0
    OBVIOUS
  <2>2. Len(q) # 0
    BY <2>1, Zenon
  <2> QED
    BY <2>2, LongerThanNone, Zenon
<1>2. Tail(q) \in Seq(OperatorKinds) /\ Len(Tail(q)) = Len(q) - 1
  BY <1>1, HeadTailProperties
<1>3. Len(Tail(q)) = 1
  BY <1>2
<1>4. Tail(q)[1] = q[1 + 1]
  <2>1. 1 \in 1..Len(Tail(q))
    BY <1>3
  <2> QED
    BY <1>1, <2>1, HeadTailProperties
<1>5. Tail(q)[1] = r[1]
  <2>1. 1 + 1 = 2
    OBVIOUS
  <2> QED
    BY <1>4, <2>1
<1> QED
  BY <1>2, <1>3, <1>5, SameOne

LEMMA TwoRecords == ASSUME NEW a \in OperatorKinds, NEW b \in OperatorKinds PROVE Two(a, b)
<1>1. <<a, b>> \in Seq(OperatorKinds) /\ <<b>> \in Seq(OperatorKinds) /\ <<>> \in Seq(OperatorKinds)
  OBVIOUS
<1>2. Len(<<a, b>>) = 2 /\ Len(<<b>>) = 1 /\ <<b>>[1] = <<a, b>>[2] /\ Len(<<>>) = 0
  OBVIOUS
<1>3. <<a, b>> # <<b>> /\ <<b>> # <<>> /\ <<a, b>> # <<>>
  BY <1>2
<1>4. Head(<<a, b>>) = a /\ Head(<<b>>) = b
  OBVIOUS
<1>5. Tail(<<a, b>>) = <<b>>
  BY <1>1, <1>2, TailOfTwo
<1>6. Tail(<<b>>) = <<>>
  BY <1>1, <1>2, TailOfOne
<1> QED
  BY <1>1, <1>2, <1>3, <1>4, <1>5, <1>6 DEF Two

First(op) == Records(op)[1]
Second(op) == Records(op)[2]

LEMMA RecordsOfAnOperation ==
  ASSUME NEW op
  PROVE  /\ Records(op) = <<First(op), Second(op)>> /\ First(op) # Second(op)
         /\ Second(op) # "override" /\ Two(First(op), Second(op))
<1>1. CASE op \in Gated
  <2>1. Records(op) = <<"override", "decision">>
    BY <1>1 DEF Records
  <2>2. First(op) = "override" /\ Second(op) = "decision"
    BY <2>1 DEF First, Second
  <2>3. Two("override", "decision")
    BY TwoRecords DEF OperatorKinds
  <2>4. "override" # "decision" /\ "decision" # "override"
    OBVIOUS
  <2> QED
    BY <2>1, <2>2, <2>3, <2>4
<1>2. CASE op \notin Gated /\ op = "escalate"
  <2>1. Records(op) = <<"alert.routed", "incident.escalated">>
    BY <1>2 DEF Records
  <2>2. First(op) = "alert.routed" /\ Second(op) = "incident.escalated"
    BY <2>1 DEF First, Second
  <2>3. Two("alert.routed", "incident.escalated")
    BY TwoRecords DEF OperatorKinds
  <2>4. "alert.routed" # "incident.escalated" /\ "incident.escalated" # "override"
    OBVIOUS
  <2> QED
    BY <2>1, <2>2, <2>3, <2>4
<1>3. CASE op \notin Gated /\ op # "escalate"
  <2>1. Records(op) = <<"incident.escalation_ack", "alert.acknowledged">>
    BY <1>3 DEF Records
  <2>2. First(op) = "incident.escalation_ack" /\ Second(op) = "alert.acknowledged"
    BY <2>1 DEF First, Second
  <2>3. Two("incident.escalation_ack", "alert.acknowledged")
    BY TwoRecords DEF OperatorKinds
  <2>4. "incident.escalation_ack" # "alert.acknowledged" /\ "alert.acknowledged" # "override"
    OBVIOUS
  <2> QED
    BY <2>1, <2>2, <2>3, <2>4
<1> QED
  BY <1>1, <1>2, <1>3

LEMMA MoveKeepsShape ==
  ASSUME OperatorShape, NEW c \in Calls, NEW pc \in OperatorStages, Become(c, pc)
  PROVE  /\ calls' \in [Calls -> OperatorCallType]
         /\ \A d \in Calls : d # c => calls'[d] = calls[d]
         /\ calls'[c] = [calls[c] EXCEPT !.pc = pc] /\ calls'[c].pc = pc
         /\ calls'[c].op = calls[c].op /\ calls'[c].token = calls[c].token
         /\ calls'[c].result = calls[c].result /\ calls'[c].todo = calls[c].todo
<1>1. calls[c] \in OperatorCallType /\ calls' = [calls EXCEPT ![c] = [calls[c] EXCEPT !.pc = pc]]
  BY DEF OperatorShape, Become
<1>2. /\ [calls[c] EXCEPT !.pc = pc] \in OperatorCallType
      /\ [calls[c] EXCEPT !.pc = pc].pc = pc
      /\ [calls[c] EXCEPT !.pc = pc].op = calls[c].op
      /\ [calls[c] EXCEPT !.pc = pc].token = calls[c].token
      /\ [calls[c] EXCEPT !.pc = pc].result = calls[c].result
      /\ [calls[c] EXCEPT !.pc = pc].todo = calls[c].todo
  BY <1>1 DEF OperatorCallType
<1> QED
  BY <1>1, <1>2 DEF OperatorShape

LEMMA RecordingType ==
  ASSUME NEW op \in OperatorOps, NEW token \in ApprovalTokens \union {NoToken}, NEW result \in OperatorResults
  PROVE  Recording(op, token, result) \in OperatorCallType
<1>1. Records(op) \in Seq(OperatorKinds)
  BY RecordsOfAnOperation DEF Two
<1> QED
  BY <1>1 DEF Recording, OperatorCallType, OperatorStages

\* The effect of a call, and the call that goes on to record it.
LEMMA EffectTaken ==
  ASSUME OperatorShape, NEW c \in Calls, NEW outcome \in {"applied", "failed", "simulated"},
         TakeEffect(c, outcome)
  PROVE  /\ calls' \in [Calls -> OperatorCallType]
         /\ \A d \in Calls : d # c => calls'[d] = calls[d]
         /\ calls'[c] = Recording(calls[c].op, calls[c].token, outcome)
         /\ \/ UNCHANGED effects
            \/ effects' = effects \union {[call |-> c, token |-> calls[c].token, op |-> calls[c].op]}
<1>1. calls[c].op \in OperatorOps /\ calls[c].token \in ApprovalTokens \union {NoToken} /\ outcome \in OperatorResults
  BY DEF OperatorShape, OperatorCallType, OperatorResults
<1>2. Recording(calls[c].op, calls[c].token, outcome) \in OperatorCallType
  BY <1>1, RecordingType
<1> QED
  BY <1>2 DEF TakeEffect, OperatorShape

\* The two ways in which a restore, a runbook or an update goes on.
LEMMA EffectSteps ==
  ASSUME OperatorShape, NEW c \in Calls, ReadState(c) \/ Execute(c) \/ ApplyKnownGoodManifest(c)
  PROVE  /\ calls[c].pc \in {"checking", "executing"} /\ UNCHANGED <<approvals, overrides, opDecisions>>
         /\ \/ \E outcome \in {"applied", "failed", "simulated"} : TakeEffect(c, outcome)
            \/ Become(c, "thrown")
               /\ (\/ UNCHANGED effects
                   \/ effects' = effects \union {[call |-> c, token |-> calls[c].token, op |-> "update"]}
                      /\ calls[c].op = "update")
            \/ Become(c, "executing") /\ UNCHANGED effects
BY DEF ReadState, Execute, ApplyKnownGoodManifest, Outcomes

\* The beginning of a call that is recorded at once.
LEMMA BeginSteps ==
  ASSUME OperatorShape, NEW c \in Calls, Reject(c) \/ Escalate(c)
  PROVE  /\ calls[c].pc = "idle" /\ calls' \in [Calls -> OperatorCallType]
         /\ \A d \in Calls : d # c => calls'[d] = calls[d]
         /\ \E op \in Gated \union Escalations, result \in {"rejected", "recorded"} :
              calls'[c] = Recording(op, NoToken, result)
         /\ UNCHANGED <<approvals, effects, overrides, opDecisions, operatorSwitch, openTo>>
<1>1. PICK op \in Gated \union Escalations, result \in {"rejected", "recorded"} :
        calls' = [calls EXCEPT ![c] = Recording(op, NoToken, result)]
  BY DEF Reject, Escalate
<1>2. Recording(op, NoToken, result) \in OperatorCallType
  BY RecordingType DEF OperatorOps, OperatorResults
<1>3. calls' \in [Calls -> OperatorCallType] /\ calls'[c] = Recording(op, NoToken, result)
      /\ \A d \in Calls : d # c => calls'[d] = calls[d]
  BY <1>1, <1>2 DEF OperatorShape
<1> QED
  BY <1>3 DEF Reject, Escalate

LEMMA ApproveStep ==
  ASSUME OperatorShape, NEW c \in Calls, NEW t \in ApprovalTokens, NEW op \in Gated, Approve(c, t, op)
  PROVE  /\ calls[c].pc = "idle" /\ calls' \in [Calls -> OperatorCallType]
         /\ \A d \in Calls : d # c => calls'[d] = calls[d]
         /\ calls'[c].op = op /\ calls'[c].token = t /\ calls'[c].pc = "checking"
         /\ calls'[c].result = "none" /\ calls'[c].todo = <<>>
         /\ approvals[t] = "issued" /\ approvals' = [approvals EXCEPT ![t] = "consumed"]
         /\ TokenScope[t] = op /\ openTo' \in {openTo, openTo \union {c}}
         /\ UNCHANGED <<effects, overrides, opDecisions, operatorSwitch>>
<1> DEFINE new == [OperatorIdle EXCEPT !.op = op, !.token = t, !.pc = "checking"]
<1>1. <<>> \in Seq(OperatorKinds)
  BY EmptySeq
<1>2. /\ new \in OperatorCallType /\ new.op = op /\ new.token = t /\ new.pc = "checking"
      /\ new.result = "none" /\ new.todo = <<>>
  BY <1>1 DEF OperatorIdle, OperatorCallType, OperatorOps, OperatorStages, OperatorResults
<1>3. calls' = [calls EXCEPT ![c] = new]
  BY DEF Approve
<1> HIDE DEF new
<1>4. calls' \in [Calls -> OperatorCallType] /\ calls'[c] = new /\ \A d \in Calls : d # c => calls'[d] = calls[d]
  BY <1>2, <1>3 DEF OperatorShape
<1> QED
  BY <1>2, <1>4 DEF Approve, ConsumeApprovalToken

\* A record that is written takes the next one off the list.
LEMMA RemainingMoves ==
  ASSUME OperatorShape, NEW c \in Calls, calls[c].pc = "recording", calls[c].todo # <<>>, Remaining(c)
  PROVE  /\ calls' \in [Calls -> OperatorCallType]
         /\ \A d \in Calls : d # c => calls'[d] = calls[d]
         /\ calls'[c].todo = Tail(calls[c].todo)
         /\ calls'[c].pc = IF Len(calls[c].todo) = 1 THEN "answered" ELSE "recording"
         /\ calls'[c].op = calls[c].op /\ calls'[c].token = calls[c].token
         /\ calls'[c].result = calls[c].result
<1> DEFINE pc == IF Len(calls[c].todo) = 1 THEN "answered" ELSE "recording"
           new == [calls[c] EXCEPT !.todo = Tail(@), !.pc = pc]
<1>1. calls[c] \in OperatorCallType /\ pc \in OperatorStages
  BY DEF OperatorShape, OperatorStages
<1>2. Tail(calls[c].todo) \in Seq(OperatorKinds)
  BY <1>1, HeadTailProperties DEF OperatorCallType
<1>3. calls' = [calls EXCEPT ![c] = new]
  BY <1>1 DEF Remaining, OperatorCallType
<1> HIDE DEF pc
<1>4. /\ new \in OperatorCallType /\ new.todo = Tail(calls[c].todo) /\ new.pc = pc
      /\ new.op = calls[c].op /\ new.token = calls[c].token /\ new.result = calls[c].result
  BY <1>1, <1>2 DEF OperatorCallType
<1> HIDE DEF new
<1>5. calls' \in [Calls -> OperatorCallType] /\ calls'[c] = new /\ \A d \in Calls : d # c => calls'[d] = calls[d]
  BY <1>3, <1>4 DEF OperatorShape
<1> QED
  BY <1>4, <1>5 DEF pc

LEMMA RestartMoves ==
  ASSUME OperatorShape, OperatorRestart
  PROVE  /\ OperatorShape'
         /\ \A d \in Calls :
              \/ calls'[d] = calls[d] /\ calls[d].pc \notin {"checking", "executing", "recording"}
              \/ /\ calls[d].pc \in {"checking", "executing", "recording"} /\ calls'[d].pc = "lost"
                 /\ calls'[d].op = calls[d].op /\ calls'[d].result = calls[d].result
                 /\ calls'[d].todo = calls[d].todo
         /\ \A t \in ApprovalTokens : approvals[t] = "consumed" => approvals'[t] = "consumed"
         /\ UNCHANGED <<effects, overrides, opDecisions>>
<1>1. \A d \in Calls :
        LET new == [calls[d] EXCEPT !.pc = "lost"] IN
        /\ new \in OperatorCallType /\ new.pc = "lost" /\ new.op = calls[d].op
        /\ new.result = calls[d].result /\ new.todo = calls[d].todo
  BY DEF OperatorShape, OperatorCallType, OperatorStages
<1>2. approvals' \in [ApprovalTokens -> {"issued", "consumed", "gone"}]
      /\ \A t \in ApprovalTokens : approvals[t] = "consumed" => approvals'[t] = "consumed"
  BY DEF OperatorShape, OperatorRestart
<1>3. calls' \in [Calls -> OperatorCallType]
  BY <1>1 DEF OperatorRestart, OperatorShape
<1> QED
  BY <1>1, <1>2, <1>3 DEF OperatorRestart, OperatorShape

LEMMA ExpiryKeeps ==
  ASSUME OperatorShape, NEW t \in ApprovalTokens, TokenExpires(t)
  PROVE  /\ OperatorShape' /\ UNCHANGED <<calls, effects, overrides, opDecisions>>
         /\ \A u \in ApprovalTokens : approvals[u] = "consumed" => approvals'[u] = "consumed"
BY DEF TokenExpires, OperatorShape

\* The records are the only steps after the effect.
OperatorRecordSteps(c) == RecordOverride(c) \/ OperatorRecordDecision(c) \/ RecordFails(c)

\* A call that records has something left to record.
TodoInv == \A c \in Calls : calls[c].pc = "recording" =>
             \/ calls[c].todo = <<First(calls[c].op), Second(calls[c].op)>>
             \/ calls[c].todo = <<Second(calls[c].op)>>

LEMMA TodoNotEmpty ==
  ASSUME TodoInv, NEW c \in Calls, calls[c].pc = "recording" PROVE calls[c].todo # <<>>
<1>1. Two(First(calls[c].op), Second(calls[c].op))
  BY RecordsOfAnOperation
<1>2. <<First(calls[c].op), Second(calls[c].op)>> # <<>>
  OBVIOUS
<1> QED
  BY <1>1, <1>2 DEF TodoInv, Two

LEMMA RecordMoves ==
  ASSUME OperatorShape, TodoInv, NEW c \in Calls, OperatorRecordSteps(c)
  PROVE  /\ OperatorShape' /\ calls[c].pc = "recording" /\ UNCHANGED <<approvals, effects, operatorSwitch, openTo>>
         /\ \A d \in Calls : d # c => calls'[d] = calls[d]
         /\ calls'[c].pc \in {"recording", "answered", "thrown"}
         /\ calls'[c].op = calls[c].op /\ calls'[c].result = calls[c].result
<1>1. calls[c].pc = "recording" /\ UNCHANGED <<approvals, effects, operatorSwitch, openTo>>
  BY DEF OperatorRecordSteps, RecordOverride, OperatorRecordDecision, RecordFails
<1>2. CASE Remaining(c)
  BY <1>1, <1>2, TodoNotEmpty, RemainingMoves DEF OperatorShape
<1>3. CASE Become(c, "thrown")
  BY <1>1, <1>3, MoveKeepsShape DEF OperatorShape, OperatorStages
<1> QED
  BY <1>2, <1>3 DEF OperatorRecordSteps, RecordOverride, OperatorRecordDecision, RecordFails

LEMMA TodoStep == OperatorShape /\ TodoInv /\ [OperatorNext]_operatorVars => TodoInv'
<1> SUFFICES ASSUME OperatorShape, TodoInv, [OperatorNext]_operatorVars, NEW d \in Calls, calls'[d].pc = "recording"
             PROVE  \/ calls'[d].todo = <<First(calls'[d].op), Second(calls'[d].op)>>
                    \/ calls'[d].todo = <<Second(calls'[d].op)>>
  BY DEF TodoInv
<1>1. CASE calls'[d] = calls[d]
  BY <1>1 DEF TodoInv
<1>2. CASE UNCHANGED operatorVars
  BY <1>1, <1>2 DEF operatorVars
<1>3. ASSUME NEW op, NEW token, NEW result, calls'[d] = Recording(op, token, result)
      PROVE  calls'[d].todo = <<First(calls'[d].op), Second(calls'[d].op)>>
  BY <1>3, RecordsOfAnOperation DEF Recording
<1>4. ASSUME NEW c \in Calls, Reject(c) \/ Escalate(c) PROVE calls'[d] = calls[d] \/ d = c
  BY <1>4, BeginSteps
<1>5. CASE Reject(d) \/ Escalate(d)
  BY <1>3, <1>5, BeginSteps
<1>6. ASSUME NEW c \in Calls, NEW t \in ApprovalTokens, NEW op \in Gated, Approve(c, t, op)
      PROVE  calls'[d] = calls[d]
  BY <1>6, ApproveStep
<1>7. ASSUME NEW c \in Calls, ReadState(c) \/ Execute(c) \/ ApplyKnownGoodManifest(c)
      PROVE  calls'[d] = calls[d] \/ calls'[d].todo = <<First(calls'[d].op), Second(calls'[d].op)>>
  <2>1. CASE \E outcome \in {"applied", "failed", "simulated"} : TakeEffect(c, outcome)
    BY <1>3, <2>1, EffectTaken
  <2>2. CASE Become(c, "thrown") \/ Become(c, "executing")
    BY <2>2, MoveKeepsShape DEF OperatorStages
  <2> QED
    BY <1>7, <2>1, <2>2, EffectSteps
<1>8. ASSUME NEW c \in Calls, OperatorRecordSteps(c)
      PROVE  calls'[d] = calls[d] \/ calls'[d].todo = <<Second(calls'[d].op)>>
  <2>1. CASE d # c
    BY <1>8, <2>1, RecordMoves
  <2>2. CASE d = c
    <3>1. Remaining(c) /\ calls[c].pc = "recording"
      <4>1. ~Become(c, "thrown")
        BY <2>2, MoveKeepsShape DEF OperatorStages
      <4> QED
        BY <1>8, <4>1 DEF OperatorRecordSteps, RecordOverride, OperatorRecordDecision, RecordFails
    <3>2. /\ calls'[c].todo = Tail(calls[c].todo) /\ calls'[c].op = calls[c].op
          /\ Len(calls[c].todo) # 1
      BY <2>2, <3>1, TodoNotEmpty, RemainingMoves
    <3>3. calls[c].todo = <<First(calls[c].op), Second(calls[c].op)>>
      BY <3>1, <3>2, RecordsOfAnOperation DEF TodoInv, Two
    <3> QED
      BY <2>2, <3>2, <3>3, RecordsOfAnOperation DEF Two
  <2> QED
    BY <2>1, <2>2
<1>9. CASE OperatorRestart
  BY <1>1, <1>9, RestartMoves
<1>10. CASE OperatorSetKillSwitch \/ (\E t \in ApprovalTokens : TokenExpires(t))
  BY <1>1, <1>10 DEF OperatorSetKillSwitch, TokenExpires
<1> QED
  BY <1>1, <1>2, <1>4, <1>5, <1>6, <1>7, <1>8, <1>9, <1>10 DEF OperatorNext, OperatorRecordSteps

LEMMA OperatorShapeStep == OperatorShape /\ TodoInv /\ [OperatorNext]_operatorVars => OperatorShape'
<1> SUFFICES ASSUME OperatorShape, TodoInv, [OperatorNext]_operatorVars PROVE OperatorShape'
  OBVIOUS
<1>1. CASE UNCHANGED operatorVars \/ OperatorSetKillSwitch
  BY <1>1 DEF operatorVars, OperatorShape, OperatorSetKillSwitch
<1>2. ASSUME NEW c \in Calls, Reject(c) \/ Escalate(c) PROVE OperatorShape'
  BY <1>2, BeginSteps DEF OperatorShape
<1>3. ASSUME NEW c \in Calls, NEW t \in ApprovalTokens, NEW op \in Gated, Approve(c, t, op)
      PROVE  OperatorShape'
  BY <1>3, ApproveStep DEF OperatorShape
<1>4. ASSUME NEW c \in Calls, ReadState(c) \/ Execute(c) \/ ApplyKnownGoodManifest(c)
      PROVE  OperatorShape'
  <2>1. CASE \E outcome \in {"applied", "failed", "simulated"} : TakeEffect(c, outcome)
    BY <1>4, <2>1, EffectTaken, EffectSteps DEF OperatorShape
  <2>2. CASE Become(c, "thrown") \/ Become(c, "executing")
    BY <1>4, <2>2, MoveKeepsShape, EffectSteps DEF OperatorShape, OperatorStages
  <2> QED
    BY <1>4, <2>1, <2>2, EffectSteps
<1>5. ASSUME NEW c \in Calls, OperatorRecordSteps(c) PROVE OperatorShape'
  BY <1>5, RecordMoves
<1> QED
  BY <1>1, <1>2, <1>3, <1>4, <1>5, RestartMoves, ExpiryKeeps DEF OperatorNext, OperatorRecordSteps

LEMMA OperatorShapeInit == OperatorInit => OperatorShape /\ TodoInv
<1>1. <<>> \in Seq(OperatorKinds)
  BY EmptySeq
<1> QED
  BY <1>1 DEF OperatorInit, OperatorShape, TodoInv, OperatorIdle, OperatorCallType, OperatorOps, OperatorStages, OperatorResults
-----------------------------------------------------------------------------
(* Effects.                                                                 *)

Acting(c) == calls[c].pc \in {"checking", "executing"}
Past == {"recording", "answered", "thrown", "lost"}

\* A call that acts has a consumed token of its own, for what it does.
Owns(c) ==
  /\ calls[c].token \in ApprovalTokens /\ approvals[calls[c].token] = "consumed"
  /\ TokenScope[calls[c].token] = calls[c].op /\ calls[c].op \in Gated /\ calls[c].result = "none"
  /\ \A e \in effects : e.token # calls[c].token
Authorized(e) ==
  /\ e.call \in Calls /\ e.token \in ApprovalTokens
  /\ approvals[e.token] = "consumed" /\ TokenScope[e.token] = e.op
  /\ calls[e.call].pc \in Past /\ calls[e.call].result # "rejected"

AuthInv ==
  /\ \A c \in Calls : Acting(c) => Owns(c)
  /\ \A c, d \in Calls : Acting(c) /\ Acting(d) /\ calls[c].token = calls[d].token => c = d
  /\ \A e \in effects : Authorized(e)
  /\ \A e, f \in effects : e.token = f.token => e = f

\* A step that adds no effect and lets no call begin to act.
LEMMA AuthKept ==
  ASSUME AuthInv, UNCHANGED effects,
         \A t \in ApprovalTokens : approvals[t] = "consumed" => approvals'[t] = "consumed",
         \A d \in Calls :
           /\ Acting(d)' => Acting(d) /\ calls'[d].token = calls[d].token /\ calls'[d].op = calls[d].op
                            /\ calls'[d].result = calls[d].result
           /\ calls[d].pc \in Past /\ calls[d].result # "rejected"
                => calls'[d].pc \in Past /\ calls'[d].result # "rejected"
  PROVE  AuthInv'
<1>1. \A c \in Calls : Acting(c)' => Owns(c)'
  BY DEF AuthInv, Owns
<1>2. \A c, d \in Calls : Acting(c)' /\ Acting(d)' /\ calls'[c].token = calls'[d].token => c = d
  BY DEF AuthInv
<1>3. \A e \in effects : Authorized(e)'
  BY DEF AuthInv, Authorized
<1> QED
  BY <1>1, <1>2, <1>3 DEF AuthInv

LEMMA AuthApprove ==
  ASSUME OperatorShape, AuthInv, NEW c \in Calls, NEW t \in ApprovalTokens, NEW op \in Gated, Approve(c, t, op)
  PROVE  AuthInv'
<1>1. /\ calls[c].pc = "idle" /\ \A d \in Calls : d # c => calls'[d] = calls[d]
      /\ calls'[c].op = op /\ calls'[c].token = t /\ calls'[c].pc = "checking"
      /\ calls'[c].result = "none" /\ TokenScope[t] = op
      /\ approvals[t] = "issued" /\ effects' = effects
  BY ApproveStep
<1>2. approvals'[t] = "consumed" /\ \A u \in ApprovalTokens : u # t => approvals'[u] = approvals[u]
  BY ApproveStep DEF OperatorShape
<1>3. \A d \in Calls : Acting(d) => calls[d].token # t
  BY <1>1 DEF AuthInv, Owns
<1>4. \A e \in effects : e.token # t /\ e.call # c
  BY <1>1 DEF AuthInv, Authorized, Past
<1>5. Acting(c)' /\ Owns(c)'
  BY <1>1, <1>2, <1>4 DEF Acting, Owns
<1>6. \A d \in Calls : d # c /\ Acting(d)' => Acting(d) /\ Owns(d)' /\ calls'[d].token # t
  BY <1>1, <1>2, <1>3 DEF Acting, Owns, AuthInv
<1>7. \A e \in effects : Authorized(e)'
  BY <1>1, <1>2, <1>4 DEF AuthInv, Authorized
<1>8. \A d, e \in Calls : Acting(d)' /\ Acting(e)' /\ calls'[d].token = calls'[e].token => d = e
  BY <1>1, <1>6 DEF AuthInv
<1>9. \A d \in Calls : Acting(d)' => Owns(d)'
  BY <1>5, <1>6
<1> QED
  BY <1>1, <1>7, <1>8, <1>9 DEF AuthInv

\* The effect of a call that acts: its token has had none yet.
LEMMA AuthEffect ==
  ASSUME AuthInv, NEW c \in Calls, Acting(c), UNCHANGED approvals,
         \A d \in Calls : d # c => calls'[d] = calls[d],
         calls'[c].pc \in Past, calls'[c].result # "rejected",
         effects' = effects \union {[call |-> c, token |-> calls[c].token, op |-> calls[c].op]}
  PROVE  AuthInv'
<1>0. PICK new : new = [call |-> c, token |-> calls[c].token, op |-> calls[c].op]
  OBVIOUS
<1>1. new.call = c /\ new.token = calls[c].token /\ new.op = calls[c].op
  BY <1>0
<1>2. effects' = effects \union {new}
  BY <1>0
<1>3. Owns(c)
  BY DEF AuthInv
<1>4. Authorized(new)'
  BY <1>1, <1>3 DEF Owns, Authorized
<1>5. \A e \in effects : e.token # new.token /\ e.call # c
  BY <1>1, <1>3 DEF AuthInv, Owns, Authorized, Past, Acting
<1>6. \A e \in effects : Authorized(e)'
  BY <1>5 DEF AuthInv, Authorized
<1>7. ~Acting(c)'
  BY DEF Acting, Past
<1>8. \A d \in Calls : Acting(d)' => d # c /\ Acting(d) /\ calls'[d] = calls[d]
  BY <1>7 DEF Acting
<1>9. \A d \in Calls : Acting(d)' => Owns(d)'
  BY <1>1, <1>2, <1>8 DEF AuthInv, Owns
<1>10. \A d, e \in Calls : Acting(d)' /\ Acting(e)' /\ calls'[d].token = calls'[e].token => d = e
  BY <1>8 DEF AuthInv
<1>11. \A e, f \in effects' : e.token = f.token => e = f
  BY <1>2, <1>5 DEF AuthInv
<1> QED
  BY <1>2, <1>4, <1>6, <1>9, <1>10, <1>11 DEF AuthInv

LEMMA AuthStep == OperatorShape /\ TodoInv /\ AuthInv /\ [OperatorNext]_operatorVars => AuthInv'
<1> SUFFICES ASSUME OperatorShape, TodoInv, AuthInv, [OperatorNext]_operatorVars PROVE AuthInv'
  OBVIOUS
<1>1. CASE UNCHANGED operatorVars \/ OperatorSetKillSwitch
  BY <1>1 DEF operatorVars, OperatorSetKillSwitch, AuthInv, Acting, Owns, Authorized
<1>2. ASSUME NEW c \in Calls, Reject(c) \/ Escalate(c) PROVE AuthInv'
  <2>1. PICK op \in Gated \union Escalations, result \in {"rejected", "recorded"} :
          calls'[c] = Recording(op, NoToken, result)
    BY <1>2, BeginSteps
  <2>2. calls'[c].pc = "recording"
    BY <2>1 DEF Recording
  <2>3. /\ calls[c].pc = "idle" /\ \A d \in Calls : d # c => calls'[d] = calls[d]
        /\ UNCHANGED <<approvals, effects>>
    BY <1>2, BeginSteps
  <2> QED
    BY <2>2, <2>3, AuthKept DEF Acting, Past
<1>3. ASSUME NEW c \in Calls, ReadState(c) \/ Execute(c) \/ ApplyKnownGoodManifest(c)
      PROVE  AuthInv'
  <2>1. Acting(c) /\ UNCHANGED approvals
    BY <1>3, EffectSteps DEF Acting
  <2>2. calls[c].result = "none"
    BY <2>1 DEF AuthInv, Owns
  <2>3. ASSUME NEW outcome \in {"applied", "failed", "simulated"}, TakeEffect(c, outcome) PROVE AuthInv'
    <3>1. /\ \A d \in Calls : d # c => calls'[d] = calls[d]
          /\ calls'[c].pc = "recording" /\ calls'[c].result = outcome
          /\ \/ UNCHANGED effects
             \/ effects' = effects \union {[call |-> c, token |-> calls[c].token, op |-> calls[c].op]}
      <4>1. calls'[c] = Recording(calls[c].op, calls[c].token, outcome)
        BY <2>3, EffectTaken
      <4>2. calls'[c].pc = "recording" /\ calls'[c].result = outcome
        BY <4>1 DEF Recording
      <4> QED
        BY <2>3, <4>2, EffectTaken
    <3>2. CASE UNCHANGED effects
      BY <2>1, <3>1, <3>2, AuthKept DEF Acting, Past
    <3>3. CASE effects' = effects \union {[call |-> c, token |-> calls[c].token, op |-> calls[c].op]}
      BY <2>1, <3>1, <3>3, AuthEffect DEF Past
    <3> QED
      BY <3>1, <3>2, <3>3
  <2>4. ASSUME Become(c, "thrown"),
               \/ UNCHANGED effects
               \/ effects' = effects \union {[call |-> c, token |-> calls[c].token, op |-> "update"]}
                  /\ calls[c].op = "update"
        PROVE  AuthInv'
    <3>1. /\ \A d \in Calls : d # c => calls'[d] = calls[d]
          /\ calls'[c].pc = "thrown" /\ calls'[c].result = "none"
      BY <2>2, <2>4, MoveKeepsShape DEF OperatorStages
    <3>2. CASE UNCHANGED effects
      BY <2>1, <3>1, <3>2, AuthKept DEF Acting, Past
    <3>3. CASE effects' = effects \union {[call |-> c, token |-> calls[c].token, op |-> calls[c].op]}
      BY <2>1, <3>1, <3>3, AuthEffect DEF Past
    <3> QED
      BY <2>4, <3>2, <3>3
  <2>5. ASSUME Become(c, "executing"), UNCHANGED effects PROVE AuthInv'
    <3>1. /\ \A d \in Calls : d # c => calls'[d] = calls[d]
          /\ calls'[c].pc = "executing" /\ calls'[c].result = calls[c].result
          /\ calls'[c].op = calls[c].op /\ calls'[c].token = calls[c].token
      BY <2>5, MoveKeepsShape DEF OperatorStages
    <3> QED
      BY <2>1, <2>5, <3>1, AuthKept DEF Acting, Past
  <2> QED
    BY <1>3, <2>3, <2>4, <2>5, EffectSteps
<1>4. ASSUME NEW c \in Calls, OperatorRecordSteps(c) PROVE AuthInv'
  <2>1. /\ calls[c].pc = "recording" /\ UNCHANGED <<approvals, effects>>
        /\ \A d \in Calls : d # c => calls'[d] = calls[d]
        /\ calls'[c].pc \in {"recording", "answered", "thrown"} /\ calls'[c].result = calls[c].result
    BY <1>4, RecordMoves
  <2> QED
    BY <2>1, AuthKept DEF Acting, Past
<1>5. CASE OperatorRestart
  <2>1. /\ UNCHANGED effects
        /\ \A t \in ApprovalTokens : approvals[t] = "consumed" => approvals'[t] = "consumed"
        /\ \A d \in Calls :
              \/ calls'[d] = calls[d] /\ ~Acting(d)
              \/ calls'[d].pc = "lost" /\ calls'[d].result = calls[d].result
    BY <1>5, RestartMoves DEF Acting
  <2> QED
    BY <2>1, AuthKept DEF Acting, Past
<1>6. ASSUME NEW t \in ApprovalTokens, TokenExpires(t) PROVE AuthInv'
  BY <1>6, ExpiryKeeps, AuthKept DEF Acting
<1> QED
  BY <1>1, <1>2, <1>3, <1>4, <1>5, <1>6, AuthApprove DEF OperatorNext, OperatorRecordSteps

\* Whatever an executor did, one token let it do once, for that kind of operation, and
\* the call that did it has ended or is recording it: for every number of calls.
THEOREM EffectsAuthorizedHolds == OperatorSpec => []EffectsAuthorized
<1>1. OperatorInit => AuthInv
  BY DEF OperatorInit, AuthInv, Acting, OperatorIdle
<1>2. AuthInv => EffectsAuthorized
  BY DEF AuthInv, Authorized, Past, EffectsAuthorized
<1> QED
  BY <1>1, <1>2, OperatorShapeInit, OperatorShapeStep, TodoStep, AuthStep, PTL DEF OperatorSpec

\* A call that is cleared to execute was under way while the switch was open.
LookInv ==
  \A c \in Calls : /\ calls[c].pc = "executing" => c \in openTo
                   /\ calls[c].pc = "checking" /\ ~operatorSwitch => c \in openTo

LEMMA LookStep == OperatorShape /\ TodoInv /\ LookInv /\ [OperatorNext]_operatorVars => LookInv'
<1> SUFFICES ASSUME OperatorShape, TodoInv, LookInv, [OperatorNext]_operatorVars PROVE LookInv'
  OBVIOUS
<1>1. CASE UNCHANGED operatorVars
  BY <1>1 DEF operatorVars, LookInv
<1>2. CASE OperatorSetKillSwitch
  BY <1>2 DEF OperatorSetKillSwitch, LookInv
<1>3. ASSUME NEW c \in Calls, \A d \in Calls : d # c => calls'[d] = calls[d],
             calls'[c].pc \notin {"checking", "executing"} \/ c \in openTo,
             UNCHANGED <<operatorSwitch, openTo>>
      PROVE  LookInv'
  BY <1>3 DEF LookInv
<1>4. ASSUME NEW c \in Calls, Reject(c) \/ Escalate(c) PROVE LookInv'
  <2>1. PICK op, result : calls'[c] = Recording(op, NoToken, result)
    BY <1>4, BeginSteps
  <2>2. calls'[c].pc = "recording" /\ \A d \in Calls : d # c => calls'[d] = calls[d]
    BY <1>4, <2>1, BeginSteps DEF Recording
  <2> QED
    BY <1>3, <1>4, <2>2, BeginSteps
<1>5. ASSUME NEW c \in Calls, NEW t \in ApprovalTokens, NEW op \in Gated, Approve(c, t, op) PROVE LookInv'
  <2>1. calls'[c].pc = "checking" /\ \A d \in Calls : d # c => calls'[d] = calls[d]
    BY <1>5, ApproveStep
  <2>2. UNCHANGED operatorSwitch /\ openTo' = IF operatorSwitch THEN openTo ELSE openTo \union {c}
    BY <1>5 DEF Approve
  <2> QED
    BY <2>1, <2>2 DEF LookInv
<1>6. ASSUME NEW c \in Calls, ReadState(c) PROVE LookInv'
  <2>1. /\ calls[c].pc = "checking" /\ UNCHANGED <<operatorSwitch, openTo>>
        /\ Become(c, "thrown") \/ (~operatorSwitch /\ Become(c, "executing"))
    BY <1>6 DEF ReadState
  <2>2. CASE Become(c, "thrown")
    BY <1>3, <2>1, <2>2, MoveKeepsShape DEF OperatorStages
  <2>3. CASE ~operatorSwitch /\ Become(c, "executing")
    BY <1>3, <2>1, <2>3, MoveKeepsShape DEF OperatorStages, LookInv
  <2> QED
    BY <2>1, <2>2, <2>3
<1>7. ASSUME NEW c \in Calls, Execute(c) \/ ApplyKnownGoodManifest(c) PROVE LookInv'
  <2>1. calls[c].pc = "executing" /\ UNCHANGED <<operatorSwitch, openTo>>
    BY <1>7 DEF Execute, ApplyKnownGoodManifest
  <2>2. \A d \in Calls : d # c => calls'[d] = calls[d]
    <3>1. \/ \E outcome \in {"applied", "failed", "simulated"} : TakeEffect(c, outcome)
          \/ \E pc \in OperatorStages : Become(c, pc)
      BY <1>7, EffectSteps DEF OperatorStages
    <3> QED
      BY <3>1, EffectTaken, MoveKeepsShape
  <2> QED
    BY <1>3, <2>1, <2>2 DEF LookInv
<1>8. ASSUME NEW c \in Calls, OperatorRecordSteps(c) PROVE LookInv'
  <2>1. UNCHANGED <<operatorSwitch, openTo>>
    BY <1>8 DEF OperatorRecordSteps, RecordOverride, OperatorRecordDecision, RecordFails
  <2> QED
    BY <1>3, <1>8, <2>1, RecordMoves
<1>9. CASE OperatorRestart
  <2>1. UNCHANGED <<operatorSwitch, openTo>>
    BY <1>9 DEF OperatorRestart
  <2> QED
    BY <1>9, <2>1, RestartMoves DEF LookInv
<1>10. ASSUME NEW t \in ApprovalTokens, TokenExpires(t) PROVE LookInv'
  BY <1>10 DEF TokenExpires, LookInv
<1> QED
  BY <1>1, <1>2, <1>4, <1>5, <1>6, <1>7, <1>8, <1>9, <1>10 DEF OperatorNext, OperatorRecordSteps

\* Nothing has an effect of a call that the kill-switch was closed to from its approval on,
\* though what was read of it may be over when the effect comes, and no update has one
\* while it is closed (executeRunbookAction, executeRestore, approveUpdate).
THEOREM SwitchStopsEffectsHolds == OperatorSpec => SwitchStopsEffects
<1>1. OperatorInit => LookInv
  BY DEF OperatorInit, OperatorIdle, LookInv
<1>2. OperatorShape /\ LookInv /\ [OperatorNext]_operatorVars =>
        [\A e \in effects' \ effects :
           /\ e.call \in openTo
           /\ e.op = "update" => ~operatorSwitch]_operatorVars
  <2> SUFFICES ASSUME OperatorShape, LookInv, OperatorNext, NEW e \in effects' \ effects
               PROVE  e.call \in openTo /\ (e.op = "update" => ~operatorSwitch)
    BY Zenon
  <2>1. ASSUME NEW c \in Calls, Reject(c) \/ Escalate(c) \/ ReadState(c) \/ RecordOverride(c)
                                \/ OperatorRecordDecision(c) \/ RecordFails(c)
        PROVE  FALSE
    BY <2>1 DEF Reject, Escalate, ReadState, RecordOverride, OperatorRecordDecision, RecordFails
  <2>2. ASSUME NEW c \in Calls, NEW t \in ApprovalTokens, NEW op \in Gated, Approve(c, t, op) PROVE FALSE
    BY <2>2 DEF Approve
  <2>3. ASSUME NEW c \in Calls, Execute(c) \/ ApplyKnownGoodManifest(c)
        PROVE  e.call \in openTo /\ (e.op = "update" => ~operatorSwitch)
    <3>1. calls[c].pc = "executing" /\ c \in openTo
      BY <2>3 DEF Execute, ApplyKnownGoodManifest, LookInv
    <3>2. e.call = c /\ e.op = calls[c].op
      <4>1. effects' = effects \/ effects' = effects \union {[call |-> c, token |-> calls[c].token, op |-> calls[c].op]}
        BY <2>3, EffectSteps, EffectTaken
      <4> QED
        BY <4>1
    <3>3. e.op = "update" => ~operatorSwitch
      BY <2>3, <3>2 DEF Execute, ApplyKnownGoodManifest, SwitchOpen
    <3> QED
      BY <3>1, <3>2, <3>3
  <2> QED
    BY <2>1, <2>2, <2>3 DEF OperatorNext, OperatorSetKillSwitch, OperatorRestart, TokenExpires
<1> QED
  BY <1>1, <1>2, OperatorShapeInit, OperatorShapeStep, TodoStep, LookStep, PTL DEF OperatorSpec, SwitchStopsEffects
-----------------------------------------------------------------------------
(* Records.                                                                 *)

OperatorEntryType == [call : Calls, kind : OperatorKinds, result : OperatorResults]
LedgersOK == overrides \in Seq(OperatorEntryType) /\ opDecisions \in Seq(OperatorEntryType)

KindsIn(written, c) == {written[i].kind : i \in {j \in DOMAIN written : written[j].call = c}}

LEMMA KindsAppended ==
  ASSUME NEW written \in Seq(OperatorEntryType), NEW entry \in OperatorEntryType, NEW c
  PROVE  KindsIn(Append(written, entry), c) =
           KindsIn(written, c) \union (IF entry.call = c THEN {entry.kind} ELSE {})
<1>1. /\ DOMAIN written = 1..Len(written) /\ Len(written) \in Nat
      /\ DOMAIN Append(written, entry) = 1..(Len(written) + 1)
      /\ \A i \in 1..Len(written) : Append(written, entry)[i] = written[i]
      /\ Append(written, entry)[Len(written) + 1] = entry
  BY LenProperties, AppendProperties
<1> DEFINE more == Append(written, entry)
           n == Len(written) + 1
<1>2. DOMAIN more = DOMAIN written \union {n} /\ n \notin DOMAIN written
  BY <1>1
<1>3. more[n] = entry /\ \A i \in DOMAIN written : more[i] = written[i]
  BY <1>1
<1> HIDE DEF more, n
<1>4. KindsIn(more, c) = KindsIn(written, c) \union (IF entry.call = c THEN {entry.kind} ELSE {})
  BY <1>2, <1>3 DEF KindsIn
<1> QED
  BY <1>4 DEF more

LEMMA KindsOfEntries ==
  ASSUME NEW written \in Seq(OperatorEntryType)
  PROVE  \A i \in DOMAIN written : written[i].kind \in OperatorKinds
<1>1. \A i \in DOMAIN written : written[i] \in OperatorEntryType
  BY LenProperties, ElementOfSeq
<1> QED
  BY <1>1 DEF OperatorEntryType

LEMMA RecordedIsBoth ==
  ASSUME LedgersOK, NEW c
  PROVE  Recorded(c) = KindsIn(overrides, c) \union KindsIn(opDecisions, c)
<1>1. /\ \A i \in DOMAIN overrides : overrides[i].kind \in OperatorKinds
      /\ \A i \in DOMAIN opDecisions : opDecisions[i].kind \in OperatorKinds
  BY KindsOfEntries DEF LedgersOK
<1>2. Recorded(c) = {kind \in OperatorKinds : \E written \in {overrides, opDecisions} :
                       \E i \in DOMAIN written : written[i].call = c /\ written[i].kind = kind}
  BY DEF Recorded, OperatorKinds
<1> QED
  BY <1>1, <1>2 DEF KindsIn

\* How much of what a call has to record is in the ledgers.
RecordProgress(c) ==
  LET a == First(calls[c].op)
      b == Second(calls[c].op)
  IN /\ calls[c].pc \in {"idle", "checking", "executing"} => Recorded(c) = {}
     /\ calls[c].pc = "recording" => \/ calls[c].todo = <<a, b>> /\ Recorded(c) = {}
                                     \/ calls[c].todo = <<b>> /\ Recorded(c) = {a}
     /\ calls[c].pc = "answered" => Recorded(c) = {a, b}
     /\ calls[c].pc \in {"thrown", "lost"} => Recorded(c) \in {{}, {a}}

OrderInv == LedgersOK /\ \A c \in Calls : RecordProgress(c)

LEMMA RecordedFrame ==
  UNCHANGED <<overrides, opDecisions>> => LedgersOK' = LedgersOK /\ \A c : Recorded(c)' = Recorded(c)
BY DEF LedgersOK, Recorded

\* A record is appended for its call and for no other.
LEMMA RecordedOne ==
  ASSUME OperatorShape, TodoInv, OrderInv, NEW c \in Calls, RecordOverride(c) \/ OperatorRecordDecision(c)
  PROVE  /\ LedgersOK' /\ Recorded(c)' = Recorded(c) \union {Head(calls[c].todo)}
         /\ \A d \in Calls : d # c => Recorded(d)' = Recorded(d)
         /\ calls[c].pc = "recording" /\ Remaining(c)
<1> DEFINE entry == Entry(c)
<1>1. calls[c].pc = "recording" /\ Remaining(c)
  BY DEF RecordOverride, OperatorRecordDecision
<1>2. Head(calls[c].todo) \in OperatorKinds
  <2>1. calls[c].todo # <<>> /\ calls[c].todo \in Seq(OperatorKinds)
    BY <1>1, TodoNotEmpty DEF OperatorShape, OperatorCallType
  <2> QED
    BY <2>1, HeadTailProperties
<1>3. entry \in OperatorEntryType /\ entry.call = c /\ entry.kind = Head(calls[c].todo)
  BY <1>2 DEF Entry, OperatorEntryType, OperatorShape, OperatorCallType
<1>4. \/ overrides' = Append(overrides, entry) /\ UNCHANGED opDecisions
      \/ opDecisions' = Append(opDecisions, entry) /\ UNCHANGED overrides
  BY DEF RecordOverride, OperatorRecordDecision
<1> HIDE DEF entry
<1>5. LedgersOK'
  <2>1. overrides \in Seq(OperatorEntryType) /\ opDecisions \in Seq(OperatorEntryType)
    BY DEF LedgersOK, OrderInv
  <2>2. Append(overrides, entry) \in Seq(OperatorEntryType) /\ Append(opDecisions, entry) \in Seq(OperatorEntryType)
    BY <1>3, <2>1, AppendProperties
  <2> QED
    BY <1>4, <2>1, <2>2 DEF LedgersOK
<1>6. ASSUME NEW d \in Calls
      PROVE  Recorded(d)' = Recorded(d) \union (IF entry.call = d THEN {entry.kind} ELSE {})
  <2>1. Recorded(d) = KindsIn(overrides, d) \union KindsIn(opDecisions, d)
    BY RecordedIsBoth DEF OrderInv
  <2>2. Recorded(d)' = KindsIn(overrides', d) \union KindsIn(opDecisions', d)
    <3>1. /\ \A i \in DOMAIN overrides' : overrides'[i].kind \in OperatorKinds
          /\ \A i \in DOMAIN opDecisions' : opDecisions'[i].kind \in OperatorKinds
      BY <1>5, KindsOfEntries DEF LedgersOK
    <3>2. Recorded(d)' = {kind \in OperatorKinds : \E written \in {overrides', opDecisions'} :
                            \E i \in DOMAIN written : written[i].call = d /\ written[i].kind = kind}
      BY DEF Recorded, OperatorKinds
    <3> QED
      BY <3>1, <3>2 DEF KindsIn
  <2>3. CASE overrides' = Append(overrides, entry) /\ UNCHANGED opDecisions
    BY <1>3, <2>1, <2>2, <2>3, KindsAppended DEF OrderInv, LedgersOK
  <2>4. CASE opDecisions' = Append(opDecisions, entry) /\ UNCHANGED overrides
    BY <1>3, <2>1, <2>2, <2>4, KindsAppended DEF OrderInv, LedgersOK
  <2> QED
    BY <1>4, <2>3, <2>4
<1>7. Recorded(c)' = Recorded(c) \union {Head(calls[c].todo)}
  <2>1. Recorded(c)' = Recorded(c) \union {entry.kind}
    BY <1>3, <1>6
  <2> QED
    BY <1>3, <2>1
<1>8. \A d \in Calls : d # c => Recorded(d)' = Recorded(d)
  <2> SUFFICES ASSUME NEW d \in Calls, d # c PROVE Recorded(d)' = Recorded(d)
    OBVIOUS
  <2>1. Recorded(d)' = Recorded(d) \union {}
    BY <1>3, <1>6
  <2> QED
    BY <2>1
<1> QED
  BY <1>1, <1>5, <1>7, <1>8

\* The step from one record to the next, and from the last one to the answer.
LEMMA ProgressOfRecord ==
  ASSUME OperatorShape, TodoInv, OrderInv, NEW c \in Calls, RecordOverride(c) \/ OperatorRecordDecision(c)
  PROVE  RecordProgress(c)'
<1> DEFINE a == First(calls[c].op)
           b == Second(calls[c].op)
<1>1. Two(a, b)
  BY RecordsOfAnOperation
<1>2. /\ Recorded(c)' = Recorded(c) \union {Head(calls[c].todo)}
      /\ calls[c].pc = "recording" /\ Remaining(c)
  BY RecordedOne
<1>3. /\ calls'[c].todo = Tail(calls[c].todo) /\ calls'[c].op = calls[c].op
      /\ calls'[c].pc = IF Len(calls[c].todo) = 1 THEN "answered" ELSE "recording"
  BY <1>2, TodoNotEmpty, RemainingMoves
<1>4. \/ calls[c].todo = <<a, b>> /\ Recorded(c) = {}
      \/ calls[c].todo = <<b>> /\ Recorded(c) = {a}
  BY <1>2 DEF OrderInv, RecordProgress
<1>5. First(calls'[c].op) = a /\ Second(calls'[c].op) = b
  BY <1>3
<1> HIDE DEF a, b
<1>6. CASE calls[c].todo = <<a, b>> /\ Recorded(c) = {}
  <2>1. /\ calls'[c].todo = <<b>> /\ calls'[c].pc = "recording" /\ Recorded(c)' = {a}
    BY <1>1, <1>2, <1>3, <1>6 DEF Two
  <2> QED
    BY <1>5, <2>1 DEF RecordProgress
<1>7. CASE calls[c].todo = <<b>> /\ Recorded(c) = {a}
  <2>1. calls'[c].pc = "answered" /\ Recorded(c)' = {a, b}
    BY <1>1, <1>2, <1>3, <1>7 DEF Two
  <2> QED
    BY <1>5, <2>1 DEF RecordProgress
<1> QED
  BY <1>4, <1>6, <1>7

\* A call that begins to record has nothing in the ledgers.
LEMMA ProgressBegins ==
  ASSUME NEW c \in Calls, NEW op, NEW token, NEW result, Recorded(c)' = {},
         calls'[c] = Recording(op, token, result)
  PROVE  RecordProgress(c)'
<1>1. calls'[c].pc = "recording" /\ calls'[c].op = op /\ calls'[c].todo = <<First(op), Second(op)>>
  BY RecordsOfAnOperation DEF Recording
<1> QED
  BY <1>1 DEF RecordProgress

LEMMA OrderStep == OperatorShape /\ TodoInv /\ OrderInv /\ [OperatorNext]_operatorVars => OrderInv'
<1> SUFFICES ASSUME OperatorShape, TodoInv, OrderInv, [OperatorNext]_operatorVars PROVE OrderInv'
  OBVIOUS
<1>1. ASSUME UNCHANGED <<overrides, opDecisions>>, NEW c \in Calls, RecordProgress(c)',
             \A d \in Calls : d # c => calls'[d] = calls[d]
      PROVE  OrderInv'
  <2>1. LedgersOK' /\ \A d \in Calls : Recorded(d)' = Recorded(d)
    BY <1>1, RecordedFrame DEF OrderInv
  <2>2. \A d \in Calls : d # c => RecordProgress(d)'
    BY <1>1, <2>1 DEF OrderInv, RecordProgress
  <2> QED
    BY <1>1, <2>1, <2>2 DEF OrderInv
<1>2. CASE UNCHANGED <<calls, overrides, opDecisions>>
  <2>1. LedgersOK' /\ \A d \in Calls : Recorded(d)' = Recorded(d)
    BY <1>2, RecordedFrame DEF OrderInv
  <2> QED
    BY <1>2, <2>1 DEF OrderInv, RecordProgress
<1>3. ASSUME NEW c \in Calls, Reject(c) \/ Escalate(c) PROVE OrderInv'
  <2>1. /\ calls[c].pc = "idle" /\ UNCHANGED <<overrides, opDecisions>>
        /\ \A d \in Calls : d # c => calls'[d] = calls[d]
    BY <1>3, BeginSteps
  <2>2. Recorded(c)' = {}
    BY <2>1, RecordedFrame DEF OrderInv, RecordProgress
  <2>3. RecordProgress(c)'
    BY <1>3, <2>2, BeginSteps, ProgressBegins
  <2> QED
    BY <1>1, <2>1, <2>3
<1>4. ASSUME NEW c \in Calls, NEW t \in ApprovalTokens, NEW op \in Gated, Approve(c, t, op)
      PROVE  OrderInv'
  <2>1. /\ calls[c].pc = "idle" /\ UNCHANGED <<overrides, opDecisions>> /\ calls'[c].pc = "checking"
        /\ \A d \in Calls : d # c => calls'[d] = calls[d]
    BY <1>4, ApproveStep
  <2>2. Recorded(c)' = {}
    BY <2>1, RecordedFrame DEF OrderInv, RecordProgress
  <2> QED
    BY <1>1, <2>1, <2>2 DEF RecordProgress
<1>5. ASSUME NEW c \in Calls, ReadState(c) \/ Execute(c) \/ ApplyKnownGoodManifest(c)
      PROVE  OrderInv'
  <2>1. calls[c].pc \in {"checking", "executing"} /\ UNCHANGED <<overrides, opDecisions>>
    BY <1>5, EffectSteps
  <2>2. Recorded(c)' = {}
    BY <2>1, RecordedFrame DEF OrderInv, RecordProgress
  <2>3. ASSUME NEW outcome \in {"applied", "failed", "simulated"}, TakeEffect(c, outcome)
        PROVE  RecordProgress(c)' /\ \A d \in Calls : d # c => calls'[d] = calls[d]
    BY <2>2, <2>3, EffectTaken, ProgressBegins
  <2>4. ASSUME NEW pc \in {"thrown", "executing"}, Become(c, pc)
        PROVE  RecordProgress(c)' /\ \A d \in Calls : d # c => calls'[d] = calls[d]
    <3>1. calls'[c].pc = pc /\ \A d \in Calls : d # c => calls'[d] = calls[d]
      BY <2>4, MoveKeepsShape DEF OperatorStages
    <3> QED
      BY <2>2, <2>4, <3>1 DEF RecordProgress
  <2> QED
    BY <1>1, <1>5, <2>1, <2>3, <2>4, EffectSteps
<1>6. ASSUME NEW c \in Calls, RecordOverride(c) \/ OperatorRecordDecision(c) PROVE OrderInv'
  <2>1. /\ LedgersOK' /\ \A d \in Calls : d # c => Recorded(d)' = Recorded(d)
        /\ \A d \in Calls : d # c => calls'[d] = calls[d]
    BY <1>6, RecordedOne, RecordMoves DEF OperatorRecordSteps
  <2>2. \A d \in Calls : d # c => RecordProgress(d)'
    BY <2>1 DEF OrderInv, RecordProgress
  <2>3. RecordProgress(c)'
    BY <1>6, ProgressOfRecord
  <2> QED
    BY <2>1, <2>2, <2>3 DEF OrderInv
<1>7. ASSUME NEW c \in Calls, RecordFails(c) PROVE OrderInv'
  <2>1. /\ calls[c].pc = "recording" /\ calls'[c].pc = "thrown" /\ calls'[c].op = calls[c].op
        /\ \A d \in Calls : d # c => calls'[d] = calls[d]
        /\ UNCHANGED <<overrides, opDecisions>>
    BY <1>7, MoveKeepsShape DEF RecordFails, OperatorStages
  <2>2. Recorded(c)' = Recorded(c)
    BY <2>1, RecordedFrame
  <2>3. RecordProgress(c)'
    BY <2>1, <2>2 DEF OrderInv, RecordProgress
  <2> QED
    BY <1>1, <2>1, <2>3
<1>8. CASE OperatorRestart
  <2>1. LedgersOK' /\ \A d \in Calls : Recorded(d)' = Recorded(d)
    BY <1>8, RestartMoves, RecordedFrame DEF OrderInv
  <2>2. ASSUME NEW d \in Calls PROVE RecordProgress(d)'
    <3>1. CASE calls'[d] = calls[d]
      BY <2>1, <3>1 DEF OrderInv, RecordProgress
    <3>2. CASE /\ calls[d].pc \in {"checking", "executing", "recording"} /\ calls'[d].pc = "lost"
               /\ calls'[d].op = calls[d].op
      <4>1. Recorded(d)' \in {{}, {First(calls[d].op)}}
        BY <2>1, <3>2 DEF OrderInv, RecordProgress
      <4> QED
        BY <3>2, <4>1 DEF RecordProgress
    <3> QED
      BY <1>8, <3>1, <3>2, RestartMoves
  <2> QED
    BY <2>1, <2>2 DEF OrderInv
<1> QED
  BY <1>2, <1>3, <1>4, <1>5, <1>6, <1>7, <1>8
  DEF OperatorNext, OperatorRecordSteps, operatorVars, OperatorSetKillSwitch, TokenExpires

\* The records of a call are in the ledgers in their order, none without those before
\* it, and an answered call has all of them, however many calls overlap, fail and are
\* lost (executeRestore, executeRunbookAction, approveUpdate, initiateEscalation).
THEOREM RecordsInOrderHolds == OperatorSpec => []RecordsInOrder
<1>1. OperatorInit => OrderInv
  <2> SUFFICES ASSUME OperatorInit PROVE OrderInv
    OBVIOUS
  <2>1. overrides = <<>> /\ opDecisions = <<>> /\ LedgersOK
    BY EmptySeq DEF OperatorInit, LedgersOK
  <2>2. \A c : Recorded(c) = {}
    BY <2>1 DEF Recorded
  <2>3. \A c \in Calls : calls[c].pc = "idle"
    BY DEF OperatorInit, OperatorIdle
  <2> QED
    BY <2>1, <2>2, <2>3 DEF OrderInv, RecordProgress
<1>2. OrderInv /\ OperatorShape => RecordsInOrder
  <2> SUFFICES ASSUME OrderInv, OperatorShape, NEW c \in Calls
               PROVE  LET all == Records(calls[c].op) IN
                      /\ calls[c].op # "none" =>
                           \A i \in 2..Len(all) : all[i] \in Recorded(c) => all[i - 1] \in Recorded(c)
                      /\ calls[c].pc = "answered" => Recorded(c) = ToSet(all)
    BY DEF RecordsInOrder
  <2> DEFINE a == First(calls[c].op)
             b == Second(calls[c].op)
             all == Records(calls[c].op)
  <2>1. all = <<a, b>> /\ a # b /\ Len(all) = 2
    BY RecordsOfAnOperation DEF Two
  <2>2. ToSet(all) = {a, b}
    BY <2>1 DEF ToSet
  <2>3. calls[c].pc \in OperatorStages
    BY DEF OperatorShape, OperatorCallType
  <2>4. \A i \in 2..Len(all) : i = 2
    BY <2>1
  <2>5. b \in Recorded(c) => a \in Recorded(c)
    BY <2>1, <2>3 DEF OrderInv, RecordProgress, OperatorStages
  <2>6. \A i \in 2..Len(all) : all[i] \in Recorded(c) => all[i - 1] \in Recorded(c)
    <3> SUFFICES ASSUME NEW i \in 2..Len(all), all[i] \in Recorded(c) PROVE all[i - 1] \in Recorded(c)
      OBVIOUS
    <3>1. i = 2 /\ i - 1 = 1
      BY <2>4
    <3>2. all[i] = b /\ all[i - 1] = a
      BY <2>1, <3>1
    <3> QED
      BY <2>5, <3>2
  <2>7. calls[c].pc = "answered" => Recorded(c) = ToSet(all)
    BY <2>2 DEF OrderInv, RecordProgress
  <2> QED
    BY <2>6, <2>7
<1> QED
  BY <1>1, <1>2, OperatorShapeInit, OperatorShapeStep, TodoStep, OrderStep, PTL DEF OperatorSpec
-----------------------------------------------------------------------------
(* The types, with the effects and the ledgers.                             *)

EffectType == [call : Calls, token : ApprovalTokens, op : Gated]

\* What a call has left to record; a call that records has a result.
TodoOf(op) == {<<>>, Records(op), Tail(Records(op))}
OperatorRest ==
  /\ \A c \in Calls : /\ calls[c].todo \in TodoOf(calls[c].op)
                      /\ calls[c].pc = "recording" => calls[c].result # "none"
  /\ effects \subseteq EffectType
  /\ overrides \in Seq(OperatorEntries) /\ opDecisions \in Seq(OperatorEntries)
  /\ operatorSwitch \in BOOLEAN /\ openTo \subseteq Calls

LEMMA OperatorTypeParts == OperatorShape /\ OperatorRest => OperatorTypeOK
<1> SUFFICES ASSUME OperatorShape, OperatorRest PROVE OperatorTypeOK
  OBVIOUS
<1>1. ASSUME NEW c \in Calls
      PROVE  /\ calls[c].op \in Gated \union Escalations \union {"none"}
             /\ calls[c].token \in ApprovalTokens \union {NoToken}
             /\ calls[c].pc \in {"idle", "checking", "executing", "recording", "answered", "thrown", "lost"}
  BY DEF OperatorShape, OperatorCallType, OperatorOps, OperatorStages
<1> QED
  BY <1>1 DEF OperatorShape, OperatorRest, OperatorTypeOK, TodoOf, EffectType

\* A step of one call, and what it has to respect.
LEMMA OperatorRestKept ==
  ASSUME OperatorRest, NEW c \in Calls, \A d \in Calls : d # c => calls'[d] = calls[d],
         calls'[c].todo \in TodoOf(calls'[c].op), calls'[c].pc = "recording" => calls'[c].result # "none",
         effects' \subseteq EffectType, overrides' \in Seq(OperatorEntries), opDecisions' \in Seq(OperatorEntries),
         operatorSwitch' \in BOOLEAN, openTo' \subseteq Calls
  PROVE  OperatorRest'
BY DEF OperatorRest

LEMMA RecordingRest ==
  ASSUME NEW op, NEW token, NEW result
  PROVE  /\ Recording(op, token, result).todo \in TodoOf(Recording(op, token, result).op)
         /\ Recording(op, token, result).result = result
BY DEF Recording, TodoOf

LEMMA OperatorBegins ==
  ASSUME OperatorShape, OperatorRest, NEW c \in Calls,
         \/ Reject(c) \/ Escalate(c)
         \/ \E t \in ApprovalTokens, op \in Gated : Approve(c, t, op)
  PROVE  OperatorRest'
<1>1. CASE Reject(c) \/ Escalate(c)
  <2>1. PICK op \in Gated \union Escalations, result \in {"rejected", "recorded"} :
          calls'[c] = Recording(op, NoToken, result)
    BY <1>1, BeginSteps
  <2>2. calls'[c].todo \in TodoOf(calls'[c].op) /\ calls'[c].result # "none"
    BY <2>1, RecordingRest
  <2>3. (\A d \in Calls : d # c => calls'[d] = calls[d]) /\ UNCHANGED <<effects, overrides, opDecisions, operatorSwitch>>
    BY <1>1, BeginSteps
  <2>4. openTo' \subseteq Calls
    BY <1>1, BeginSteps DEF OperatorRest
  <2> QED
    BY <2>2, <2>3, <2>4, OperatorRestKept DEF OperatorRest
<1>2. CASE \E t \in ApprovalTokens, op \in Gated : Approve(c, t, op)
  <2>1. /\ calls'[c].todo = <<>> /\ calls'[c].pc = "checking"
        /\ \A d \in Calls : d # c => calls'[d] = calls[d]
        /\ UNCHANGED <<effects, overrides, opDecisions, operatorSwitch>>
    BY <1>2, ApproveStep
  <2>2. calls'[c].todo \in TodoOf(calls'[c].op)
    BY <2>1 DEF TodoOf
  <2>3. openTo' \subseteq Calls
    BY <1>2, ApproveStep DEF OperatorRest
  <2> QED
    BY <2>1, <2>2, <2>3, OperatorRestKept DEF OperatorRest
<1> QED
  BY <1>1, <1>2

LEMMA OperatorActs ==
  ASSUME OperatorShape, OperatorRest, AuthInv, NEW c \in Calls,
         ReadState(c) \/ Execute(c) \/ ApplyKnownGoodManifest(c)
  PROVE  OperatorRest'
<1>1. calls[c].pc \in {"checking", "executing"} /\ UNCHANGED <<overrides, opDecisions>>
  BY EffectSteps
<1>2. [call |-> c, token |-> calls[c].token, op |-> calls[c].op] \in EffectType
  BY <1>1 DEF AuthInv, Owns, Acting, EffectType
<1>3. UNCHANGED <<operatorSwitch, openTo>>
  BY DEF ReadState, Execute, ApplyKnownGoodManifest
<1>4. CASE \E outcome \in {"applied", "failed", "simulated"} : TakeEffect(c, outcome)
  <2>1. PICK outcome \in {"applied", "failed", "simulated"} : TakeEffect(c, outcome)
    BY <1>4
  <2>2. /\ \A d \in Calls : d # c => calls'[d] = calls[d]
        /\ calls'[c] = Recording(calls[c].op, calls[c].token, outcome)
        /\ \/ UNCHANGED effects
           \/ effects' = effects \union {[call |-> c, token |-> calls[c].token, op |-> calls[c].op]}
    BY <2>1, EffectTaken
  <2>3. calls'[c].todo \in TodoOf(calls'[c].op) /\ calls'[c].result # "none"
    BY <2>2, RecordingRest
  <2>4. effects' \subseteq EffectType
    BY <1>2, <2>2 DEF OperatorRest
  <2> QED
    BY <1>1, <1>3, <2>2, <2>3, <2>4, OperatorRestKept DEF OperatorRest
<1>5. ASSUME NEW pc \in {"thrown", "executing"}, Become(c, pc),
             \/ UNCHANGED effects
             \/ /\ calls[c].op = "update"
                /\ effects' = effects \union {[call |-> c, token |-> calls[c].token, op |-> "update"]}
      PROVE  OperatorRest'
  <2>1. /\ \A d \in Calls : d # c => calls'[d] = calls[d]
        /\ calls'[c].pc = pc /\ calls'[c].todo = calls[c].todo /\ calls'[c].op = calls[c].op
    BY <1>5, MoveKeepsShape DEF OperatorStages
  <2>2. effects' \subseteq EffectType
    BY <1>2, <1>5 DEF OperatorRest
  <2>3. calls'[c].todo \in TodoOf(calls'[c].op) /\ calls'[c].pc # "recording"
    BY <1>5, <2>1 DEF OperatorRest
  <2> QED
    BY <1>1, <1>3, <2>1, <2>2, <2>3, OperatorRestKept DEF OperatorRest
<1> QED
  BY <1>4, <1>5, EffectSteps

LEMMA OperatorRecords ==
  ASSUME OperatorShape, TodoInv, OperatorRest, NEW c \in Calls, OperatorRecordSteps(c)
  PROVE  OperatorRest'
<1>1. /\ calls[c].pc = "recording" /\ UNCHANGED <<effects, operatorSwitch, openTo>>
      /\ \A d \in Calls : d # c => calls'[d] = calls[d]
      /\ calls'[c].op = calls[c].op /\ calls'[c].result = calls[c].result
  BY RecordMoves
<1>2. Entry(c) \in OperatorEntries
  <2>1. calls[c].result \in {"rejected", "recorded", "applied", "simulated", "failed"}
    <3>1. calls[c] \in OperatorCallType /\ calls[c].result # "none"
      BY <1>1 DEF OperatorShape, OperatorRest
    <3> QED
      BY <3>1 DEF OperatorCallType, OperatorResults
  <2>2. Head(calls[c].todo) \in OperatorKinds
    <3>1. calls[c].todo \in Seq(OperatorKinds) /\ calls[c].todo # <<>>
      BY <1>1, TodoNotEmpty DEF OperatorShape, OperatorCallType
    <3> QED
      BY <3>1, HeadTailProperties
  <2> QED
    BY <2>1, <2>2 DEF Entry, OperatorEntries, OperatorKinds
<1>3. /\ overrides' = overrides \/ overrides' = Append(overrides, Entry(c))
      /\ opDecisions' = opDecisions \/ opDecisions' = Append(opDecisions, Entry(c))
  BY DEF OperatorRecordSteps, RecordOverride, OperatorRecordDecision, RecordFails
<1>4. overrides' \in Seq(OperatorEntries) /\ opDecisions' \in Seq(OperatorEntries)
  <2>1. overrides \in Seq(OperatorEntries) /\ opDecisions \in Seq(OperatorEntries)
    BY DEF OperatorRest
  <2>2. Append(overrides, Entry(c)) \in Seq(OperatorEntries)
    BY <1>2, <2>1, AppendProperties
  <2>3. Append(opDecisions, Entry(c)) \in Seq(OperatorEntries)
    BY <1>2, <2>1, AppendProperties
  <2> QED
    BY <1>3, <2>1, <2>2, <2>3, Zenon
<1>5. calls'[c].todo \in TodoOf(calls'[c].op)
  <2>1. CASE Remaining(c)
    <3>1. calls'[c].todo = Tail(calls[c].todo)
      BY <1>1, <2>1, TodoNotEmpty, RemainingMoves
    <3>2. Records(calls[c].op) = <<First(calls[c].op), Second(calls[c].op)>>
          /\ Two(First(calls[c].op), Second(calls[c].op))
      BY RecordsOfAnOperation
    <3>3. CASE calls[c].todo = <<First(calls[c].op), Second(calls[c].op)>>
      BY <1>1, <3>1, <3>2, <3>3 DEF TodoOf
    <3>4. CASE calls[c].todo = <<Second(calls[c].op)>>
      BY <1>1, <3>1, <3>2, <3>4 DEF TodoOf, Two
    <3> QED
      BY <1>1, <3>3, <3>4 DEF TodoInv
  <2>2. CASE Become(c, "thrown")
    BY <2>2, MoveKeepsShape DEF OperatorStages, OperatorRest
  <2> QED
    BY <2>1, <2>2 DEF OperatorRecordSteps, RecordOverride, OperatorRecordDecision, RecordFails
<1> QED
  BY <1>1, <1>4, <1>5, OperatorRestKept DEF OperatorRest

LEMMA OperatorRestStep ==
  OperatorShape /\ TodoInv /\ AuthInv /\ OperatorRest /\ [OperatorNext]_operatorVars => OperatorRest'
<1> SUFFICES ASSUME OperatorShape, TodoInv, AuthInv, OperatorRest, [OperatorNext]_operatorVars PROVE OperatorRest'
  OBVIOUS
<1>1. CASE UNCHANGED operatorVars
  BY <1>1 DEF operatorVars, OperatorRest
<1>2. CASE OperatorSetKillSwitch
  <2>1. operatorSwitch' \in BOOLEAN
    BY <1>2, Zenon DEF OperatorSetKillSwitch
  <2>2. openTo' \subseteq Calls
    BY <1>2 DEF OperatorSetKillSwitch, OperatorRest
  <2>3. UNCHANGED <<calls, effects, overrides, opDecisions>>
    BY <1>2 DEF OperatorSetKillSwitch
  <2> QED
    BY <2>1, <2>2, <2>3 DEF OperatorRest
<1>3. ASSUME NEW t \in ApprovalTokens, TokenExpires(t) PROVE OperatorRest'
  BY <1>3 DEF TokenExpires, OperatorRest
<1>4. CASE OperatorRestart
  <2>1. \A d \in Calls : \/ calls'[d] = calls[d]
                         \/ /\ calls'[d].pc = "lost" /\ calls'[d].op = calls[d].op
                            /\ calls'[d].todo = calls[d].todo
    BY <1>4, RestartMoves
  <2>2. UNCHANGED <<effects, overrides, opDecisions, operatorSwitch, openTo>>
    BY <1>4 DEF OperatorRestart
  <2> QED
    BY <2>1, <2>2 DEF OperatorRest
<1> QED
  BY <1>1, <1>2, <1>3, <1>4, OperatorBegins, OperatorActs, OperatorRecords DEF OperatorNext, OperatorRecordSteps

\* The tokens, the calls, the effects and the ledgers keep their types.
THEOREM OperatorTypes == OperatorSpec => []OperatorTypeOK
<1>1. OperatorInit => OperatorRest
  <2>1. <<>> \in Seq(OperatorEntries)
    BY EmptySeq
  <2>2. ASSUME OperatorInit, NEW c \in Calls
        PROVE  calls[c].todo = <<>> /\ calls[c].pc = "idle"
    BY <2>2 DEF OperatorInit, OperatorIdle
  <2>3. OperatorInit => /\ effects = {} /\ overrides = <<>> /\ opDecisions = <<>>
                        /\ operatorSwitch \in BOOLEAN /\ openTo = {}
    BY Zenon DEF OperatorInit
  <2> QED
    BY <2>1, <2>2, <2>3 DEF OperatorRest, TodoOf
<1>2. OperatorInit => AuthInv
  BY DEF OperatorInit, AuthInv, Acting, OperatorIdle
<1> QED
  BY <1>1, <1>2, OperatorShapeInit, OperatorShapeStep, TodoStep, AuthStep, OperatorRestStep, OperatorTypeParts,
     PTL DEF OperatorSpec

-----------------------------------------------------------------------------
(* Recovery assurance: RecoveryAssurance.                                    *)

CheckpointType == [artifacts : Artifacts, prev : Nat]
ManifestType == [checkpoint : Nat, checkpointHash : CheckpointType, artifacts : Artifacts, prev : Nat,
                 hash : CheckpointType \X Artifacts \X Nat]

RecoveryShape ==
  /\ files \in [EvidenceFiles -> Contents \union {"absent"}]
  /\ checkpoints \in Seq(CheckpointType) /\ manifests \in Seq(ManifestType)
  /\ fileChanges \in 0..MaxFileChanges

\* A manifest names an earlier checkpoint and holds the hash of it, and its own hash is
\* still taken of what the checkpoint saw, whatever was written over its artifacts.
Built(m) ==
  /\ m.checkpoint \in DOMAIN checkpoints
  /\ m.checkpointHash = checkpoints[m.checkpoint]
  /\ m.hash = <<m.checkpointHash, m.checkpointHash.artifacts, m.prev>>

RecoveryInv ==
  /\ RecoveryShape
  /\ \A i \in DOMAIN checkpoints : checkpoints[i].prev \in 0..(i - 1)
  /\ \A i \in DOMAIN manifests : manifests[i].prev \in 0..(i - 1) /\ Built(manifests[i])

LEMMA ArtifactsRead == ASSUME RecoveryShape PROVE ReadArtifacts \in Artifacts
<1> DEFINE present == {g \in EvidenceFiles : files[g] # "absent"}
<1>1. ReadArtifacts \in [present -> Contents]
  BY DEF ReadArtifacts, RecoveryShape
<1>2. present \in SUBSET EvidenceFiles
  OBVIOUS
<1> QED
  BY <1>1, <1>2 DEF Artifacts

LEMMA RecoveryCheckpoints ==
  ASSUME RecoveryInv, CreateCheckpoint
  PROVE  RecoveryInv'
<1> PICK prev \in {0, Len(checkpoints)} :
      checkpoints' = Append(checkpoints, [artifacts |-> ReadArtifacts, prev |-> prev])
  BY DEF CreateCheckpoint
<1> DEFINE added == [artifacts |-> ReadArtifacts, prev |-> prev]
<1>1. added \in CheckpointType /\ prev \in 0..Len(checkpoints)
  BY ArtifactsRead DEF RecoveryInv, RecoveryShape, CheckpointType
<1>2. /\ checkpoints \in Seq(CheckpointType) /\ checkpoints' \in Seq(CheckpointType)
      /\ Len(checkpoints') = Len(checkpoints) + 1
      /\ \A i \in 1..Len(checkpoints) : checkpoints'[i] = checkpoints[i]
      /\ checkpoints'[Len(checkpoints) + 1] = added
  BY <1>1 DEF RecoveryInv, RecoveryShape
<1>3. added.prev = prev
  OBVIOUS
<1> HIDE DEF added
<1>4. RecoveryShape'
  BY <1>2 DEF RecoveryInv, RecoveryShape, CreateCheckpoint
<1>5. \A i \in DOMAIN checkpoints' : checkpoints'[i].prev \in 0..(i - 1)
  BY <1>1, <1>2, <1>3 DEF RecoveryInv
<1>6. \A i \in DOMAIN manifests : manifests'[i].prev \in 0..(i - 1) /\ Built(manifests[i])'
  BY <1>2 DEF RecoveryInv, Built, CreateCheckpoint
<1> QED
  BY <1>4, <1>5, <1>6 DEF RecoveryInv, CreateCheckpoint

LEMMA RecoveryManifests ==
  ASSUME RecoveryInv, BuildBackupManifest
  PROVE  RecoveryInv'
<1> PICK c \in DOMAIN checkpoints, prev \in {0, Len(manifests)} :
      LET body == [checkpoint |-> c, checkpointHash |-> checkpoints[c],
                   artifacts |-> checkpoints[c].artifacts, prev |-> prev]
      IN manifests' = Append(manifests, [checkpoint |-> c, checkpointHash |-> checkpoints[c],
                                artifacts |-> body.artifacts, prev |-> prev,
                                hash |-> StripManifestHashes(body)])
  BY DEF BuildBackupManifest
<1> DEFINE added == [checkpoint |-> c, checkpointHash |-> checkpoints[c], artifacts |-> checkpoints[c].artifacts,
                     prev |-> prev, hash |-> <<checkpoints[c], checkpoints[c].artifacts, prev>>]
<1>1. manifests' = Append(manifests, added)
  BY DEF StripManifestHashes
<1>2. /\ checkpoints[c] \in CheckpointType /\ checkpoints[c].artifacts \in Artifacts /\ c \in Nat
      /\ prev \in 0..Len(manifests) /\ prev \in Nat
  <2>1. checkpoints \in Seq(CheckpointType) /\ Len(manifests) \in Nat
    BY DEF RecoveryInv, RecoveryShape
  <2>2. checkpoints[c] \in CheckpointType /\ c \in Nat
    BY <2>1
  <2>3. checkpoints[c].artifacts \in Artifacts
    BY <2>2 DEF CheckpointType
  <2> QED
    BY <2>1, <2>2, <2>3
<1>3. added \in ManifestType
  BY <1>2 DEF ManifestType
<1>4. added.prev = prev /\ Built(added)
  BY DEF Built
<1> HIDE DEF added
<1>5. /\ manifests' \in Seq(ManifestType)
      /\ Len(manifests') = Len(manifests) + 1
      /\ \A i \in 1..Len(manifests) : manifests'[i] = manifests[i]
      /\ manifests'[Len(manifests) + 1] = added
  BY <1>1, <1>3 DEF RecoveryInv, RecoveryShape
<1>6. \A i \in DOMAIN manifests' : manifests'[i].prev \in 0..(i - 1) /\ Built(manifests'[i])
  BY <1>2, <1>4, <1>5 DEF RecoveryInv, RecoveryShape
<1>7. \A i \in DOMAIN manifests' : Built(manifests[i])'
  BY <1>6 DEF Built, BuildBackupManifest
<1> QED
  BY <1>5, <1>6, <1>7 DEF RecoveryInv, RecoveryShape, BuildBackupManifest

LEMMA RecoveryChanges ==
  ASSUME RecoveryInv, ChangeFiles, MaxFileChanges \in Nat
  PROVE  RecoveryInv'
<1>1. fileChanges' \in 0..MaxFileChanges /\ UNCHANGED checkpoints
  BY DEF ChangeFiles, RecoveryInv, RecoveryShape
<1>2. CASE UNCHANGED manifests
  <2>1. files' \in [EvidenceFiles -> Contents \union {"absent"}]
    BY <1>2 DEF ChangeFiles, RecoveryInv, RecoveryShape
  <2> QED
    BY <1>1, <1>2, <2>1 DEF RecoveryInv, RecoveryShape, Built
<1>3. ASSUME NEW i \in DOMAIN manifests, NEW artifacts \in Artifacts, UNCHANGED files,
             manifests' = [manifests EXCEPT ![i].artifacts = artifacts]
      PROVE  RecoveryInv'
  <2> DEFINE changed == [manifests[i] EXCEPT !.artifacts = artifacts]
  <2>1. manifests[i] \in ManifestType
    BY DEF RecoveryInv, RecoveryShape
  <2>2. changed \in ManifestType
    BY <2>1 DEF ManifestType
  <2>3. changed.prev = manifests[i].prev /\ changed.checkpoint = manifests[i].checkpoint
        /\ changed.checkpointHash = manifests[i].checkpointHash /\ changed.hash = manifests[i].hash
    BY <2>1 DEF ManifestType
  <2>4. manifests' = [manifests EXCEPT ![i] = changed]
    BY <1>3
  <2> HIDE DEF changed
  <2>5. manifests \in Seq(ManifestType)
    BY DEF RecoveryInv, RecoveryShape
  <2>6. manifests' \in Seq(ManifestType) /\ DOMAIN manifests' = DOMAIN manifests
        /\ \A j \in DOMAIN manifests : manifests'[j] = IF j = i THEN changed ELSE manifests[j]
    BY <2>2, <2>4, <2>5
  <2>7. \A j \in DOMAIN manifests' : manifests'[j].prev \in 0..(j - 1) /\ Built(manifests[j])'
    BY <1>1, <2>3, <2>6 DEF RecoveryInv, Built
  <2> QED
    BY <1>1, <1>3, <2>6, <2>7 DEF RecoveryInv, RecoveryShape
<1> QED
  BY <1>2, <1>3 DEF ChangeFiles

LEMMA RecoverySteps == RecoverySpec => []RecoveryInv
<1> USE RecoveryAssumption
<1>1. RecoveryInit => RecoveryInv
  BY DEF RecoveryInit, RecoveryInv, RecoveryShape
<1>2. RecoveryInv /\ [RecoveryNext]_recoveryVars => RecoveryInv'
  <2> SUFFICES ASSUME RecoveryInv, [RecoveryNext]_recoveryVars PROVE RecoveryInv'
    OBVIOUS
  <2>1. CASE UNCHANGED recoveryVars
    BY <2>1 DEF recoveryVars, RecoveryInv, RecoveryShape, Built
  <2> QED
    BY <2>1, RecoveryCheckpoints, RecoveryManifests, RecoveryChanges, RecoveryAssumption
       DEF RecoveryNext
<1> QED
  BY <1>1, <1>2, PTL DEF RecoverySpec

\* Checkpoints and manifests keep their types, and each of them names one before it.
THEOREM RecoveryTypes == RecoverySpec => []RecoveryTypeOK
<1>1. RecoveryInv => RecoveryTypeOK
  <2> SUFFICES ASSUME RecoveryInv PROVE RecoveryTypeOK
    OBVIOUS
  <2>1. \A i \in DOMAIN checkpoints : checkpoints[i] \in CheckpointType
    BY DEF RecoveryInv, RecoveryShape
  <2>2. \A i \in DOMAIN manifests : manifests[i] \in ManifestType
    BY DEF RecoveryInv, RecoveryShape
  <2>3. \A i \in DOMAIN checkpoints : checkpoints[i].artifacts \in Artifacts /\ checkpoints[i].prev \in 0..(i - 1)
    BY <2>1 DEF RecoveryInv, CheckpointType
  <2>4. \A i \in DOMAIN manifests : manifests[i].artifacts \in Artifacts /\ manifests[i].prev \in 0..(i - 1)
                                  /\ manifests[i].checkpoint \in DOMAIN checkpoints
    BY <2>2 DEF RecoveryInv, Built, ManifestType
  <2> QED
    BY <2>3, <2>4 DEF RecoveryInv, RecoveryShape, RecoveryTypeOK
<1> QED
  BY <1>1, RecoverySteps, PTL

\* A manifest verifies exactly when the files are as its checkpoint saw them and it is
\* the one that was built (backup-integrity-verifier.js), for every number of files,
\* checkpoints, manifests and changes.
THEOREM VerifiedIsUnchangedHolds == RecoverySpec => []VerifiedIsUnchanged
<1>1. RecoveryInv => VerifiedIsUnchanged
  <2> SUFFICES ASSUME RecoveryInv, NEW i \in DOMAIN manifests, NEW c \in DOMAIN checkpoints
               PROVE  VerifyBackupIntegrity(manifests[i], c)
                      <=> /\ checkpoints[c] = checkpoints[manifests[i].checkpoint]
                          /\ manifests[i].artifacts = checkpoints[c].artifacts
                          /\ \A f \in DOMAIN checkpoints[c].artifacts : files[f] = checkpoints[c].artifacts[f]
    BY DEF VerifiedIsUnchanged
  <2> DEFINE m == manifests[i]
  <2>1. Built(m)
    BY DEF RecoveryInv
  <2> HIDE DEF m
  <2>2. m.hash = StripManifestHashes(m) <=> m.artifacts = m.checkpointHash.artifacts
    BY <2>1 DEF Built, StripManifestHashes
  <2> QED
    BY <2>1, <2>2 DEF Built, VerifyBackupIntegrity, ArtifactIntact, m
<1> QED
  BY <1>1, RecoverySteps, PTL
-----------------------------------------------------------------------------
(* Experiments: ExperimentGovernance.                                        *)

-----------------------------------------------------------------------------
(* The profiles are recomputed step by step.                                 *)

NoProfiles == [history |-> <<>>, current |-> 0]
After(f, s, n) == IF n = 0 THEN NoProfiles ELSE Step(f[n - 1], s[n])
AfterTo(s, n) == CHOOSE f : f = [k \in 0..n |-> After(f, s, k)]

LEMMA AfterExists ==
  ASSUME NEW s, NEW m \in Nat PROVE \E f : f = [k \in 0..m |-> After(f, s, k)]
<1> DEFINE Defined(n) == \E f : f = [k \in 0..n |-> After(f, s, k)]
           Without == {n \in Nat : ~Defined(n)}
<1>1. Defined(0)
  <2> DEFINE f == [k \in 0..0 |-> NoProfiles]
  <2>1. f = [k \in 0..0 |-> After(f, s, k)]
    BY DEF After
  <2> QED
    BY <2>1
<1>2. ASSUME NEW n \in Nat, n # 0, Defined(n - 1) PROVE Defined(n)
  <2>1. PICK f : f = [k \in 0..(n - 1) |-> After(f, s, k)]
    BY <1>2
  <2> DEFINE g == [k \in 0..n |-> IF k = n THEN After(f, s, n) ELSE f[k]]
  <2>2. \A k \in 0..(n - 1) : g[k] = f[k]
    OBVIOUS
  <2>3. \A k \in 0..n : After(g, s, k) = After(f, s, k)
    <3>1. \A k \in 0..n : k # 0 => k - 1 \in 0..(n - 1)
      OBVIOUS
    <3> HIDE DEF g
    <3> QED
      BY <2>2, <3>1 DEF After
  <2>4. \A k \in 0..(n - 1) : f[k] = After(f, s, k)
    BY <2>1
  <2>5. \A k \in 0..n : g[k] = After(g, s, k)
    BY <2>3, <2>4
  <2>6. g = [k \in 0..n |-> After(g, s, k)]
    BY <2>5
  <2> QED
    BY <2>6
<1> HIDE DEF Defined
<1>3. Without = {}
  <2> SUFFICES ASSUME Without # {} PROVE FALSE
    OBVIOUS
  <2>1. PICK n \in Without : \A k \in Without : n <= k
    <3>1. Without \subseteq Nat
      OBVIOUS
    <3> HIDE DEF Without
    <3> QED
      BY <3>1, LeastNumber
  <2>2. n \in Nat /\ n # 0 /\ ~Defined(n) /\ n - 1 \in Nat
    BY <1>1, <2>1
  <2>3. n - 1 \notin Without
    BY <2>1, <2>2
  <2> QED
    BY <1>2, <2>2, <2>3
<1> QED
  BY <1>3 DEF Defined

LEMMA AfterEquation ==
  ASSUME NEW s, NEW m \in Nat PROVE \A k \in 0..m : AfterTo(s, m)[k] = After(AfterTo(s, m), s, k)
<1> DEFINE F(f) == [k \in 0..m |-> After(f, s, k)]
           g == AfterTo(s, m)
<1>1. g = CHOOSE f : f = F(f)
  BY DEF AfterTo
<1>2. \E f : f = F(f)
  BY AfterExists
<1>3. g = F(g)
  <2> HIDE DEF g, F
  <2> QED
    BY <1>1, <1>2
<1>4. \A k \in 0..m : g[k] = After(g, s, k)
  <2> HIDE DEF g
  <2> QED
    BY <1>3
<1> QED
  BY <1>4

LEMMA ProfilesAre ==
  ASSUME NEW s PROVE Profiles(s) = AfterTo(s, Len(s))[Len(s)]
BY DEF Profiles, AfterTo, After, NoProfiles

\* A decision more is a step more.
LEMMA ProfilesGrow ==
  ASSUME NEW T, NEW s \in Seq(T), NEW d \in T
  PROVE  Profiles(Append(s, d)) = Step(Profiles(s), d)
<1> DEFINE m == Len(s)
           t == Append(s, d)
           f == AfterTo(s, m)
           g == AfterTo(t, m + 1)
<1>1. m \in Nat /\ Len(t) = m + 1 /\ t[m + 1] = d /\ \A k \in 1..m : t[k] = s[k]
  BY AppendProperties, LenProperties
<1>2. \A k \in 0..m : f[k] = After(f, s, k)
  BY <1>1, AfterEquation
<1>3. \A k \in 0..(m + 1) : g[k] = After(g, t, k)
  <2>1. m + 1 \in Nat
    BY <1>1
  <2> HIDE DEF m, t
  <2> QED
    BY <2>1, AfterEquation
<1> DEFINE Differ == {k \in 0..m : f[k] # g[k]}
<1> HIDE DEF f, g, m, t
<1>4. Differ = {}
  <2> SUFFICES ASSUME Differ # {} PROVE FALSE
    OBVIOUS
  <2>1. PICK n \in Differ : \A k \in Differ : n <= k
    <3>1. Differ \subseteq Nat
      BY <1>1
    <3> HIDE DEF Differ
    <3> QED
      BY <3>1, LeastNumber
  <2>2. n \in 0..m /\ n \in 0..(m + 1) /\ f[n] # g[n]
    BY <1>1, <2>1
  <2>3. n # 0
    BY <1>2, <1>3, <2>2 DEF After
  <2>4. n - 1 \in 0..m /\ n \in 1..m /\ ~(n <= n - 1)
    BY <1>1, <2>2, <2>3
  <2>5. f[n - 1] = g[n - 1]
    BY <2>1, <2>4
  <2> QED
    BY <1>1, <1>2, <1>3, <2>2, <2>3, <2>4, <2>5 DEF After
<1>5. g[m + 1] = Step(f[m], d)
  <2>1. m \in 0..m /\ m + 1 \in 0..(m + 1) /\ m + 1 # 0 /\ (m + 1) - 1 = m
    BY <1>1
  <2>2. f[m] = g[m]
    BY <1>4, <2>1
  <2> QED
    BY <1>1, <1>3, <2>1, <2>2 DEF After
<1> QED
  BY <1>1, <1>5, ProfilesAre DEF f, g, m, t

LEMMA ProfilesBegin == Profiles(<<>>) = NoProfiles
<1>1. Len(<<>>) = 0 /\ 0 \in Nat /\ 0 \in 0..0
  OBVIOUS
<1> QED
  BY <1>1, ProfilesAre, AfterEquation DEF After

-----------------------------------------------------------------------------
(* The adoptions that stand are those whose profiles are kept.              *)

DecisionType == [experiment : 1..MaxExperiments, decision : RolloutChoices, key : ExperimentKeys]
CountOf(s, choice, from, to) == Cardinality({i \in from..to : s[i].decision = choice})
Stands(s, i) == /\ s[i].decision = "adopt"
                /\ \A j \in i..Len(s) : CountOf(s, "rollback", i, j) < CountOf(s, "adopt", i, j)
Excess(s, i, n) == CountOf(s, "adopt", i, Len(s)) = CountOf(s, "rollback", i, Len(s)) + n

LEMMA CountIsNat == ASSUME NEW s, NEW choice, NEW i \in Nat, NEW j \in Nat PROVE CountOf(s, choice, i, j) \in Nat
<1> DEFINE S == {k \in i..j : s[k].decision = choice}
<1>1. IsFiniteSet(i..j) /\ S \subseteq i..j
  BY FS_Interval
<1>2. IsFiniteSet(S)
  BY <1>1, FS_Subset
<1> QED
  BY <1>2, FS_CardinalityType DEF CountOf

LEMMA CountGrows ==
  ASSUME NEW s \in Seq(DecisionType), NEW d \in DecisionType, NEW choice, NEW i \in 1..(Len(s) + 1)
  PROVE  /\ \A j \in i..Len(s) : CountOf(Append(s, d), choice, i, j) = CountOf(s, choice, i, j)
         /\ CountOf(Append(s, d), choice, i, Len(s) + 1)
              = CountOf(s, choice, i, Len(s)) + (IF d.decision = choice THEN 1 ELSE 0)
<1> DEFINE m == Len(s)
           t == Append(s, d)
<1>1. m \in Nat /\ t[m + 1] = d /\ \A k \in 1..m : t[k] = s[k]
  BY AppendProperties, LenProperties
<1> HIDE DEF m, t
<1>2. i \in 1..(m + 1) /\ i \in Nat
  BY <1>1 DEF m
<1>3. ASSUME NEW j \in i..m PROVE CountOf(t, choice, i, j) = CountOf(s, choice, i, j)
  <2>1. \A k \in i..j : t[k] = s[k]
    BY <1>1, <1>2
  <2>2. {k \in i..j : t[k].decision = choice} = {k \in i..j : s[k].decision = choice}
    BY <2>1
  <2> QED
    BY <2>2 DEF CountOf
<1>4. CountOf(t, choice, i, m + 1) = CountOf(s, choice, i, m) + (IF d.decision = choice THEN 1 ELSE 0)
  <2> DEFINE Old == {k \in i..m : s[k].decision = choice}
             New == {k \in i..(m + 1) : t[k].decision = choice}
  <2>1. IsFiniteSet(Old) /\ m + 1 \notin Old
    <3>1. i \in Int /\ m \in Int
      BY <1>1, <1>2
    <3>2. IsFiniteSet(i..m)
      BY <3>1, FS_Interval
    <3>3. Old \subseteq i..m /\ m + 1 \notin i..m
      BY <1>1, <1>2
    <3> QED
      BY <3>2, <3>3, FS_Subset
  <2>2. \A k \in i..m : k \in 1..m /\ k \in i..(m + 1)
    BY <1>1, <1>2
  <2>3. \A k \in i..(m + 1) : k \in i..m \/ k = m + 1
    BY <1>1, <1>2
  <2>4. m + 1 \in i..(m + 1)
    BY <1>1, <1>2
  <2>5. New = IF d.decision = choice THEN Old \cup {m + 1} ELSE Old
    BY <1>1, <2>2, <2>3, <2>4
  <2>6. Cardinality(Old \cup {m + 1}) = Cardinality(Old) + 1
    <3> HIDE DEF Old
    <3> QED
      BY <2>1, FS_AddElement
  <2>7. Cardinality(Old) \in Nat
    <3> HIDE DEF Old
    <3> QED
      BY <2>1, FS_CardinalityType
  <2>8. CountOf(t, choice, i, m + 1) = Cardinality(New) /\ CountOf(s, choice, i, m) = Cardinality(Old)
    BY DEF CountOf
  <2> HIDE DEF Old, New
  <2> QED
    BY <2>5, <2>6, <2>7, <2>8
<1> QED
  BY <1>3, <1>4 DEF m, t

LEMMA NothingBefore ==
  ASSUME NEW s, NEW choice, NEW m \in Nat PROVE CountOf(s, choice, m + 1, m) = 0
<1>1. {k \in (m + 1)..m : s[k].decision = choice} = {}
  OBVIOUS
<1> QED
  BY <1>1, FS_EmptySet DEF CountOf

\* marks[k]: the adoption whose profile is the kth one above the default profile.
Profile(p, k) == IF k = Len(p.history) + 1 THEN p.current ELSE p.history[k]
Marks(s, p, marks) ==
  /\ p.history \in Seq(0..MaxExperiments) /\ p.current \in 0..MaxExperiments
  /\ marks \in Seq(Nat) /\ Len(marks) = Len(p.history)
  /\ Profile(p, 1) = 0
  /\ \A k \in 1..Len(marks) :
       /\ marks[k] \in 1..Len(s) /\ s[marks[k]].experiment = Profile(p, k + 1)
       /\ Excess(s, marks[k], Len(marks) + 1 - k)
       /\ \A l \in 1..Len(marks) : k < l => marks[k] < marks[l]
  /\ \A i \in 1..Len(s) : Stands(s, i) <=> \E k \in 1..Len(marks) : marks[k] = i

LEMMA StandsGrows ==
  ASSUME NEW s \in Seq(DecisionType), NEW d \in DecisionType
  PROVE  /\ \A i \in 1..Len(s) : \A n \in Int : Excess(s, i, n) =>
               Excess(Append(s, d), i, IF d.decision = "adopt" THEN n + 1
                                       ELSE IF d.decision = "rollback" THEN n - 1 ELSE n)
         /\ \A i \in 1..Len(s) : \A n \in Int : Excess(s, i, n) =>
               (Stands(Append(s, d), i) <=> Stands(s, i) /\ ~(d.decision = "rollback" /\ n <= 1))
         /\ \A i \in 1..Len(s) : ~Stands(s, i) => ~Stands(Append(s, d), i)
         /\ Stands(Append(s, d), Len(s) + 1) <=> d.decision = "adopt"
         /\ d.decision = "adopt" => Excess(Append(s, d), Len(s) + 1, 1)
<1> DEFINE m == Len(s)
           t == Append(s, d)
           Plus(choice) == IF d.decision = choice THEN 1 ELSE 0
<1>1. m \in Nat /\ Len(t) = m + 1 /\ t[m + 1] = d /\ \A k \in 1..m : t[k] = s[k]
  BY AppendProperties, LenProperties
<1>2. \A i \in 1..(m + 1) : \A choice : CountOf(t, choice, i, m + 1) = CountOf(s, choice, i, m) + Plus(choice)
  BY CountGrows
<1>3. \A i \in 1..(m + 1) : \A choice : \A j \in i..m : CountOf(t, choice, i, j) = CountOf(s, choice, i, j)
  BY CountGrows
<1>4. \A i \in 1..(m + 1) : \A j \in i..(m + 1) : \A choice : CountOf(s, choice, i, j) \in Nat /\ CountOf(s, choice, i, m) \in Nat
  <2>1. \A i \in 1..(m + 1) : i \in Nat /\ \A j \in i..(m + 1) : j \in Nat
    BY <1>1
  <2> QED
    BY <1>1, <2>1, CountIsNat
<1> HIDE DEF m, t
<1>5. ASSUME NEW i \in 1..m, NEW n \in Int, Excess(s, i, n)
      PROVE  Excess(t, i, IF d.decision = "adopt" THEN n + 1 ELSE IF d.decision = "rollback" THEN n - 1 ELSE n)
  <2>1. i \in 1..(m + 1) /\ m + 1 \in i..(m + 1)
    BY <1>1
  <2>2. CountOf(s, "adopt", i, m) = CountOf(s, "rollback", i, m) + n
    BY <1>5 DEF Excess, m
  <2>3. CountOf(s, "adopt", i, m) \in Nat /\ CountOf(s, "rollback", i, m) \in Nat
    BY <1>4, <2>1
  <2>4. /\ CountOf(t, "adopt", i, m + 1) = CountOf(s, "adopt", i, m) + Plus("adopt")
        /\ CountOf(t, "rollback", i, m + 1) = CountOf(s, "rollback", i, m) + Plus("rollback")
    BY <1>2, <2>1
  <2> QED
    BY <1>1, <2>2, <2>3, <2>4 DEF Excess
<1>6. ASSUME NEW i \in 1..m
      PROVE  Stands(t, i) <=> Stands(s, i) /\ CountOf(t, "rollback", i, m + 1) < CountOf(t, "adopt", i, m + 1)
  <2>1. i \in 1..(m + 1) /\ i..(m + 1) = (i..m) \cup {m + 1}
    BY <1>1
  <2>2. t[i] = s[i] /\ Len(s) = m
    BY <1>1 DEF m
  <2>3. \A j \in i..m : CountOf(t, "rollback", i, j) = CountOf(s, "rollback", i, j)
                        /\ CountOf(t, "adopt", i, j) = CountOf(s, "adopt", i, j)
    BY <1>3, <2>1
  <2> HIDE DEF Plus
  <2> QED
    BY <1>1, <2>1, <2>2, <2>3 DEF Stands
<1>7. ASSUME NEW i \in 1..m, NEW n \in Int, Excess(s, i, n)
      PROVE  Stands(t, i) <=> Stands(s, i) /\ ~(d.decision = "rollback" /\ n <= 1)
  <2>1. i \in 1..(m + 1) /\ m \in i..m
    BY <1>1
  <2>2. CountOf(s, "adopt", i, m) = CountOf(s, "rollback", i, m) + n
    BY <1>7 DEF Excess, m
  <2>3. CountOf(s, "adopt", i, m) \in Nat /\ CountOf(s, "rollback", i, m) \in Nat
    BY <1>4, <2>1
  <2>4. /\ CountOf(t, "adopt", i, m + 1) = CountOf(s, "adopt", i, m) + Plus("adopt")
        /\ CountOf(t, "rollback", i, m + 1) = CountOf(s, "rollback", i, m) + Plus("rollback")
    BY <1>2, <2>1
  <2>5. Stands(s, i) => n > 0
    <3>1. Stands(s, i) => CountOf(s, "rollback", i, m) < CountOf(s, "adopt", i, m)
      BY <2>1 DEF Stands, m
    <3> QED
      BY <2>2, <2>3, <3>1
  <2>6. Stands(s, i) => (CountOf(t, "rollback", i, m + 1) < CountOf(t, "adopt", i, m + 1)
                           <=> ~(d.decision = "rollback" /\ n <= 1))
    BY <2>2, <2>3, <2>4, <2>5
  <2> QED
    BY <1>6, <2>6, Zenon
<1>8. Stands(t, m + 1) <=> d.decision = "adopt"
  <2>1. m + 1 \in 1..(m + 1) /\ (m + 1)..(m + 1) = {m + 1}
    BY <1>1
  <2>2. CountOf(t, "adopt", m + 1, m + 1) = Plus("adopt") /\ CountOf(t, "rollback", m + 1, m + 1) = Plus("rollback")
    BY <1>1, <1>2, <2>1, NothingBefore
  <2> QED
    BY <1>1, <2>1, <2>2 DEF Stands
<1>9. d.decision = "adopt" => Excess(t, m + 1, 1)
  <2>1. m + 1 \in 1..(m + 1)
    BY <1>1
  <2>2. CountOf(t, "adopt", m + 1, m + 1) = Plus("adopt") /\ CountOf(t, "rollback", m + 1, m + 1) = Plus("rollback")
    BY <1>1, <1>2, <2>1, NothingBefore
  <2> QED
    BY <1>1, <2>2 DEF Excess
<1>10. \A i \in 1..m : ~Stands(s, i) => ~Stands(t, i)
  BY <1>6
<1> QED
  BY <1>5, <1>7, <1>8, <1>9, <1>10 DEF m, t

LEMMA MarksGrow ==
  ASSUME ExperimentAssumption, NEW s \in Seq(DecisionType), NEW d \in DecisionType, NEW p,
         NEW marks, Marks(s, p, marks)
  PROVE  \E more : Marks(Append(s, d), Step(p, d), more)
<1> DEFINE m == Len(s)
           t == Append(s, d)
           n == Len(marks)
           q == Step(p, d)
<1>1. m \in Nat /\ Len(t) = m + 1 /\ t[m + 1] = d /\ \A i \in 1..m : t[i] = s[i]
  BY AppendProperties, LenProperties
<1>2. /\ p.history \in Seq(0..MaxExperiments) /\ p.current \in 0..MaxExperiments
      /\ marks \in Seq(Nat) /\ Len(p.history) = n /\ n \in Nat
    BY LenProperties DEF Marks
<1>3. d.experiment \in 1..MaxExperiments /\ d.experiment \in 0..MaxExperiments
  BY DEF DecisionType, ExperimentAssumption
<1>4. /\ Profile(p, 1) = 0
      /\ \A k \in 1..n : /\ marks[k] \in 1..m /\ s[marks[k]].experiment = Profile(p, k + 1)
                          /\ Excess(s, marks[k], n + 1 - k)
                          /\ \A l \in 1..n : k < l => marks[k] < marks[l]
      /\ \A i \in 1..m : Stands(s, i) <=> \E k \in 1..n : marks[k] = i
  BY DEF Marks
<1> HIDE DEF m, n, t
<1>5. CASE d.decision = "adopt"
  <2> DEFINE more == Append(marks, m + 1)
  <2>1. q.history = Append(p.history, p.current) /\ q.current = d.experiment
    BY <1>5 DEF Step
  <2>2. q.history \in Seq(0..MaxExperiments) /\ q.current \in 0..MaxExperiments /\ Len(q.history) = n + 1
    BY <1>2, <1>3, <2>1, AppendProperties
  <2>3. \A k \in 1..(n + 1) : Profile(q, k) = Profile(p, k)
    <3>1. \A k \in 1..n : Append(p.history, p.current)[k] = p.history[k]
      BY <1>2, AppendProperties
    <3>2. Append(p.history, p.current)[n + 1] = p.current
      BY <1>2, AppendProperties
    <3>3. \A k \in 1..(n + 1) : k # n + 2 /\ (k # n + 1 => k \in 1..n)
      BY <1>2
    <3> HIDE DEF q
    <3> QED
      BY <1>2, <2>1, <2>2, <3>1, <3>2, <3>3 DEF Profile
  <2>4. Profile(q, n + 2) = d.experiment
    <3>1. n + 2 = (n + 1) + 1
      BY <1>2
    <3> HIDE DEF q
    <3> QED
      BY <2>1, <2>2, <3>1 DEF Profile
  <2>5. /\ more \in Seq(Nat) /\ Len(more) = n + 1 /\ more[n + 1] = m + 1
        /\ \A k \in 1..n : more[k] = marks[k]
    <3>1. m + 1 \in Nat
      BY <1>1
    <3> QED
      BY <1>2, <3>1, AppendProperties DEF n
  <2> HIDE DEF q, more
  <2>6. \A k \in 1..n : /\ more[k] \in 1..(m + 1) /\ t[more[k]].experiment = Profile(q, k + 1)
                        /\ Excess(t, more[k], (n + 1) + 1 - k)
    <3> TAKE k \in 1..n
    <3>1. k + 1 \in 1..(n + 1) /\ n + 1 - k \in Int /\ (n + 1 - k) + 1 = (n + 1) + 1 - k
      BY <1>2
    <3>2. marks[k] \in 1..m /\ marks[k] \in 1..(m + 1) /\ t[marks[k]] = s[marks[k]]
      BY <1>1, <1>4
    <3>3. Excess(t, marks[k], (n + 1 - k) + 1)
      BY <1>4, <1>5, <3>1, <3>2, StandsGrows DEF t, m
    <3>4. s[marks[k]].experiment = Profile(p, k + 1)
      BY <1>4
    <3> QED
      BY <2>3, <2>5, <3>1, <3>2, <3>3, <3>4
  <2>7. /\ more[n + 1] \in 1..(m + 1) /\ t[more[n + 1]].experiment = Profile(q, n + 2)
        /\ Excess(t, more[n + 1], 1)
    BY <1>1, <1>5, <2>4, <2>5, StandsGrows DEF t, m
  <2>8. \A k, l \in 1..(n + 1) : k < l => more[k] < more[l]
    <3> TAKE k, l \in 1..(n + 1)
    <3> HAVE k < l
    <3>1. k \in 1..n /\ (l \in 1..n \/ l = n + 1)
      BY <1>2
    <3>2. marks[k] \in 1..m /\ (l \in 1..n => marks[k] < marks[l])
      BY <1>4, <3>1
    <3> QED
      BY <1>1, <2>5, <3>1, <3>2
  <2>9. \A i \in 1..(m + 1) : Stands(t, i) <=> \E k \in 1..(n + 1) : more[k] = i
    <3>1. ASSUME NEW i \in 1..m PROVE Stands(t, i) <=> Stands(s, i)
      <4>1. CASE Stands(s, i)
        <5>1. PICK k \in 1..n : marks[k] = i
          BY <1>4, <4>1
        <5>2. Excess(s, i, n + 1 - k) /\ n + 1 - k \in Int
          BY <1>2, <1>4, <5>1
        <5> QED
          BY <1>5, <4>1, <5>2, StandsGrows DEF t, m
      <4>2. CASE ~Stands(s, i)
        BY <4>2, StandsGrows DEF t, m
      <4> QED
        BY <4>1, <4>2
    <3>2. Stands(t, m + 1)
      BY <1>5, StandsGrows DEF t, m
    <3>3. \A i \in 1..(m + 1) : i \in 1..m \/ i = m + 1
      BY <1>1
    <3>4. \A k \in 1..(n + 1) : k \in 1..n \/ k = n + 1
      BY <1>2
    <3>5. n + 1 \in 1..(n + 1) /\ (\A k \in 1..n : k \in 1..(n + 1)) /\ m + 1 \notin 1..m
      BY <1>1, <1>2
    <3>6. \A i \in 1..m : Stands(s, i) <=> \E k \in 1..n : marks[k] = i
      BY <1>4
    <3>7. \A i \in 1..m : (\E k \in 1..(n + 1) : more[k] = i) <=> \E k \in 1..n : marks[k] = i
      BY <2>5, <3>4, <3>5
    <3>8. \E k \in 1..(n + 1) : more[k] = m + 1
      BY <2>5, <3>5
    <3> QED
      BY <3>1, <3>2, <3>3, <3>6, <3>7, <3>8
  <2>10. Profile(q, 1) = 0
    <3>1. 1 \in 1..(n + 1)
      BY <1>2
    <3> QED
      BY <1>4, <2>3, <3>1
  <2>11. \A k \in 1..(n + 1) : /\ more[k] \in 1..(m + 1) /\ t[more[k]].experiment = Profile(q, k + 1)
                               /\ Excess(t, more[k], (n + 1) + 1 - k)
    <3>1. \A k \in 1..(n + 1) : k \in 1..n \/ k = n + 1
      BY <1>2
    <3>2. (n + 1) + 1 = n + 2 /\ (n + 1) + 1 - (n + 1) = 1
      BY <1>2
    <3> QED
      BY <2>6, <2>7, <3>1, <3>2
  <2>12. Marks(t, q, more)
    BY <1>1, <2>2, <2>5, <2>8, <2>9, <2>10, <2>11 DEF Marks
  <2> QED
    BY <2>12 DEF t, q
<1>6. CASE d.decision = "rollback" /\ p.history # <<>>
  <2> DEFINE more == SubSeq(marks, 1, n - 1)
  <2>0. n # 0 /\ n - 1 \in Nat /\ n - 1 \in 0..n
    <3>1. n # 0
      BY <1>2, <1>6, EmptySeq DEF n
    <3> QED
      BY <1>2, <3>1
  <2>1. q.history = SubSeq(p.history, 1, n - 1) /\ q.current = p.history[n]
    BY <1>2, <1>6 DEF Step, Front, Last
  <2>2. /\ SubSeq(p.history, 1, n - 1) \in Seq(0..MaxExperiments) /\ Len(SubSeq(p.history, 1, n - 1)) = n - 1
        /\ \A k \in 1..(n - 1) : SubSeq(p.history, 1, n - 1)[k] = p.history[k]
    BY SMTT(30), <1>2, <2>0, SubSeqProperties
  <2>3. /\ more \in Seq(Nat) /\ Len(more) = n - 1 /\ \A k \in 1..(n - 1) : more[k] = marks[k]
    <3>1. Len(marks) = n /\ 1 \in 1..(n + 1)
      BY <1>2 DEF n
    <3>2. /\ SubSeq(marks, 1, n - 1) \in Seq(Nat) /\ Len(SubSeq(marks, 1, n - 1)) = n - 1
          /\ \A k \in 1..(n - 1) : SubSeq(marks, 1, n - 1)[k] = marks[k]
      BY <1>2, <2>0, <3>1, SubSeqProperties
    <3> QED
      BY <3>2
  <2> HIDE DEF more, q
  <2>4. p.history[n] \in 0..MaxExperiments
    <3>1. n \in 1..Len(p.history)
      BY <1>2, <2>0
    <3> QED
      BY <1>2, <3>1, ElementOfSeq
  <2>5. \A k \in 1..n : Profile(q, k) = Profile(p, k)
    <3>1. \A k \in 1..n : k # n + 1 /\ (k # n => k \in 1..(n - 1)) /\ (n - 1) + 1 = n
      BY <1>2, <2>0
    <3> QED
      BY <1>2, <2>1, <2>2, <3>1 DEF Profile
  <2>6. \A k \in 1..(n - 1) : /\ k \in 1..n /\ k + 1 \in 1..n /\ n + 1 - k \in Int /\ ~(n + 1 - k <= 1)
                              /\ (n + 1 - k) - 1 = (n - 1) + 1 - k
    BY <1>2, <2>0
  <2>7. \A k \in 1..(n - 1) : /\ more[k] \in 1..(m + 1) /\ t[more[k]].experiment = Profile(q, k + 1)
                              /\ Excess(t, more[k], (n - 1) + 1 - k)
    <3> TAKE k \in 1..(n - 1)
    <3>1. marks[k] \in 1..m /\ marks[k] \in 1..(m + 1) /\ t[marks[k]] = s[marks[k]]
      BY <1>1, <1>4, <2>6
    <3>2. Excess(t, marks[k], (n + 1 - k) - 1)
      BY <1>4, <1>6, <2>6, <3>1, StandsGrows DEF t, m
    <3>3. s[marks[k]].experiment = Profile(p, k + 1)
      BY <1>4, <2>6
    <3> QED
      BY <2>3, <2>5, <2>6, <3>1, <3>2, <3>3
  <2>8. \A k, l \in 1..(n - 1) : k < l => more[k] < more[l]
    BY <1>4, <2>3, <2>6
  <2>9. \A i \in 1..(m + 1) : Stands(t, i) <=> \E k \in 1..(n - 1) : more[k] = i
    <3>1. ~Stands(t, m + 1)
      BY <1>6, StandsGrows DEF t, m
    <3>2. \A i \in 1..(m + 1) : i \in 1..m \/ i = m + 1
      BY <1>1
    <3>3. \A k \in 1..(n - 1) : more[k] # m + 1
      <4>1. \A k \in 1..(n - 1) : more[k] \in 1..m
        BY <1>4, <2>3, <2>6
      <4> QED
        BY <1>1, <4>1
    <3>4. ASSUME NEW i \in 1..m, NEW k \in 1..n, marks[k] = i
          PROVE  Stands(t, i) <=> k # n
      <4>0. Excess(s, marks[k], n + 1 - k)
        BY <1>4
      <4>1. Excess(s, i, n + 1 - k)
        BY <3>4, <4>0
      <4>3. n + 1 - k \in Int /\ (n + 1 - k <= 1 <=> k = n)
        BY <1>2
      <4>2. Stands(s, i)
        BY <1>4, <3>4
      <4> QED
        BY <1>6, <4>1, <4>2, <4>3, StandsGrows DEF t, m
    <3>5. ASSUME NEW i \in 1..m, Stands(t, i) PROVE \E k \in 1..(n - 1) : more[k] = i
      <4>1. Stands(s, i)
        BY <3>5, StandsGrows DEF t, m
      <4>2. PICK k \in 1..n : marks[k] = i
        BY <1>4, <4>1
      <4>3. k \in 1..(n - 1)
        BY <1>2, <3>4, <3>5, <4>2
      <4> QED
        BY <2>3, <4>2, <4>3
    <3>6. ASSUME NEW i \in 1..m, NEW k \in 1..(n - 1), more[k] = i PROVE Stands(t, i)
      <4>1. k \in 1..n /\ k # n /\ marks[k] = i
        BY SMTT(30), <1>2, <2>3, <2>6, <3>6
      <4> QED
        BY <3>4, <4>1
    <3> QED
      BY <3>1, <3>2, <3>3, <3>5, <3>6
  <2>10. Profile(q, 1) = 0
    <3>1. 1 \in 1..n
      BY <1>2, <2>0
    <3> QED
      BY <1>4, <2>5, <3>1
  <2>11. Marks(t, q, more)
    BY <1>1, <2>1, <2>2, <2>3, <2>4, <2>7, <2>8, <2>9, <2>10 DEF Marks
  <2> QED
    BY <2>11 DEF t, q
<1>7. CASE ~(d.decision = "adopt") /\ ~(d.decision = "rollback" /\ p.history # <<>>)
  <2>1. q = p
    BY <1>7 DEF Step
  <2>2. d.decision = "rollback" => n = 0
    BY <1>2, <1>7, EmptySeq
  <2> HIDE DEF q
  <2>3. \A k \in 1..n : /\ marks[k] \in 1..(m + 1) /\ t[marks[k]].experiment = Profile(q, k + 1)
                        /\ Excess(t, marks[k], n + 1 - k)
    <3> TAKE k \in 1..n
    <3>1. marks[k] \in 1..m /\ marks[k] \in 1..(m + 1) /\ t[marks[k]] = s[marks[k]]
      BY <1>1, <1>4
    <3>2. d.decision # "rollback" /\ n + 1 - k \in Int
      BY <1>2, <2>2
    <3>3. Excess(t, marks[k], n + 1 - k)
      BY <1>4, <1>7, <3>1, <3>2, StandsGrows DEF t, m
    <3>4. s[marks[k]].experiment = Profile(p, k + 1)
      BY <1>4
    <3> QED
      BY <2>1, <3>1, <3>3, <3>4
  <2>4. \A i \in 1..(m + 1) : Stands(t, i) <=> \E k \in 1..n : marks[k] = i
    <3>1. ~Stands(t, m + 1)
      BY <1>7, StandsGrows DEF t, m
    <3>2. \A i \in 1..(m + 1) : i \in 1..m \/ i = m + 1
      BY <1>1
    <3>3. \A k \in 1..n : marks[k] # m + 1
      BY <1>1, <1>4
    <3>4. ASSUME NEW i \in 1..m, NEW k \in 1..n, marks[k] = i PROVE Stands(t, i)
      <4>0. Excess(s, marks[k], n + 1 - k)
        BY <1>4
      <4>1. Excess(s, i, n + 1 - k)
        BY <3>4, <4>0
      <4>3. n + 1 - k \in Int /\ d.decision # "rollback"
        BY <1>2, <2>2
      <4>2. Stands(s, i)
        BY <1>4, <3>4
      <4> QED
        BY <4>1, <4>2, <4>3, StandsGrows DEF t, m
    <3>5. ASSUME NEW i \in 1..m, Stands(t, i) PROVE \E k \in 1..n : marks[k] = i
      <4>1. Stands(s, i)
        BY <3>5, StandsGrows DEF t, m
      <4> QED
        BY <1>4, <4>1
    <3> QED
      BY <3>1, <3>2, <3>3, <3>4, <3>5
  <2>5. Marks(t, q, marks)
    <3>1. \A k, l \in 1..n : k < l => marks[k] < marks[l]
      BY <1>4
    <3> QED
      BY <1>1, <1>2, <1>4, <2>1, <2>3, <2>4, <3>1 DEF Marks, n
  <2> QED
    BY <2>5 DEF t, q
<1> QED
  BY <1>5, <1>6, <1>7

-----------------------------------------------------------------------------
(* The types of what is stored.                                             *)

ExperimentType == [status : ExperimentStatuses, fields : Fields \cup {"edited"}, lock : Fields \cup {"none", "edited"}]
AssignmentType == [experiment : 1..MaxExperiments, draft : Drafts, cohort : {"control", "treatment"}, key : ExperimentKeys]
SnapshotType == [experiment : 1..MaxExperiments, recommendation : RolloutChoices, key : ExperimentKeys]
ProfileType == [experiment : 0..MaxExperiments, fields : Fields \cup {"default", "edited"}]

ExperimentShape ==
  /\ experiments \in Seq(ExperimentType) /\ Len(experiments) <= MaxExperiments
  /\ assignments \subseteq AssignmentType /\ IsFiniteSet(assignments)
  /\ snapshots \in Seq(SnapshotType) /\ decisions \in Seq(DecisionType) /\ ledgered \in 0..Len(decisions)
  /\ profile \in ProfileType /\ outcomes \in [Drafts -> Ratings \cup {NoOutcome}]
  /\ experimentSwitch \in BOOLEAN /\ edits \in 0..MaxEdits
  /\ writing \in [Writers -> {NoWrite} \cup SnapshotType]
  /\ \A i \in DOMAIN decisions : decisions[i].experiment \in DOMAIN experiments

\* The active profile is what the decisions make of it.
ProfileInv ==
  /\ \E marks : Marks(decisions, Profiles(decisions), marks)
  /\ profile.experiment = Profiles(decisions).current

LEMMA ListedExperiments ==
  ASSUME ExperimentAssumption, ExperimentShape, NEW e \in DOMAIN experiments
  PROVE  e \in 1..MaxExperiments /\ experiments[e] \in ExperimentType /\ e \in 1..Len(experiments)
<1>1. Len(experiments) \in Nat /\ DOMAIN experiments = 1..Len(experiments) /\ Len(experiments) <= MaxExperiments
  BY LenProperties DEF ExperimentShape
<1>2. e \in 1..MaxExperiments
  BY <1>1 DEF ExperimentAssumption
<1>3. experiments[e] \in ExperimentType
  BY <1>1, ElementOfSeq DEF ExperimentShape
<1> QED
  BY <1>1, <1>2, <1>3

LEMMA ListedCount ==
  ASSUME NEW T, NEW s \in Seq(T) PROVE Cardinality(ToSet(s)) <= Len(s) /\ Cardinality(ToSet(s)) \in Nat
<1>1. Len(s) \in Nat /\ DOMAIN s = 1..Len(s) /\ 1 \in Int /\ Len(s) \in Int
  BY LenProperties
<1>2. IsFiniteSet(1..Len(s)) /\ Cardinality(1..Len(s)) = Len(s)
  BY <1>1, FS_Interval
<1>3. ToSet(s) = {s[i] : i \in 1..Len(s)}
  BY <1>1 DEF ToSet
<1> DEFINE f == [i \in 1..Len(s) |-> s[i]]
<1>4. f \in Surjection(1..Len(s), ToSet(s))
  BY <1>3 DEF Surjection
<1>5. IsFiniteSet(ToSet(s)) /\ Cardinality(ToSet(s)) <= Cardinality(1..Len(s))
  BY <1>2, <1>4, FS_Surjection
<1> QED
  BY <1>2, <1>5, FS_CardinalityType

\* With room left, a number a caller may use is one of the keys.
LEMMA KeysInRoom ==
  ASSUME ExperimentAssumption, ExperimentShape, Room
  PROVE  /\ CallKeys(assignments) \subseteq ExperimentKeys /\ CallKeys(ToSet(decisions)) \subseteq ExperimentKeys
         /\ CallKeys(ToSet(snapshots)) \subseteq ExperimentKeys
<1>1. Cardinality(assignments) \in Nat /\ Len(snapshots) \in Nat /\ Len(decisions) \in Nat
  BY FS_CardinalityType, LenProperties DEF ExperimentShape
<1>2. /\ Cardinality(ToSet(decisions)) <= Len(decisions) /\ Cardinality(ToSet(decisions)) \in Nat
      /\ Cardinality(ToSet(snapshots)) <= Len(snapshots) /\ Cardinality(ToSet(snapshots)) \in Nat
  BY ListedCount DEF ExperimentShape
<1>3. MaxEntries \in Nat /\ Cardinality(assignments) + Len(snapshots) + Len(decisions) < MaxEntries
  BY DEF ExperimentAssumption, Room
<1> DEFINE a == Cardinality(assignments)
           b == Cardinality(ToSet(decisions))
           c == Cardinality(ToSet(snapshots))
<1>4. a + 1 <= MaxEntries /\ b + 1 <= MaxEntries /\ c + 1 <= MaxEntries
  <2> HIDE DEF a, b, c
  <2> QED
    BY <1>1, <1>2, <1>3 DEF a, b, c
<1>5. 1..(a + 1) \subseteq 1..MaxEntries /\ 1..(b + 1) \subseteq 1..MaxEntries /\ 1..(c + 1) \subseteq 1..MaxEntries
  <2> HIDE DEF a, b, c
  <2> QED
    BY <1>1, <1>2, <1>3, <1>4 DEF a, b, c
<1> QED
  BY <1>5 DEF CallKeys, ExperimentKeys

-----------------------------------------------------------------------------
(* The steps.                                                               *)

ExperimentInv == ExperimentShape /\ ProfileInv /\ WrittenOnce

LEMMA RecordsKept ==
  ASSUME ProfileInv, WrittenOnce, UNCHANGED <<assignments, snapshots, decisions, profile>>
  PROVE  ProfileInv' /\ WrittenOnce'
<1>1. WrittenOnce'
  BY DEF WrittenOnce
<1>2. ProfileInv'
  BY DEF ProfileInv
<1> QED
  BY <1>1, <1>2

LEMMA ExperimentStored ==
  ASSUME ExperimentAssumption, ExperimentShape,
         CreateExperiment \/ EditState \/ \E e \in DOMAIN experiments : MoveExperiment(e)
  PROVE  /\ experiments' \in Seq(ExperimentType) /\ Len(experiments') <= MaxExperiments
         /\ Len(experiments) <= Len(experiments')
         /\ UNCHANGED <<assignments, snapshots, decisions, profile, outcomes, experimentSwitch, writing>>
         /\ ledgered' \in 0..Len(decisions) /\ edits' \in 0..MaxEdits
<1>1. /\ experiments \in Seq(ExperimentType) /\ Len(experiments) \in Nat /\ Len(experiments) <= MaxExperiments
      /\ ledgered \in 0..Len(decisions) /\ edits \in 0..MaxEdits /\ Len(decisions) \in Nat
      /\ MaxEdits \in Nat /\ MaxExperiments \in Nat
  BY LenProperties DEF ExperimentShape, ExperimentAssumption
<1>2. CASE CreateExperiment
  <2>1. PICK fields \in Fields :
          experiments' = Append(experiments, [status |-> "draft", fields |-> fields, lock |-> "none"])
    BY <1>2 DEF CreateExperiment
  <2>2. [status |-> "draft", fields |-> fields, lock |-> "none"] \in ExperimentType
    BY DEF ExperimentType, ExperimentStatuses
  <2>3. experiments' \in Seq(ExperimentType) /\ Len(experiments') = Len(experiments) + 1
    <3> DEFINE x == [status |-> "draft", fields |-> fields, lock |-> "none"]
    <3> HIDE DEF x
    <3> QED
      BY <1>1, <2>1, <2>2, AppendProperties DEF x
  <2>4. Len(experiments) < MaxExperiments
    BY <1>2 DEF CreateExperiment
  <2>5. UNCHANGED <<assignments, snapshots, decisions, profile, outcomes, experimentSwitch, writing, ledgered, edits>>
    BY <1>2 DEF CreateExperiment
  <2>6. Len(experiments') <= MaxExperiments /\ Len(experiments) <= Len(experiments')
    BY <1>1, <2>3, <2>4
  <2> QED
    BY <1>1, <2>3, <2>5, <2>6
<1>3. ASSUME NEW e \in DOMAIN experiments, MoveExperiment(e) \/ experiments' = [experiments EXCEPT ![e].fields = "edited"]
      PROVE  experiments' \in Seq(ExperimentType) /\ Len(experiments') = Len(experiments)
  <2>1. experiments[e] \in ExperimentType /\ e \in 1..Len(experiments)
    BY ListedExperiments
  <2>2. PICK x \in ExperimentType : experiments' = [experiments EXCEPT ![e] = x]
    <3>1. CASE MoveExperiment(e)
      <4>1. PICK status \in ExperimentStatuses :
              experiments' = [experiments EXCEPT ![e].status = status,
                                ![e].lock = IF status = "running" THEN experiments[e].fields ELSE @]
        BY <3>1 DEF MoveExperiment
      <4> DEFINE x == [experiments[e] EXCEPT !.status = status,
                         !.lock = IF status = "running" THEN experiments[e].fields ELSE @]
      <4>2. x \in ExperimentType
        BY <2>1 DEF ExperimentType
      <4>3. experiments' = [experiments EXCEPT ![e] = x]
        BY <1>3, <4>1
      <4> QED
        BY <4>2, <4>3
    <3>2. CASE experiments' = [experiments EXCEPT ![e].fields = "edited"]
      <4>1. [experiments[e] EXCEPT !.fields = "edited"] \in ExperimentType
        BY <2>1 DEF ExperimentType
      <4>2. experiments' = [experiments EXCEPT ![e] = [experiments[e] EXCEPT !.fields = "edited"]]
        BY <1>3, <3>2
      <4> QED
        BY <4>1, <4>2
    <3> QED
      BY <1>3, <3>1, <3>2
  <2> QED
    BY <1>1, <2>1, <2>2, ExceptSeq
<1>4. ASSUME NEW e \in DOMAIN experiments, MoveExperiment(e)
      PROVE  UNCHANGED <<assignments, snapshots, decisions, profile, outcomes, experimentSwitch, writing, ledgered, edits>>
  BY <1>4 DEF MoveExperiment
<1>5. CASE EditState
  <2>1. UNCHANGED <<assignments, snapshots, decisions, profile, outcomes, experimentSwitch, writing>>
    BY <1>5 DEF EditState
  <2>2. edits' \in 0..MaxEdits
    BY <1>1, <1>5 DEF EditState
  <2>3. CASE ledgered > 0 /\ ledgered' \in 0..(ledgered - 1) /\ UNCHANGED experiments
    <3>1. ledgered' \in 0..Len(decisions)
      BY <1>1, <2>3
    <3> QED
      BY <1>1, <2>1, <2>2, <2>3, <3>1
  <2>4. CASE \E e \in DOMAIN experiments :
               experiments' = [experiments EXCEPT ![e].fields = "edited"] /\ UNCHANGED ledgered
    <3>1. experiments' \in Seq(ExperimentType) /\ Len(experiments') = Len(experiments)
      BY <1>3, <2>4
    <3> QED
      BY <1>1, <2>1, <2>2, <2>4, <3>1
  <2> QED
    BY <1>5, <2>3, <2>4 DEF EditState
<1> QED
  BY <1>1, <1>2, <1>3, <1>4, <1>5

LEMMA NewKey ==
  ASSUME NEW T, NEW s \in Seq(T), NEW x \in T, ~KnownKey(s, x.key),
         \A i, j \in DOMAIN s : s[i].key = s[j].key => i = j
  PROVE  \A i, j \in DOMAIN Append(s, x) : Append(s, x)[i].key = Append(s, x)[j].key => i = j
<1> DEFINE t == Append(s, x)
           m == Len(s)
<1>1. /\ m \in Nat /\ DOMAIN s = 1..m /\ t[m + 1] = x /\ DOMAIN t = 1..(m + 1)
      /\ \A i \in 1..m : t[i] = s[i]
  BY LenProperties, AppendProperties
<1>2. \A i \in 1..m : s[i].key # x.key
  BY <1>1 DEF KnownKey
<1>3. \A i \in 1..(m + 1) : i \in 1..m \/ i = m + 1
  BY <1>1
<1> HIDE DEF t, m
<1>4. \A i, j \in DOMAIN t : t[i].key = t[j].key => i = j
  BY <1>1, <1>2, <1>3
<1> QED
  BY <1>4 DEF t

LEMMA DraftAssigned ==
  ASSUME ExperimentAssumption, ExperimentInv, NEW e \in DOMAIN experiments, NEW d \in Drafts,
         NEW key \in CallKeys(assignments), AssignDraft(e, d, key)
  PROVE  /\ assignments' \subseteq AssignmentType /\ IsFiniteSet(assignments') /\ WrittenOnce' /\ ProfileInv'
         /\ \A a \in assignments' \ assignments : a.experiment = e
<1> DEFINE x == [experiment |-> e, draft |-> d, cohort |-> Cohort[d], key |-> key]
<1>1. x \in AssignmentType
  <2>1. e \in 1..MaxExperiments /\ Cohort[d] \in {"control", "treatment"}
    BY ListedExperiments DEF ExperimentAssumption, ExperimentInv
  <2>2. key \in ExperimentKeys
    BY KeysInRoom DEF ExperimentInv, AssignDraft
  <2> QED
    BY <2>1, <2>2 DEF AssignmentType
<1>2. assignments' = assignments \cup {x}
  BY DEF AssignDraft
<1>3. \A a \in assignments : a.key # x.key /\ <<a.experiment, a.draft>> # <<x.experiment, x.draft>>
  BY DEF AssignDraft, IsNewAssignment
<1>4. x.experiment = e
  OBVIOUS
<1> HIDE DEF x
<1>5. assignments' \subseteq AssignmentType
  BY <1>1, <1>2 DEF ExperimentInv, ExperimentShape
<1>6. IsFiniteSet(assignments')
  BY <1>2, FS_AddElement DEF ExperimentInv, ExperimentShape
<1>7. UNCHANGED <<snapshots, decisions, profile>>
  BY DEF AssignDraft
<1>8. \A a, b \in assignments' : a.key = b.key \/ <<a.experiment, a.draft>> = <<b.experiment, b.draft>> => a = b
  BY <1>2, <1>3 DEF ExperimentInv, WrittenOnce
<1>9. WrittenOnce'
  BY <1>7, <1>8 DEF ExperimentInv, WrittenOnce
<1>10. ProfileInv'
  BY <1>7 DEF ExperimentInv, ProfileInv
<1> QED
  BY <1>2, <1>4, <1>5, <1>6, <1>9, <1>10

LEMMA DecisionApplied ==
  ASSUME ExperimentAssumption, ExperimentInv, NEW e \in DOMAIN experiments, NEW decision \in RolloutChoices,
         NEW key \in CallKeys(ToSet(decisions)), ApplyDecision(e, decision, key)
  PROVE  /\ decisions' \in Seq(DecisionType) /\ ledgered' \in 0..Len(decisions') /\ profile' \in ProfileType
         /\ WrittenOnce' /\ ProfileInv'
         /\ \A i \in DOMAIN decisions' : decisions'[i].experiment \in DOMAIN experiments
         /\ \A i \in DOMAIN decisions' \ DOMAIN decisions : decisions'[i].experiment = e
<1> DEFINE x == [experiment |-> e, decision |-> decision, key |-> key]
<1>1. x \in DecisionType
  <2>1. e \in 1..MaxExperiments
    BY ListedExperiments DEF ExperimentInv
  <2>2. key \in ExperimentKeys
    BY KeysInRoom DEF ExperimentInv, ApplyDecision
  <2> QED
    BY <2>1, <2>2 DEF DecisionType
<1>2. decisions' = Append(decisions, x) /\ ledgered' = Len(decisions') /\ ~KnownKey(decisions, x.key)
  BY DEF ApplyDecision, RepairTruncatedLedgerTail
<1>3. x.experiment = e
  OBVIOUS
<1> HIDE DEF x
<1>4. decisions \in Seq(DecisionType)
  BY DEF ExperimentInv, ExperimentShape
<1>5. /\ decisions' \in Seq(DecisionType) /\ Len(decisions') = Len(decisions) + 1
      /\ Len(decisions) \in Nat /\ decisions'[Len(decisions) + 1] = x
      /\ DOMAIN decisions = 1..Len(decisions) /\ DOMAIN decisions' = 1..(Len(decisions) + 1)
  BY <1>1, <1>2, <1>4, AppendProperties, LenProperties
<1>6. ledgered' \in 0..Len(decisions')
  BY <1>2, <1>5
<1>7. \A i \in DOMAIN decisions' \ DOMAIN decisions : decisions'[i].experiment = e
  <2>1. \A i \in 1..(Len(decisions) + 1) : i \in 1..Len(decisions) \/ i = Len(decisions) + 1
    BY <1>5
  <2> QED
    BY <1>3, <1>5, <2>1
<1>8. WrittenOnce'
  <2>1. \A i, j \in DOMAIN decisions' : decisions'[i].key = decisions'[j].key => i = j
    BY <1>1, <1>2, <1>4, NewKey DEF ExperimentInv, WrittenOnce
  <2>2. UNCHANGED <<assignments, snapshots>>
    BY DEF ApplyDecision
  <2> QED
    BY <2>1, <2>2 DEF ExperimentInv, WrittenOnce
<1>9. Profiles(decisions') = Step(Profiles(decisions), x)
  BY <1>1, <1>2, <1>4, ProfilesGrow
<1>10. \E marks : Marks(decisions', Profiles(decisions'), marks)
  <2>1. PICK marks : Marks(decisions, Profiles(decisions), marks)
    BY DEF ExperimentInv, ProfileInv
  <2> DEFINE p == Profiles(decisions)
  <2> HIDE DEF p
  <2>2. \E more : Marks(Append(decisions, x), Step(p, x), more)
    BY <1>1, <1>4, <2>1, MarksGrow DEF p
  <2> QED
    BY <1>2, <1>9, <2>2 DEF p
<1>11. Profiles(decisions').current \in 0..MaxExperiments
  BY <1>10 DEF Marks
<1>12. \A i \in DOMAIN decisions' : decisions'[i].experiment \in DOMAIN experiments
  <2>1. \A i \in 1..(Len(decisions) + 1) : i \in 1..Len(decisions) \/ i = Len(decisions) + 1
    BY <1>5
  <2>2. \A i \in 1..Len(decisions) : decisions'[i] = decisions[i]
    BY <1>1, <1>2, <1>4, AppendProperties
  <2>3. \A i \in 1..Len(decisions) : decisions[i].experiment \in DOMAIN experiments
    BY <1>5 DEF ExperimentInv, ExperimentShape
  <2> QED
    BY <1>3, <1>5, <2>1, <2>2, <2>3
<1> DEFINE c == Profiles(decisions').current
<1>13. c # 0 => c \in DOMAIN experiments
  <2>1. PICK marks : Marks(decisions', Profiles(decisions'), marks)
    BY <1>10
  <2> DEFINE p == Profiles(decisions')
             n == Len(marks)
  <2> HIDE DEF p
  <2>2. /\ n \in Nat /\ Len(p.history) = n /\ Profile(p, 1) = 0
        /\ \A k \in 1..n : marks[k] \in DOMAIN decisions' /\ decisions'[marks[k]].experiment = Profile(p, k + 1)
    BY <1>5, <2>1, LenProperties DEF Marks, p
  <2>3. Profile(p, n + 1) = p.current
    BY <2>2 DEF Profile
  <2> HIDE DEF n
  <2>4. CASE n = 0
    BY <2>2, <2>3, <2>4 DEF p
  <2>5. CASE n # 0
    <3>1. n \in 1..n
      BY <2>2, <2>5
    <3> QED
      BY <1>12, <2>2, <2>3, <3>1 DEF p
  <2> QED
    BY <2>4, <2>5
<1>14. profile' = IF c = 0 THEN DefaultProfile ELSE [experiment |-> c, fields |-> experiments[c].fields]
  BY DEF ApplyDecision, RecomputeProfile
<1>15. profile' \in ProfileType /\ profile'.experiment = c
  <2>1. c # 0 => experiments[c].fields \in Fields \cup {"edited"}
    BY <1>13, ListedExperiments DEF ExperimentInv, ExperimentType
  <2>2. 0 \in 0..MaxExperiments
    BY DEF ExperimentAssumption
  <2> HIDE DEF c
  <2> QED
    BY <1>11, <1>14, <2>1, <2>2 DEF ProfileType, DefaultProfile, c
<1>16. ProfileInv'
  BY <1>10, <1>15 DEF ProfileInv
<1> QED
  BY <1>5, <1>6, <1>7, <1>8, <1>12, <1>15, <1>16

LEMMA CaptureBegun ==
  ASSUME ExperimentAssumption, ExperimentShape, NEW e \in DOMAIN experiments, NEW w \in Writers,
         NEW key \in CallKeys(ToSet(snapshots)), BeginCapture(w, e, key)
  PROVE  writing' \in [Writers -> {NoWrite} \cup SnapshotType]
<1> DEFINE x == [experiment |-> e, recommendation |-> BuildAnalysis(e), key |-> key]
<1>1. BuildAnalysis(e) \in RolloutChoices
  BY DEF BuildAnalysis, RolloutChoices
<1>2. e \in 1..MaxExperiments /\ key \in ExperimentKeys
  BY ListedExperiments, KeysInRoom DEF BeginCapture
<1>3. x \in SnapshotType
  BY <1>1, <1>2 DEF SnapshotType
<1>4. writing' = [writing EXCEPT ![w] = x]
  BY DEF BeginCapture
<1> HIDE DEF x
<1> QED
  BY <1>3, <1>4 DEF ExperimentShape

LEMMA SnapshotCaptured ==
  ASSUME ExperimentAssumption, ExperimentInv, NEW w \in Writers, CaptureSnapshot(w)
  PROVE  /\ snapshots' \in Seq(SnapshotType) /\ writing' \in [Writers -> {NoWrite} \cup SnapshotType]
         /\ WrittenOnce' /\ ProfileInv'
         /\ \A i \in DOMAIN snapshots' \ DOMAIN snapshots :
              CapturePermitted(w) /\ snapshots'[i].experiment = writing[w].experiment
<1>1. writing[w] # NoWrite /\ writing' = [writing EXCEPT ![w] = NoWrite]
      /\ UNCHANGED <<assignments, decisions, profile>>
  BY DEF CaptureSnapshot
<1> DEFINE x == writing[w]
<1>2. x \in SnapshotType
  BY <1>1 DEF ExperimentInv, ExperimentShape
<1>3. writing' \in [Writers -> {NoWrite} \cup SnapshotType]
  <2>1. writing \in [Writers -> {NoWrite} \cup SnapshotType] /\ NoWrite \in {NoWrite} \cup SnapshotType
    BY DEF ExperimentInv, ExperimentShape
  <2> HIDE DEF x
  <2> QED
    BY <1>1, <2>1
<1>4. ProfileInv'
  BY <1>1 DEF ExperimentInv, ProfileInv
<1>5. snapshots \in Seq(SnapshotType)
  BY DEF ExperimentInv, ExperimentShape
<1>6. CASE UNCHANGED snapshots
  <2>1. WrittenOnce'
    BY <1>1, <1>6 DEF ExperimentInv, WrittenOnce
  <2> QED
    BY <1>3, <1>4, <1>5, <1>6, <2>1
<1>7. CASE CapturePermitted(w) /\ Room /\ ~KnownKey(snapshots, x.key) /\ snapshots' = Append(snapshots, x)
  <2> HIDE DEF x
  <2>1. /\ snapshots' \in Seq(SnapshotType) /\ Len(snapshots) \in Nat /\ snapshots'[Len(snapshots) + 1] = x
        /\ DOMAIN snapshots = 1..Len(snapshots) /\ DOMAIN snapshots' = 1..(Len(snapshots) + 1)
    BY <1>2, <1>5, <1>7, AppendProperties, LenProperties
  <2>2. \A i, j \in DOMAIN snapshots' : snapshots'[i].key = snapshots'[j].key => i = j
    BY <1>2, <1>5, <1>7, NewKey DEF ExperimentInv, WrittenOnce
  <2>3. WrittenOnce'
    BY <1>1, <2>2 DEF ExperimentInv, WrittenOnce
  <2>4. \A i \in 1..(Len(snapshots) + 1) : i \in 1..Len(snapshots) \/ i = Len(snapshots) + 1
    BY <2>1
  <2>5. \A i \in DOMAIN snapshots' \ DOMAIN snapshots : snapshots'[i] = x
    BY <2>1, <2>4
  <2> QED
    BY <1>3, <1>4, <1>7, <2>1, <2>3, <2>5 DEF x
<1> QED
  BY <1>6, <1>7 DEF CaptureSnapshot

RecordedIn == {decisions'[i].experiment : i \in DOMAIN decisions' \ DOMAIN decisions}
              \cup {snapshots'[i].experiment : i \in DOMAIN snapshots' \ DOMAIN snapshots}
              \cup {a.experiment : a \in assignments' \ assignments}
UnderWay(e) == ~experimentSwitch /\ experiments[e].status \notin {"draft", "approved", "archived"}
               /\ experiments[e].lock = experiments[e].fields

LEMMA ExperimentStep ==
  ASSUME ExperimentAssumption, ExperimentInv, ExperimentNext
  PROVE  ExperimentInv' /\ \A e \in RecordedIn : UnderWay(e)
<1> USE DEF ExperimentInv
<1>1. CASE CreateExperiment \/ EditState \/ \E e \in DOMAIN experiments : MoveExperiment(e)
  <2>1. /\ experiments' \in Seq(ExperimentType) /\ Len(experiments') <= MaxExperiments
        /\ Len(experiments) <= Len(experiments')
        /\ UNCHANGED <<assignments, snapshots, decisions, profile, outcomes, experimentSwitch, writing>>
        /\ ledgered' \in 0..Len(decisions) /\ edits' \in 0..MaxEdits
    BY <1>1, ExperimentStored
  <2>2. DOMAIN experiments \subseteq DOMAIN experiments'
    <3>1. /\ DOMAIN experiments = 1..Len(experiments) /\ DOMAIN experiments' = 1..Len(experiments')
          /\ Len(experiments) \in Nat /\ Len(experiments') \in Nat
      BY <2>1, LenProperties DEF ExperimentShape
    <3> QED
      BY <2>1, <3>1
  <2>3. ExperimentShape'
    BY <2>1, <2>2 DEF ExperimentShape
  <2>4. RecordedIn = {}
    BY <2>1 DEF RecordedIn
  <2> QED
    BY <2>1, <2>3, <2>4, RecordsKept
<1>2. CASE RepairLedger \/ ExperimentSetKillSwitch \/ \E d \in Drafts : CaptureOutcome(d)
  <2>1. UNCHANGED <<experiments, assignments, snapshots, decisions, profile, writing, edits>>
    BY <1>2 DEF RepairLedger, ExperimentSetKillSwitch, CaptureOutcome
  <2>2. ledgered' \in 0..Len(decisions)
    <3>1. Len(decisions) \in Nat /\ ledgered \in 0..Len(decisions)
      BY LenProperties DEF ExperimentShape
    <3> QED
      BY <1>2, <3>1 DEF RepairLedger, RepairTruncatedLedgerTail, ExperimentSetKillSwitch, CaptureOutcome
  <2>3. experimentSwitch' \in BOOLEAN
    <3>1. experimentSwitch \in BOOLEAN
      BY DEF ExperimentShape
    <3>2. experimentSwitch' = experimentSwitch \/ experimentSwitch' = ~experimentSwitch
      BY <1>2, Zenon DEF RepairLedger, ExperimentSetKillSwitch, CaptureOutcome
    <3> QED
      BY <3>1, <3>2, Zenon
  <2>4. outcomes' \in [Drafts -> Ratings \cup {NoOutcome}]
    BY <1>2 DEF RepairLedger, ExperimentSetKillSwitch, CaptureOutcome, ExperimentShape
  <2>5. ExperimentShape'
    BY <2>1, <2>2, <2>3, <2>4 DEF ExperimentShape
  <2>6. RecordedIn = {}
    BY <2>1 DEF RecordedIn
  <2> QED
    BY <2>1, <2>5, <2>6, RecordsKept
<1>3. ASSUME NEW e \in DOMAIN experiments, NEW d \in Drafts, NEW key \in CallKeys(assignments), AssignDraft(e, d, key)
      PROVE  ExperimentInv' /\ \A x \in RecordedIn : UnderWay(x)
  <2>1. /\ assignments' \subseteq AssignmentType /\ IsFiniteSet(assignments') /\ WrittenOnce' /\ ProfileInv'
        /\ \A a \in assignments' \ assignments : a.experiment = e
    BY <1>3, DraftAssigned
  <2>2. UNCHANGED <<experiments, snapshots, decisions, ledgered, profile, outcomes, experimentSwitch, writing, edits>>
    BY <1>3 DEF AssignDraft
  <2>3. ExperimentShape'
    BY <2>1, <2>2 DEF ExperimentShape
  <2>4. UnderWay(e)
    BY <1>3 DEF AssignDraft, LockHolds, UnderWay
  <2>5. RecordedIn \subseteq {e}
    BY <2>1, <2>2 DEF RecordedIn
  <2> QED
    BY <2>1, <2>3, <2>4, <2>5
<1>4. ASSUME NEW e \in DOMAIN experiments, NEW key \in CallKeys(ToSet(decisions)), NEW decision \in RolloutChoices,
             ApplyDecision(e, decision, key)
      PROVE  ExperimentInv' /\ \A x \in RecordedIn : UnderWay(x)
  <2>1. /\ decisions' \in Seq(DecisionType) /\ ledgered' \in 0..Len(decisions') /\ profile' \in ProfileType
        /\ WrittenOnce' /\ ProfileInv'
        /\ \A i \in DOMAIN decisions' : decisions'[i].experiment \in DOMAIN experiments
        /\ \A i \in DOMAIN decisions' \ DOMAIN decisions : decisions'[i].experiment = e
    BY <1>4, DecisionApplied
  <2>2. UNCHANGED <<experiments, assignments, snapshots, outcomes, experimentSwitch, writing, edits>>
    BY <1>4 DEF ApplyDecision
  <2>3. ExperimentShape'
    BY <2>1, <2>2 DEF ExperimentShape
  <2>4. UnderWay(e)
    BY <1>4 DEF ApplyDecision, Analysable, LockHolds, UnderWay
  <2>5. RecordedIn \subseteq {e}
    BY <2>1, <2>2 DEF RecordedIn
  <2> QED
    BY <2>1, <2>3, <2>4, <2>5
<1>5. ASSUME NEW e \in DOMAIN experiments, NEW w \in Writers, NEW key \in CallKeys(ToSet(snapshots)),
             BeginCapture(w, e, key)
      PROVE  ExperimentInv' /\ \A x \in RecordedIn : UnderWay(x)
  <2>1. writing' \in [Writers -> {NoWrite} \cup SnapshotType]
    BY <1>5, CaptureBegun
  <2>2. UNCHANGED <<experiments, assignments, snapshots, decisions, ledgered, profile, outcomes, experimentSwitch, edits>>
    BY <1>5 DEF BeginCapture
  <2>3. ExperimentShape'
    BY <2>1, <2>2 DEF ExperimentShape
  <2>4. RecordedIn = {}
    BY <2>2 DEF RecordedIn
  <2> QED
    BY <2>2, <2>3, <2>4, RecordsKept
<1>6. ASSUME NEW w \in Writers, CaptureSnapshot(w)
      PROVE  ExperimentInv' /\ \A x \in RecordedIn : UnderWay(x)
  <2>1. /\ snapshots' \in Seq(SnapshotType) /\ writing' \in [Writers -> {NoWrite} \cup SnapshotType]
        /\ WrittenOnce' /\ ProfileInv'
        /\ \A i \in DOMAIN snapshots' \ DOMAIN snapshots :
             CapturePermitted(w) /\ snapshots'[i].experiment = writing[w].experiment
    BY <1>6, SnapshotCaptured
  <2>2. UNCHANGED <<experiments, assignments, decisions, ledgered, profile, outcomes, experimentSwitch, edits>>
    BY <1>6 DEF CaptureSnapshot
  <2>3. ExperimentShape'
    BY <2>1, <2>2 DEF ExperimentShape
  <2>4. CapturePermitted(w) => UnderWay(writing[w].experiment)
    BY DEF CapturePermitted, Analysable, LockHolds, UnderWay
  <2>5. \A x \in RecordedIn : CapturePermitted(w) /\ x = writing[w].experiment
    BY <2>1, <2>2 DEF RecordedIn
  <2> QED
    BY <2>1, <2>3, <2>4, <2>5
<1> QED
  BY <1>1, <1>2, <1>3, <1>4, <1>5, <1>6 DEF ExperimentNext

LEMMA ExperimentBegins == ExperimentAssumption /\ ExperimentInit => ExperimentInv
<1> SUFFICES ASSUME ExperimentAssumption, ExperimentInit PROVE ExperimentInv
  OBVIOUS
<1>1. <<>> \in Seq(ExperimentType) /\ <<>> \in Seq(SnapshotType) /\ <<>> \in Seq(DecisionType)
      /\ <<>> \in Seq(0..MaxExperiments) /\ <<>> \in Seq(Nat)
  BY EmptySeq
<1>2. Len(<<>>) = 0 /\ DOMAIN <<>> = {}
  OBVIOUS
<1>3. ExperimentShape
  <2>1. 0 \in 0..MaxExperiments /\ 0 \in 0..MaxEdits /\ 0 <= MaxExperiments /\ 0 \in 0..0
    BY DEF ExperimentAssumption
  <2>2. DefaultProfile \in ProfileType
    BY <2>1 DEF DefaultProfile, ProfileType
  <2>3. FALSE \in BOOLEAN /\ IsFiniteSet({})
    BY FS_EmptySet
  <2> QED
    BY <1>1, <1>2, <2>1, <2>2, <2>3 DEF ExperimentInit, ExperimentShape
<1>4. WrittenOnce
  BY <1>2 DEF ExperimentInit, WrittenOnce
<1>5. ProfileInv
  <2>1. Profile(NoProfiles, 1) = 0
    BY <1>2 DEF Profile, NoProfiles
  <2>2. 1..0 = {} /\ 0 \in 0..MaxExperiments
    BY DEF ExperimentAssumption
  <2>3. Marks(<<>>, NoProfiles, <<>>)
    BY <1>1, <1>2, <2>1, <2>2 DEF Marks, NoProfiles
  <2> QED
    BY <2>3, ProfilesBegin DEF ProfileInv, ExperimentInit, DefaultProfile, NoProfiles
<1> QED
  BY <1>3, <1>4, <1>5 DEF ExperimentInv

LEMMA ExperimentSteps == ExperimentSpec => []ExperimentInv
<1>1. ExperimentAssumption
  BY ExperimentAssumption
<1>2. ExperimentInv /\ UNCHANGED experimentVars => ExperimentInv'
  <2> SUFFICES ASSUME ExperimentInv, UNCHANGED experimentVars PROVE ExperimentInv'
    OBVIOUS
  <2>1. ExperimentShape'
    BY DEF ExperimentInv, ExperimentShape, experimentVars
  <2> QED
    BY <2>1, RecordsKept DEF ExperimentInv, experimentVars
<1>3. ExperimentInit => ExperimentInv
  BY <1>1, ExperimentBegins
<1>4. ExperimentInv /\ [ExperimentNext]_experimentVars => ExperimentInv'
  BY <1>1, <1>2, ExperimentStep
<1> QED
  BY <1>3, <1>4, PTL DEF ExperimentSpec

\* What is stored of the experiments keeps its types, for every number of drafts, writers
\* and entries.
THEOREM ExperimentTypes == ExperimentSpec => []ExperimentTypeOK
<1>1. ExperimentInv => ExperimentTypeOK
  BY DEF ExperimentInv, ExperimentShape, ExperimentTypeOK, ExperimentType, AssignmentType, SnapshotType,
         DecisionType, ProfileType
<1> QED
  BY <1>1, ExperimentSteps, PTL

\* The active profile is that of the latest adoption that stands, or the default one:
\* for every sequence of adoptions and rollbacks (recomputeActiveRolloutProfile).
THEOREM ProfileIsLastAdoptedHolds == ExperimentSpec => []ProfileIsLastAdopted
<1>1. ASSUME ExperimentInv PROVE ProfileIsLastAdopted
  <2>1. PICK marks : Marks(decisions, Profiles(decisions), marks)
    BY <1>1 DEF ExperimentInv, ProfileInv
  <2> DEFINE p == Profiles(decisions)
             n == Len(marks)
             standing == {i \in DOMAIN decisions : Standing(i)}
  <2>2. profile.experiment = p.current
    BY <1>1 DEF ExperimentInv, ProfileInv
  <2> HIDE DEF p
  <2>3. DOMAIN decisions = 1..Len(decisions) /\ Len(decisions) \in Nat
    BY <1>1, LenProperties DEF ExperimentInv, ExperimentShape
  <2>4. \A i \in DOMAIN decisions : Standing(i) <=> Stands(decisions, i)
    BY DEF Standing, Stands, Count, CountOf
  <2>5. /\ n \in Nat /\ Len(p.history) = n /\ Profile(p, 1) = 0
        /\ \A k \in 1..n : /\ marks[k] \in DOMAIN decisions
                            /\ decisions[marks[k]].experiment = Profile(p, k + 1)
                            /\ \A l \in 1..n : k < l => marks[k] < marks[l]
        /\ \A i \in DOMAIN decisions : Standing(i) <=> \E k \in 1..n : marks[k] = i
    BY <2>1, <2>3, <2>4, LenProperties DEF Marks, p
  <2>6. Profile(p, n + 1) = p.current
    BY <2>5 DEF Profile
  <2> HIDE DEF n
  <2>7. CASE n = 0
    <3>1. standing = {}
      BY <2>5, <2>7
    <3> QED
      BY <2>2, <2>5, <2>6, <2>7, <3>1 DEF ProfileIsLastAdopted
  <2>8. CASE n # 0
    <3>1. n \in 1..n /\ \A k \in 1..n : k < n \/ k = n
      BY <2>5, <2>8
    <3>2. marks[n] \in standing /\ standing \subseteq Nat
      BY <2>3, <2>5, <3>1
    <3>3. \A j \in standing : j <= marks[n]
      <4> TAKE j \in standing
      <4>1. PICK k \in 1..n : marks[k] = j
        BY <2>5
      <4>2. k < n => marks[k] < marks[n]
        BY <2>5, <3>1
      <4>3. j \in Nat /\ marks[n] \in Nat
        <5> HIDE DEF standing
        <5> QED
          BY <3>2
      <4>4. j < marks[n] \/ j = marks[n]
        BY <3>1, <4>1, <4>2
      <4> QED
        BY <4>3, <4>4
    <3>4. (CHOOSE i \in standing : \A j \in standing : j <= i) = marks[n]
      <4> HIDE DEF standing
      <4> DEFINE i == CHOOSE i \in standing : \A j \in standing : j <= i
      <4>1. i \in standing /\ \A j \in standing : j <= i
        BY <3>2, <3>3
      <4> HIDE DEF i
      <4>2. i <= marks[n] /\ marks[n] <= i /\ i \in Nat /\ marks[n] \in Nat
        BY <3>2, <3>3, <4>1
      <4>3. i = marks[n]
        BY <4>2
      <4> QED
        BY <4>3 DEF i
    <3>5. standing # {}
      BY <3>2
    <3> HIDE DEF standing
    <3>6. profile.experiment = decisions[CHOOSE i \in standing : \A j \in standing : j <= i].experiment
      BY <2>2, <2>5, <2>6, <3>1, <3>4
    <3> QED
      BY <3>5, <3>6 DEF ProfileIsLastAdopted, standing
  <2> QED
    BY <2>7, <2>8
<1> QED
  BY <1>1, ExperimentSteps, PTL

\* A draft is in one cohort of an experiment and a key names one entry, for every number
\* of writers that overlap.
THEOREM WrittenOnceHolds == ExperimentSpec => []WrittenOnce
<1>1. ExperimentInv => WrittenOnce
  BY DEF ExperimentInv
<1> QED
  BY <1>1, ExperimentSteps, PTL

\* Nothing is recorded about an experiment that is not under way, whose registered fields
\* are not those it was started with, or under the kill-switch, however long ago its
\* analysis was read (assertPreRegistrationLock).
THEOREM RecordedUnderLockHolds == ExperimentSpec => RecordedUnderLock
<1>1. ASSUME ExperimentInv, [ExperimentNext]_experimentVars
      PROVE  [\A e \in RecordedIn : UnderWay(e)]_experimentVars
  <2>1. CASE ExperimentNext
    BY <1>1, <2>1, ExperimentStep, ExperimentAssumption
  <2> QED
    BY <1>1, <2>1
<1> QED
  BY <1>1, ExperimentSteps, PTL DEF ExperimentSpec, RecordedUnderLock, RecordedIn, UnderWay

-----------------------------------------------------------------------------
(* Compliance decisions: ReleaseDecisions.                                   *)

AttestationType == [key : DecisionKeys, capturedAt : 0..MaxTime]
BundleType == [key : DecisionKeys, results : Results, extra : BOOLEAN, asOf : 0..MaxTime, attestation : Nat]
GateType == [key : DecisionKeys, target : Targets, decision : Decisions, asOf : 0..MaxTime,
             previous : Nat, standing : Nat]
RecordType == [gate : Nat, previous : Nat, decision : Decisions]

\* What an allowed decision rested on, and every decision names the one before it.
GateStands(gate) ==
  gate.decision = "allow" =>
    /\ gate.standing \in DOMAIN bundles
    /\ BundleIntact(bundles[gate.standing])
    /\ \A check \in RequiredChecks : bundles[gate.standing].results[check] = "pass"
    /\ gate.asOf <= bundles[gate.standing].asOf + MaxAge
    /\ bundles[gate.standing].attestation \in DOMAIN attestations

ComplianceInv ==
  /\ ComplianceTypeOK
  /\ \A i \in DOMAIN bundles : bundles[i].attestation \in DOMAIN attestations
  /\ \A i \in DOMAIN gates : GateStands(gates[i]) /\ gates[i].previous = i - 1
  /\ Len(ledger) <= Len(gates)
  /\ \A i \in 1..Len(ledger) : ledger[i] = Projection(gates)[i]

LEMMA PrefixByElements ==
  ASSUME NEW S, NEW s \in Seq(S), NEW t \in Seq(S)
  PROVE  IsPrefix(s, t) <=> Len(s) <= Len(t) /\ \A i \in 1..Len(s) : s[i] = t[i]
<1>1. Len(s) \in Nat /\ Len(t) \in Nat
  OBVIOUS
<1>2. ASSUME Len(s) <= Len(t)
      PROVE  SubSeq(s, 1, Len(s)) = SubSeq(t, 1, Len(s)) <=> \A i \in 1..Len(s) : s[i] = t[i]
  <2>1. SubSeq(s, 1, Len(s)) = s
    BY SubSeqFull
  <2>2. \A i \in 1..Len(s) : t[i] \in S
    BY <1>1, <1>2
  <2>3. /\ SubSeq(t, 1, Len(s)) \in Seq(S)
        /\ Len(SubSeq(t, 1, Len(s))) = IF 1 <= Len(s) THEN Len(s) - 1 + 1 ELSE 0
        /\ \A i \in 1..(Len(s) - 1 + 1) : SubSeq(t, 1, Len(s))[i] = t[1 + i - 1]
    BY <2>2, <1>1, SubSeqProperties
  <2>4. Len(SubSeq(t, 1, Len(s))) = Len(s)
    BY <2>3, <1>1
  <2>5. \A i \in 1..Len(s) : SubSeq(t, 1, Len(s))[i] = t[i]
    BY <2>3, <1>1
  <2>6. (\A i \in 1..Len(s) : s[i] = t[i]) => s = SubSeq(t, 1, Len(s))
    BY <2>3, <2>4, <2>5, SeqEqual
  <2> QED
    BY <2>1, <2>5, <2>6
<1> QED
  BY <1>1, <1>2 DEF IsPrefix

LEMMA ProjectionIsSeq ==
  ASSUME NEW list \in Seq(GateType)
  PROVE  /\ Projection(list) \in Seq(RecordType) /\ Len(Projection(list)) = Len(list)
         /\ \A i \in 1..Len(list) :
              Projection(list)[i] = [gate |-> i, previous |-> list[i].previous, decision |-> list[i].decision]
<1>1. Len(list) \in Nat /\ DOMAIN list = 1..Len(list)
  OBVIOUS
<1>2. \A i \in 1..Len(list) : list[i].previous \in Nat /\ list[i].decision \in Decisions
  <2>1. \A i \in 1..Len(list) : list[i] \in GateType
    OBVIOUS
  <2> QED
    BY <2>1 DEF GateType
<1>3. Projection(list) \in [1..Len(list) -> RecordType]
  BY <1>1, <1>2 DEF Projection, RecordType
<1>4. Projection(list) \in Seq(RecordType)
  BY <1>1, <1>3, SeqDef
<1>5. Len(Projection(list)) = Len(list)
  BY <1>1, <1>3, <1>4, LenProperties
<1> QED
  BY <1>1, <1>4, <1>5 DEF Projection

\* One more decision leaves the records of those before it as they were.
LEMMA ProjectionGrows ==
  ASSUME NEW list \in Seq(GateType), NEW gate \in GateType
  PROVE  \A i \in 1..Len(list) : Projection(Append(list, gate))[i] = Projection(list)[i]
<1> DEFINE more == Append(list, gate)
<1>1. more \in Seq(GateType) /\ Len(more) = Len(list) + 1 /\ \A i \in 1..Len(list) : more[i] = list[i]
  OBVIOUS
<1> HIDE DEF more
<1>2. \A i \in 1..Len(list) : i \in 1..Len(more)
  BY <1>1
<1>3. \A i \in 1..Len(more) :
        Projection(more)[i] = [gate |-> i, previous |-> more[i].previous, decision |-> more[i].decision]
  BY <1>1, ProjectionIsSeq
<1>4. \A i \in 1..Len(list) :
        Projection(list)[i] = [gate |-> i, previous |-> list[i].previous, decision |-> list[i].decision]
  BY ProjectionIsSeq
<1>5. \A i \in 1..Len(list) : Projection(more)[i] = Projection(list)[i]
  BY <1>1, <1>2, <1>3, <1>4
<1> QED
  BY <1>5 DEF more

LEMMA ComplianceTyped ==
  ASSUME ComplianceInv
  PROVE  /\ attestations \in Seq(AttestationType) /\ bundles \in Seq(BundleType) /\ gates \in Seq(GateType)
         /\ ledger \in Seq(RecordType) /\ now \in 0..MaxTime
BY DEF ComplianceInv, ComplianceTypeOK, AttestationType, BundleType, GateType, RecordType

LEMMA ComplianceCaptures ==
  ASSUME ComplianceInv, NEW key \in DecisionKeys, CaptureRuntimeAttestation(key)
  PROVE  ComplianceInv'
<1> DEFINE added == [key |-> key, capturedAt |-> now]
<1>1. added \in AttestationType /\ attestations \in Seq(AttestationType)
  BY ComplianceTyped DEF AttestationType
<1>2. attestations' = Append(attestations, added)
  BY DEF CaptureRuntimeAttestation
<1> HIDE DEF added
<1>3. attestations' \in Seq(AttestationType) /\ DOMAIN attestations \subseteq DOMAIN attestations'
  BY <1>1, <1>2
<1>4. ComplianceTypeOK'
  BY <1>3 DEF ComplianceInv, ComplianceTypeOK, CaptureRuntimeAttestation, AttestationType
<1> QED
  BY <1>3, <1>4 DEF ComplianceInv, GateStands, CaptureRuntimeAttestation

LEMMA ComplianceBundles ==
  ASSUME ComplianceInv, NEW key \in DecisionKeys, NEW results \in Results, NEW extra \in BOOLEAN,
         NEW asOf \in 0..now, BuildEvidenceBundle(key, results, extra, asOf)
  PROVE  ComplianceInv'
<1> USE ComplianceAssumption
<1> DEFINE added == [key |-> key, results |-> results, extra |-> extra, asOf |-> asOf,
                     attestation |-> Len(attestations)]
<1>1. attestations \in Seq(AttestationType) /\ bundles \in Seq(BundleType) /\ now \in 0..MaxTime
      /\ gates \in Seq(GateType)
  BY ComplianceTyped
<1>2. Len(attestations) \in Nat /\ Len(attestations) \in DOMAIN attestations
  <2>1. attestations # <<>>
    BY DEF BuildEvidenceBundle
  <2> QED
    BY <1>1, <2>1, EmptySeq
<1>3. asOf \in 0..MaxTime
  BY <1>1
<1>4. added \in BundleType
  BY <1>2, <1>3 DEF BundleType
<1>5. added.attestation \in DOMAIN attestations
  BY <1>2
<1>6. bundles' = Append(bundles, added)
  BY DEF BuildEvidenceBundle
<1> HIDE DEF added
<1>7. /\ bundles' \in Seq(BundleType) /\ Len(bundles') = Len(bundles) + 1
      /\ DOMAIN bundles' = 1..(Len(bundles) + 1) /\ DOMAIN bundles = 1..Len(bundles) /\ Len(bundles) \in Nat
      /\ \A i \in 1..Len(bundles) : bundles'[i] = bundles[i]
      /\ bundles'[Len(bundles) + 1] = added
  BY <1>1, <1>4, <1>6
<1>8. ComplianceTypeOK'
  BY <1>7 DEF ComplianceInv, ComplianceTypeOK, BuildEvidenceBundle, BundleType
<1>9. \A i \in DOMAIN bundles' : bundles'[i].attestation \in DOMAIN attestations
  BY <1>5, <1>7 DEF ComplianceInv
<1>10. \A i \in DOMAIN gates : GateStands(gates[i])'
  <2> SUFFICES ASSUME NEW i \in DOMAIN gates PROVE GateStands(gates[i])'
    OBVIOUS
  <2>1. GateStands(gates[i])
    BY DEF ComplianceInv
  <2> QED
    BY <2>1, <1>7 DEF GateStands, BuildEvidenceBundle
<1> QED
  BY <1>8, <1>9, <1>10 DEF ComplianceInv, BuildEvidenceBundle

LEMMA ComplianceDecides ==
  ASSUME ComplianceInv, NEW key \in DecisionKeys, NEW target \in Targets, NEW decision \in Decisions,
         NEW asOf \in 0..now, ApplyReleaseGateDecision(key, target, decision, asOf)
  PROVE  ComplianceInv'
<1> USE ComplianceAssumption
<1> DEFINE added == [key |-> key, target |-> target, decision |-> decision, asOf |-> asOf,
                     previous |-> LastGate, standing |-> Len(bundles)]
<1>1. /\ attestations \in Seq(AttestationType) /\ bundles \in Seq(BundleType) /\ now \in 0..MaxTime
      /\ gates \in Seq(GateType) /\ ledger \in Seq(RecordType)
  BY ComplianceTyped
<1>2. Len(bundles) \in Nat /\ Len(gates) \in Nat /\ asOf \in 0..MaxTime
  BY <1>1
<1>3. added \in GateType
  BY <1>2 DEF GateType, LastGate
<1>4. gates' = Append(gates, added) /\ ledger' = Projection(gates')
  BY DEF ApplyReleaseGateDecision, LedgerAfter
<1>5. added.previous = Len(gates)
  BY DEF LastGate
<1>6. GateStands(added)
  <2> SUFFICES ASSUME decision = "allow" PROVE GateStands(added)
    BY DEF GateStands
  <2>1. Recommends(asOf) = "allow"
    BY DEF ApplyReleaseGateDecision
  <2>2. /\ bundles # <<>> /\ BundleIntact(Last(bundles))
        /\ \A check \in RequiredChecks : Last(bundles).results[check] = "pass"
        /\ ~(FreshnessAge(asOf, Last(bundles).asOf) > MaxAge)
    BY <2>1 DEF Recommends
  <2>3. Len(bundles) \in DOMAIN bundles /\ Last(bundles) = bundles[Len(bundles)]
    BY <1>1, <2>2, EmptySeq DEF Last
  <2>4. bundles[Len(bundles)] \in BundleType
    BY <1>1, <2>3
  <2>5. bundles[Len(bundles)].asOf \in 0..MaxTime
    BY <2>4 DEF BundleType
  <2>6. asOf <= bundles[Len(bundles)].asOf + MaxAge
    BY <1>2, <2>2, <2>3, <2>5 DEF FreshnessAge
  <2>7. bundles[Len(bundles)].attestation \in DOMAIN attestations
    BY <2>3 DEF ComplianceInv
  <2> QED
    BY <2>2, <2>3, <2>6, <2>7 DEF GateStands
<1> HIDE DEF added
<1>7. /\ gates' \in Seq(GateType) /\ Len(gates') = Len(gates) + 1
      /\ DOMAIN gates' = 1..(Len(gates) + 1) /\ DOMAIN gates = 1..Len(gates)
      /\ \A i \in 1..Len(gates) : gates'[i] = gates[i]
      /\ gates'[Len(gates) + 1] = added
  BY <1>1, <1>3, <1>4
<1>8. ledger' \in Seq(RecordType) /\ Len(ledger') = Len(gates')
  BY <1>4, <1>7, ProjectionIsSeq
<1>9. ComplianceTypeOK'
  BY <1>7, <1>8 DEF ComplianceInv, ComplianceTypeOK, ApplyReleaseGateDecision, GateType, RecordType
<1>10. \A i \in DOMAIN gates' : GateStands(gates'[i]) /\ gates'[i].previous = i - 1
  BY <1>2, <1>5, <1>6, <1>7 DEF ComplianceInv
<1>11. \A i \in DOMAIN gates' : GateStands(gates[i])'
  BY <1>10 DEF GateStands, ApplyReleaseGateDecision
<1>12. Len(ledger') <= Len(gates') /\ \A i \in 1..Len(ledger') : ledger'[i] = Projection(gates')[i]
  BY <1>2, <1>4, <1>7, <1>8
<1> QED
  BY <1>9, <1>10, <1>11, <1>12 DEF ComplianceInv, ApplyReleaseGateDecision

LEMMA ComplianceRepairs ==
  ASSUME ComplianceInv, RepairComplianceLedgerTail
  PROVE  ComplianceInv'
<1>1. gates \in Seq(GateType) /\ Len(gates) \in Nat
  BY ComplianceTyped
<1>2. ledger' = Projection(gates) /\ UNCHANGED <<now, complianceSwitch, attestations, bundles, gates, truncations>>
  BY DEF RepairComplianceLedgerTail
<1>3. ledger' \in Seq(RecordType) /\ Len(ledger') = Len(gates)
  BY <1>1, <1>2, ProjectionIsSeq
<1>4. ComplianceTypeOK'
  BY <1>2, <1>3 DEF ComplianceInv, ComplianceTypeOK, RecordType
<1> QED
  BY <1>1, <1>2, <1>3, <1>4 DEF ComplianceInv, GateStands

LEMMA ComplianceTruncates ==
  ASSUME ComplianceInv, TruncateLedger
  PROVE  ComplianceInv'
<1>1. ledger \in Seq(RecordType) /\ Len(ledger) \in Nat /\ Len(gates) \in Nat
  BY ComplianceTyped
<1>2. Len(ledger) > 0 /\ ledger' = SubSeq(ledger, 1, Len(ledger) - 1)
  BY <1>1, EmptySeq DEF TruncateLedger, Front
<1>3. /\ ledger' \in Seq(RecordType) /\ Len(ledger') = Len(ledger) - 1
      /\ \A i \in 1..Len(ledger') : ledger'[i] = ledger[i]
  <2> DEFINE n == Len(ledger) - 1
  <2>1. n \in Nat /\ n < Len(ledger) /\ \A i \in 1..n : ledger[i] \in RecordType
    BY <1>1, <1>2
  <2>2. ledger' = SubSeq(ledger, 1, n)
    BY <1>2
  <2> HIDE DEF n
  <2>3. /\ SubSeq(ledger, 1, n) \in Seq(RecordType)
        /\ Len(SubSeq(ledger, 1, n)) = IF 1 <= n THEN n - 1 + 1 ELSE 0
        /\ \A i \in 1..(n - 1 + 1) : SubSeq(ledger, 1, n)[i] = ledger[1 + i - 1]
    BY <2>1, SubSeqProperties
  <2>4. Len(ledger') = n
    BY <2>1, <2>2, <2>3
  <2>5. \A i \in 1..n : ledger'[i] = ledger[i]
    BY <2>1, <2>2, <2>3
  <2> QED
    BY <2>2, <2>3, <2>4, <2>5 DEF n
<1>4. ComplianceTypeOK'
  BY <1>3 DEF ComplianceInv, ComplianceTypeOK, TruncateLedger, RecordType
<1>5. Len(ledger') <= Len(gates') /\ \A i \in 1..Len(ledger') : ledger'[i] = Projection(gates)[i]
  <2>1. \A i \in 1..Len(ledger') : i \in 1..Len(ledger)
    BY <1>1, <1>3
  <2> QED
    BY <1>1, <1>3, <2>1 DEF ComplianceInv, TruncateLedger
<1> QED
  BY <1>4, <1>5 DEF ComplianceInv, GateStands, TruncateLedger

LEMMA ComplianceSteps == ComplianceSpec => []ComplianceInv
<1>1. ComplianceInit => ComplianceInv
  <2> SUFFICES ASSUME ComplianceInit PROVE ComplianceInv
    OBVIOUS
  <2>1. Len(ledger) = 0 /\ Len(gates) = 0 /\ DOMAIN gates = {} /\ DOMAIN bundles = {}
    BY DEF ComplianceInit
  <2>2. ComplianceTypeOK
    <3>0. complianceSwitch \in BOOLEAN
      BY Zenon DEF ComplianceInit
    <3>1. now \in 0..MaxTime
      <4>1. now = 0
        BY DEF ComplianceInit
      <4> QED
        BY <4>1, ComplianceAssumption
    <3>2. \A S : attestations \in Seq(S) /\ bundles \in Seq(S) /\ gates \in Seq(S) /\ ledger \in Seq(S)
      BY DEF ComplianceInit
    <3> QED
      BY <3>0, <3>1, <3>2 DEF ComplianceTypeOK
  <2>3. 1..Len(ledger) = {} /\ Len(ledger) <= Len(gates)
    BY <2>1
  <2> QED
    BY <2>1, <2>2, <2>3 DEF ComplianceInv
<1>2. ComplianceInv /\ [ComplianceNext]_complianceVars => ComplianceInv'
  <2> SUFFICES ASSUME ComplianceInv, [ComplianceNext]_complianceVars PROVE ComplianceInv'
    OBVIOUS
  <2>1. CASE UNCHANGED complianceVars
    BY <2>1 DEF complianceVars, ComplianceInv, ComplianceTypeOK, GateStands
  <2>2. CASE ComplianceSetKillSwitch
    BY <2>2 DEF ComplianceSetKillSwitch, ComplianceInv, ComplianceTypeOK, GateStands
  <2>3. CASE TimePasses
    BY <2>3, ComplianceAssumption DEF TimePasses, ComplianceInv, ComplianceTypeOK, GateStands
  <2> QED
    BY <2>1, <2>2, <2>3, ComplianceCaptures, ComplianceBundles, ComplianceDecides, ComplianceRepairs,
       ComplianceTruncates DEF ComplianceNext
<1> QED
  BY <1>1, <1>2, PTL DEF ComplianceSpec

\* Attestations, bundles, decisions and their ledger keep their types.
THEOREM ComplianceTypes == ComplianceSpec => []ComplianceTypeOK
<1>1. ComplianceInv => ComplianceTypeOK
  BY DEF ComplianceInv
<1> QED
  BY <1>1, ComplianceSteps, PTL

\* What was allowed rested on the bundle that stood last, intact, passed and fresh
\* enough (release-gate-governor.js), for every policy and every number of decisions.
THEOREM AllowedOnEvidenceHolds == ComplianceSpec => []AllowedOnEvidence
<1>1. ComplianceInv => AllowedOnEvidence
  BY DEF ComplianceInv, AllowedOnEvidence, GateStands
<1> QED
  BY <1>1, ComplianceSteps, PTL

\* The ledger is the beginning of what the decisions give, through truncations and
\* repairs (compliance-decision-ledger.js).
THEOREM LedgerFollowsDecisionsHolds == ComplianceSpec => []LedgerFollowsDecisions
<1>1. ComplianceInv => LedgerFollowsDecisions
  <2> SUFFICES ASSUME ComplianceInv PROVE LedgerFollowsDecisions
    OBVIOUS
  <2>1. gates \in Seq(GateType) /\ ledger \in Seq(RecordType)
    BY ComplianceTyped
  <2>2. Projection(gates) \in Seq(RecordType) /\ Len(Projection(gates)) = Len(gates)
    BY <2>1, ProjectionIsSeq
  <2>3. IsPrefix(ledger, Projection(gates))
    BY <2>1, <2>2, PrefixByElements DEF ComplianceInv
  <2> QED
    BY <2>3 DEF ComplianceInv, LedgerFollowsDecisions
<1> QED
  BY <1>1, ComplianceSteps, PTL

-----------------------------------------------------------------------------
(* The components beside each other: Workflows.                              *)

LEMMA AccessRuns == Spec => AccessSpec
<1>1. Init => AccessInit
  BY DEF Init
<1>2. [Next]_vars => [AccessNext]_accessVars
  BY DEF Next, vars
<1> QED
  BY <1>1, <1>2, PTL DEF Spec, AccessSpec

LEMMA ExperimentRuns == Spec => ExperimentSpec
<1>1. Init => ExperimentInit
  BY DEF Init
<1>2. [Next]_vars => [ExperimentNext]_experimentVars
  BY DEF Next, vars, Captures, Rollouts
<1> QED
  BY <1>1, <1>2, PTL DEF Spec, ExperimentSpec

LEMMA OperatorRuns == Spec => OperatorSpec
<1>1. Init => OperatorInit
  BY DEF Init
<1>2. [Next]_vars => [OperatorNext]_operatorVars
  BY DEF Next, vars
<1> QED
  BY <1>1, <1>2, PTL DEF Spec, OperatorSpec

LEMMA RecoveryRuns == Spec => RecoverySpec
<1>1. Init => RecoveryInit
  BY DEF Init
<1>2. [Next]_vars => [RecoveryNext]_recoveryVars
  BY DEF Next, vars
<1> QED
  BY <1>1, <1>2, PTL DEF Spec, RecoverySpec

LEMMA DatasetRuns == Spec => DatasetSpec
<1>1. Init => DatasetInit
  BY DEF Init
<1>2. [Next]_vars => [DatasetNext]_datasetVars
  BY DEF Next, vars
<1> QED
  BY <1>1, <1>2, PTL DEF Spec, DatasetSpec

LEMMA BridgeRuns == Spec => BridgeSpec
<1>1. Init => BridgeInit
  BY DEF Init
<1>2. [Next]_vars => [BridgeNext]_bridgeVars
  BY DEF Next, vars
<1> QED
  BY <1>1, <1>2, PTL DEF Spec, BridgeSpec

LEMMA GatewayRuns == Spec => GatewaySpec
<1>1. Init => GatewayInit
  BY DEF Init
<1>2. [Next]_vars => [GatewayNext]_gatewayVars
  BY DEF Next, vars
<1> QED
  BY <1>1, <1>2, PTL DEF Spec, GatewaySpec

LEMMA DraftRuns == Spec => DraftSpec
<1>1. Init => DraftInit
  BY DEF Init
<1>2. [Next]_vars => [DraftNext]_draftVars
  BY DEF Next, vars
<1> QED
  BY <1>1, <1>2, PTL DEF Spec, DraftSpec

LEMMA PackageRuns == Spec => PackageSpec
<1>1. Init => PackageInit
  BY DEF Init
<1>2. [Next]_vars => [PackageNext]_packageVars
  BY DEF Next, vars
<1> QED
  BY <1>1, <1>2, PTL DEF Spec, PackageSpec

LEMMA OutcomeRuns == Spec => OutcomeSpec
<1>1. Init => OutcomeInit
  BY DEF Init
<1>2. [Next]_vars => [OutcomeNext]_outcomeVars
  BY DEF Next, vars
<1> QED
  BY <1>1, <1>2, PTL DEF Spec, OutcomeSpec

LEMMA QuotaRuns == Spec => QuotaSpec
<1>1. Init => QuotaInit
  BY DEF Init
<1>2. [Next]_vars => [QuotaNext]_quotaVars
  BY DEF Next, vars
<1> QED
  BY <1>1, <1>2, PTL DEF Spec, QuotaSpec

LEMMA TaskRuns == Spec => TaskSpec
<1>1. Init => TaskInit
  BY DEF Init
<1>2. [Next]_vars => [TaskNext]_taskVars
  BY DEF Next, vars
<1> QED
  BY <1>1, <1>2, PTL DEF Spec, TaskSpec

LEMMA ComplianceRuns == Spec => ComplianceSpec
<1>1. Init => ComplianceInit
  BY DEF Init
<1>2. [Next]_vars => [ComplianceNext]_complianceVars
  BY DEF Next, vars
<1> QED
  BY <1>1, <1>2, PTL DEF Spec, ComplianceSpec

\* Every component keeps its types, for every value of the constants.
THEOREM TypesAreKept == Spec => []TypesOK
<1>1. /\ AccessTypeOK /\ ExperimentTypeOK /\ OperatorTypeOK /\ RecoveryTypeOK /\ DatasetTypeOK /\ BridgeTypeOK
      /\ GatewayTypeOK /\ DraftTypeOK /\ PackageTypeOK /\ OutcomeTypeOK /\ ComplianceTypeOK /\ QuotaTypeOK /\ TaskTypeOK
      => TypesOK
  BY DEF TypesOK
<1>2. Spec => []AccessTypeOK /\ []ExperimentTypeOK /\ []OperatorTypeOK /\ []RecoveryTypeOK /\ []ComplianceTypeOK
  BY AccessRuns, ExperimentRuns, OperatorRuns, RecoveryRuns, ComplianceRuns,
     AccessTypes, ExperimentTypes, OperatorTypes, RecoveryTypes, ComplianceTypes
<1>3. Spec => []DatasetTypeOK /\ []BridgeTypeOK /\ []GatewayTypeOK /\ []DraftTypeOK
  BY DatasetRuns, BridgeRuns, GatewayRuns, DraftRuns, DatasetTypesHold, BridgeTypes, GatewayTypes, DraftTypes
<1>4. Spec => []PackageTypeOK /\ []OutcomeTypeOK /\ []QuotaTypeOK /\ []TaskTypeOK
  BY PackageRuns, OutcomeRuns, QuotaRuns, TaskRuns, PackageTypes, OutcomeTypes, QuotaTypes, TaskTypes
<1> QED
  BY <1>1, <1>2, <1>3, <1>4, PTL

\* A revocation is final in the order of the ledger, a rotation has one successor, and
\* every granted answer is recorded: for every number of tokens, calls and restarts.
THEOREM AccessIsAccountable == Spec => []AccessAccountable
<1>1. RevocationFinal /\ OneSuccessor /\ AnswersRecorded => AccessAccountable
  BY DEF AccessAccountable
<1> QED
  BY <1>1, AccessRuns, RevocationFinalHolds, OneSuccessorHolds, AnswersRecordedHolds, PTL

\* The active profile is the last adoption that stands, and every key is written once: for
\* every number of experiments, drafts, writers and entries.
THEOREM ExperimentsAreGoverned == Spec => []ExperimentsGoverned
<1>1. ProfileIsLastAdopted /\ WrittenOnce => ExperimentsGoverned
  BY DEF ExperimentsGoverned
<1> QED
  BY <1>1, ExperimentRuns, ProfileIsLastAdoptedHolds, WrittenOnceHolds, PTL

\* What an operator's token let happen is recorded in the order it happened and was
\* authorized, and evidence that verifies is unchanged: for every number of calls, tokens,
\* checkpoints and manifests.
THEOREM OperationsAreAuthorized == Spec => []OperationsAuthorized
<1>1. RecordsInOrder /\ EffectsAuthorized /\ VerifiedIsUnchanged => OperationsAuthorized
  BY DEF OperationsAuthorized
<1> QED
  BY <1>1, OperatorRuns, RecoveryRuns, RecordsInOrderHolds, EffectsAuthorizedHolds, VerifiedIsUnchangedHolds, PTL

\* A ready dataset holds cleared rows only, a whole file under a computed identifier holds
\* the rows that were indexed and the build that is offered is on the disk, whole and ready,
\* unless its last writing was disturbed: for every number of tasks, builds and processes.
THEOREM DatasetsAreCleared == Spec => []DatasetsCleared
<1>1. ReadyIsCleared /\ SameIdSameRows /\ OfferedIsReady => DatasetsCleared
  BY DEF DatasetsCleared
<1> QED
  BY <1>1, DatasetRuns, ReadyIsClearedHolds, SameIdSameRowsHolds, OfferedIsReadyHolds, PTL

\* A paper is drafted once, the queues agree with the drafts of papers and of tasks, an
\* artifact shows a state that was stored, a package of two builds is reported and an outcome
\* is recorded once: for every ranking and every number of runs, tasks, calls and records.
THEOREM DraftsAreConsistent == Spec => []DraftsConsistent
<1>1. OneDraftPerPaper /\ QueuesAgree /\ ArtifactShowsAState /\ MixedPackageReported /\ OneRecordPerKey
      /\ ArtifactIsPrefix => DraftsConsistent
  BY DEF DraftsConsistent
<1> QED
  BY <1>1, DraftRuns, PackageRuns, OutcomeRuns, OneDraftPerPaperHolds, QueuesAgreeHolds, ArtifactShowsAStateHolds,
     MixedPackageReportedHolds, OneRecordPerKeyHolds, ArtifactIsPrefixHolds, PTL

\* A release is allowed on fresh evidence and its ledger follows the decisions; what was
\* counted stays within the limits and is counted in turn: for every number of releases,
\* every limit and every length of the windows.
THEOREM ReleasesStayWithinLimits == Spec => []ReleasesWithinLimits
<1>1. AllowedOnEvidence /\ LedgerFollowsDecisions /\ WithinLimits /\ CountedInTurn => ReleasesWithinLimits
  BY DEF ReleasesWithinLimits
<1> QED
  BY <1>1, ComplianceRuns, QuotaRuns, AllowedOnEvidenceHolds, LedgerFollowsDecisionsHolds, WithinLimitsHolds,
     CountedInTurnHolds, PTL

\* A job is never forgotten nor delivered after it was withdrawn, a request is handled
\* with the right it was accepted with and none on a faulty deployment, a completed task
\* was logged and is recorded, and a log never cut off holds all that was logged: for every
\* number of jobs, requests and calls.
THEOREM ServicesKeptTrack == Spec => []ServicesKeepTrack
<1>1. NoneForgotten /\ WithdrawnNotDelivered /\ StoredWhenAlone /\ NoStartOnFault /\ HandledByRight
      /\ ResponsesAreLogged /\ CompletedIsRecorded => ServicesKeepTrack
  BY DEF ServicesKeepTrack
<1> QED
  BY <1>1, BridgeRuns, GatewayRuns, TaskRuns, NoneForgottenHolds, WithdrawnNotDeliveredHolds, StoredWhenAloneHolds,
     NoStartOnFaultHolds, HandledByRightHolds, ResponsesAreLoggedHolds, CompletedIsRecordedHolds, PTL

\* Nothing is recorded about an experiment that is not under way or whose registered fields
\* were edited, nothing has an effect of a call that the kill-switch was closed to all along,
\* and no update has one while it is closed.
THEOREM StepsArePermitted == Spec => StepsPermitted
<1> QED
  BY ExperimentRuns, OperatorRuns, RecordedUnderLockHolds, SwitchStopsEffectsHolds, PTL DEF StepsPermitted
=============================================================================
