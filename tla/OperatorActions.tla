--------------------------- MODULE OperatorActions ---------------------------
(***************************************************************************)
(* What an operator does with an approval token: a restore                 *)
(* (restore-orchestrator.js), a runbook (runbook-orchestrator.js) and a    *)
(* dependency update (dependency-update-governor.js), and the escalations  *)
(* that end in the same ledger (escalation-orchestrator.js,                *)
(* alert-router.js).  Each consumes its token, reads the kill-switch       *)
(* outside every transaction, takes effect on what it read, and then       *)
(* records an override (operator-override-ledger.js) and a decision        *)
(* (operational-decision-ledger.js), every record in a governance          *)
(* transaction of its own. The switch is set in such a transaction too.    *)
(***************************************************************************)
EXTENDS Naturals, Sequences, SequencesExt

CONSTANTS
  Calls,              \* the calls made, some of them at the same time
  ApprovalTokens,     \* the tokens issued to operators
  TokenScope          \* token -> the operation it is issued for

VARIABLES
  approvals,    \* token -> what became of it; a token lives in memory
  calls,        \* call -> [op, token, pc, result, todo: the records it has left to write]
  effects,      \* {[call, token, op]}: what the executors did
  overrides,    \* the override ledger
  opDecisions,  \* the operational decision ledger
  operatorSwitch,
  openTo        \* history: the calls approved that the switch was open to

operatorVars == <<approvals, calls, effects, overrides, opDecisions, operatorSwitch, openTo>>

Gated == {"restore", "runbook", "update"}
Escalations == {"escalate", "acknowledge"}
NoToken == "none"

\* What is recorded for an operation, in order.
Records(op) ==
  IF op \in Gated THEN <<"override", "decision">>
  ELSE IF op = "escalate" THEN <<"alert.routed", "incident.escalated">>
  ELSE <<"incident.escalation_ack", "alert.acknowledged">>

OperatorEntries == [call : Calls, kind : {"override", "decision", "alert.routed", "incident.escalated",
                                          "incident.escalation_ack", "alert.acknowledged"},
                    result : {"rejected", "recorded", "applied", "simulated", "failed"}]
OperatorTypeOK ==
  /\ approvals \in [ApprovalTokens -> {"issued", "consumed", "gone"}]
  /\ \A c \in Calls :
       /\ calls[c].op \in Gated \cup Escalations \cup {"none"}
       /\ calls[c].token \in ApprovalTokens \cup {NoToken}
       /\ calls[c].pc \in {"idle", "checking", "executing", "recording", "answered", "thrown", "lost"}
       /\ calls[c].todo \in {<<>>, Records(calls[c].op), Tail(Records(calls[c].op))}
  /\ effects \subseteq [call : Calls, token : ApprovalTokens, op : Gated]
  /\ overrides \in Seq(OperatorEntries) /\ opDecisions \in Seq(OperatorEntries)
  /\ operatorSwitch \in BOOLEAN /\ openTo \subseteq Calls

OperatorIdle == [op |-> "none", token |-> NoToken, pc |-> "idle", result |-> "none", todo |-> <<>>]

OperatorInit ==
  /\ approvals = [t \in ApprovalTokens |-> "issued"] /\ calls = [c \in Calls |-> OperatorIdle]
  /\ effects = {} /\ overrides = <<>> /\ opDecisions = <<>> /\ operatorSwitch = FALSE /\ openTo = {}
-----------------------------------------------------------------------------
(* The beginning of a call *)

Recording(op, token, result) ==
  [op |-> op, token |-> token, pc |-> "recording", result |-> result, todo |-> Records(op)]
Become(c, pc) == calls' = [calls EXCEPT ![c].pc = pc]

\* Without confirmation, or a restore or update without a token: recorded as rejected.
Reject(c) ==
  /\ calls[c].pc = "idle"
  /\ \E op \in Gated : calls' = [calls EXCEPT ![c] = Recording(op, NoToken, "rejected")]
  /\ UNCHANGED <<approvals, effects, overrides, opDecisions, operatorSwitch, openTo>>

ConsumeApprovalToken_Kept(t, op) == approvals[t] = "issued" /\ TokenScope[t] = op /\ UNCHANGED approvals
ConsumeApprovalToken(t, op) ==
  /\ approvals[t] = "issued" /\ TokenScope[t] = op
  /\ approvals' = [approvals EXCEPT ![t] = "consumed"]

\* Consuming waits for nothing; what follows it does.  A token that is not valid
\* is answered with an exception that changes nothing.
Approve(c, t, op) ==
  /\ calls[c].pc = "idle" /\ ConsumeApprovalToken(t, op)
  /\ calls' = [calls EXCEPT ![c] = [OperatorIdle EXCEPT !.op = op, !.token = t, !.pc = "checking"]]
  /\ openTo' = IF operatorSwitch THEN openTo ELSE openTo \cup {c}
  /\ UNCHANGED <<effects, overrides, opDecisions, operatorSwitch>>

\* An alert is routed and an escalation acknowledged by anyone, with no effect
\* but the records.
Escalate(c) ==
  /\ calls[c].pc = "idle"
  /\ \E op \in Escalations : calls' = [calls EXCEPT ![c] = Recording(op, NoToken, "recorded")]
  /\ UNCHANGED <<approvals, effects, overrides, opDecisions, operatorSwitch, openTo>>
-----------------------------------------------------------------------------
(* The effect *)

\* Executors are injected.  Without one a restore is simulated, and a runbook
\* fails: it starts a script that looks the token up in the memory of its own
\* process, where it never is.
Outcomes(op) == {"applied", "failed"} \cup (IF op = "restore" THEN {"simulated"} ELSE {})

\* An executor that fails may have done a part of what it was asked for.
TakeEffect(c, outcome) ==
  LET call == calls[c] IN
  /\ calls' = [calls EXCEPT ![c] = Recording(call.op, call.token, outcome)]
  /\ \/ /\ outcome # "simulated"
        /\ effects' = effects \cup {[call |-> c, token |-> call.token, op |-> call.op]}
     \/ outcome # "applied" /\ UNCHANGED effects

\* The state file is read without the lock. What is read decides, after the records have
\* been read as well; a read that fails ends the call.
ReadState_NotLooked(c) ==
  /\ calls[c].pc = "checking" /\ Become(c, "executing")
  /\ UNCHANGED <<approvals, effects, overrides, opDecisions, operatorSwitch, openTo>>
ReadState(c) ==
  /\ calls[c].pc = "checking"
  /\ \/ ~operatorSwitch /\ Become(c, "executing")
     \/ Become(c, "thrown")
  /\ UNCHANGED <<approvals, effects, overrides, opDecisions, operatorSwitch, openTo>>

\* The executor of a runbook or of a restore: what was read may be over by now, and a
\* restore runs while other calls do.
Execute(c) ==
  /\ calls[c].pc = "executing" /\ calls[c].op # "update"
  /\ \E outcome \in Outcomes(calls[c].op) : TakeEffect(c, outcome)
  /\ UNCHANGED <<approvals, overrides, opDecisions, operatorSwitch, openTo>>

\* The known-good manifest is written in a transaction that looks at the
\* kill-switch again; the write or the persisting after it may fail.
SwitchOpen_Before(c) == TRUE
SwitchOpen(c) == ~operatorSwitch

ApplyKnownGoodManifest(c) ==
  /\ calls[c].pc = "executing" /\ calls[c].op = "update"
  /\ \/ SwitchOpen(c) /\ TakeEffect(c, "applied")
     \/ /\ SwitchOpen(c) /\ Become(c, "thrown")
        /\ effects' = effects \cup {[call |-> c, token |-> calls[c].token, op |-> "update"]}
     \/ Become(c, "thrown") /\ UNCHANGED effects
  /\ UNCHANGED <<approvals, overrides, opDecisions, operatorSwitch, openTo>>
-----------------------------------------------------------------------------
(* The records *)

Entry(c) == [call |-> c, kind |-> Head(calls[c].todo), result |-> calls[c].result]
Remaining_Last(c) == calls' = [calls EXCEPT ![c].todo = Front(@),
                                 ![c].pc = IF Len(calls[c].todo) = 1 THEN "answered" ELSE @]
Remaining(c) == calls' = [calls EXCEPT ![c].todo = Tail(@),
                            ![c].pc = IF Len(calls[c].todo) = 1 THEN "answered" ELSE @]

\* A token of its own is issued and consumed at once; the kill-switch is looked
\* at before the transaction and in it.
RecordOverride(c) ==
  /\ calls[c].pc = "recording" /\ Head(calls[c].todo) = "override"
  /\ ~operatorSwitch
  /\ overrides' = Append(overrides, Entry(c)) /\ Remaining(c)
  /\ UNCHANGED <<approvals, effects, opDecisions, operatorSwitch, openTo>>

RecordDecision_First(c) ==
  /\ calls[c].pc = "recording"
  /\ opDecisions' = Append(opDecisions, [Entry(c) EXCEPT !.kind = Last(calls[c].todo)])
  /\ Become(c, "answered")
  /\ UNCHANGED <<approvals, effects, overrides, operatorSwitch, openTo>>
OperatorRecordDecision(c) ==
  /\ calls[c].pc = "recording" /\ Head(calls[c].todo) # "override"
  /\ opDecisions' = Append(opDecisions, Entry(c)) /\ Remaining(c)
  /\ UNCHANGED <<approvals, effects, overrides, operatorSwitch, openTo>>

\* The kill-switch refuses the override, or a transaction fails.
RecordFails(c) ==
  /\ calls[c].pc = "recording" /\ Become(c, "thrown")
  /\ UNCHANGED <<approvals, effects, overrides, opDecisions, operatorSwitch, openTo>>
-----------------------------------------------------------------------------
OperatorSetKillSwitch ==
  /\ operatorSwitch' = ~operatorSwitch
  /\ openTo' = IF operatorSwitch THEN openTo \cup {c \in Calls : calls[c].pc = "checking"} ELSE openTo
  /\ UNCHANGED <<approvals, calls, effects, overrides, opDecisions>>

TokenExpires(t) ==
  /\ approvals[t] = "issued" /\ approvals' = [approvals EXCEPT ![t] = "gone"]
  /\ UNCHANGED <<calls, effects, overrides, opDecisions, operatorSwitch, openTo>>

\* The calls under way and the tokens are lost with the process.
OperatorRestart ==
  /\ calls' = [c \in Calls |-> IF calls[c].pc \in {"checking", "executing", "recording"}
                               THEN [calls[c] EXCEPT !.pc = "lost"] ELSE calls[c]]
  /\ approvals' = [t \in ApprovalTokens |-> IF approvals[t] = "issued" THEN "gone" ELSE approvals[t]]
  /\ UNCHANGED <<effects, overrides, opDecisions, operatorSwitch, openTo>>

OperatorNext ==
  \/ \E c \in Calls :
       \/ Reject(c) \/ Escalate(c)
       \/ \E t \in ApprovalTokens, op \in Gated : Approve(c, t, op)
       \/ ReadState(c) \/ Execute(c) \/ ApplyKnownGoodManifest(c)
       \/ RecordOverride(c) \/ OperatorRecordDecision(c) \/ RecordFails(c)
  \/ OperatorSetKillSwitch \/ OperatorRestart
  \/ \E t \in ApprovalTokens : TokenExpires(t)

OperatorSpec == OperatorInit /\ [][OperatorNext]_operatorVars
-----------------------------------------------------------------------------
(* Properties *)

Recorded(c) == {kind \in {"override", "decision", "alert.routed", "incident.escalated",
                          "incident.escalation_ack", "alert.acknowledged"} :
                  \E ledger \in {overrides, opDecisions} :
                    \E i \in DOMAIN ledger : ledger[i].call = c /\ ledger[i].kind = kind}

\* The records of a call are in the ledgers in their order, none without those
\* before it, and a call is answered only when all of them are: a decision always
\* has its override, though calls overlap, fail and are lost (executeRestore,
\* executeRunbookAction, approveUpdate, initiateEscalation).
RecordsInOrder ==
  \A c \in Calls :
    LET all == Records(calls[c].op) IN
    /\ calls[c].op # "none" =>
         \A i \in 2..Len(all) : all[i] \in Recorded(c) => all[i - 1] \in Recorded(c)
    /\ calls[c].pc = "answered" => Recorded(c) = ToSet(all)

\* Whatever an executor did, one token let it do once, and the ledgers have the
\* call unless it ended in an exception or with the process.
EffectsAuthorized ==
  /\ \A e, f \in effects : e.token = f.token => e = f
  /\ \A e \in effects : approvals[e.token] = "consumed" /\ TokenScope[e.token] = e.op
  /\ \A e \in effects : calls[e.call].pc \in {"recording", "answered", "thrown", "lost"}
                        /\ calls[e.call].result # "rejected"

\* Nothing has an effect of a call that the kill-switch was closed to from its approval
\* on, and an update has none while it is closed: it looks again in the transaction that
\* writes (executeRunbookAction, executeRestore, approveUpdate).
SwitchStopsEffects ==
  [][\A e \in effects' \ effects :
       /\ e.call \in openTo
       /\ e.op = "update" => ~operatorSwitch]_operatorVars
=============================================================================
