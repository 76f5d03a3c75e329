---------------------------- MODULE ReleaseDecisions ----------------------------
(***************************************************************************)
(* Compliance decisions on a release (src/workflows/compliance-governance):*)
(* an attestation of the runtime, an evidence bundle built on the latest   *)
(* attestation, and decisions that the latest bundle must bear out, chained*)
(* and projected on a ledger. Each operation is one governance transaction.*)
(*                                                                         *)
(* A hash is what it is the hash of. Time counts in units of the policy's  *)
(* freshness; the roles and tokens the operations ask for are left out.    *)
(***************************************************************************)
EXTENDS Naturals, Sequences, SequencesExt

CONSTANTS
  RequiredChecks,   \* activeReleasePolicy.requiredChecks
  MaxAge,           \* activeReleasePolicy.minEvidenceFreshnessHours
  Targets,          \* what a decision is about
  DecisionKeys,     \* idempotency keys
  MaxRecords,       \* bound on the attestations, bundles and decisions together
  MaxTime,          \* bound on the clock
  MaxTruncations    \* bound on the times the ledger loses its end

ASSUME ComplianceAssumption == MaxTime \in Nat /\ MaxAge \in Nat

VARIABLES
  now,
  complianceSwitch, \* outboundMutation.killSwitch
  attestations,     \* attestationSnapshots
  bundles,          \* evidenceBundles
  gates,            \* releaseGates
  ledger,           \* decisionLedger.records
  truncations

complianceVars == <<now, complianceSwitch, attestations, bundles, gates, ledger, truncations>>

Decisions == {"allow", "block", "hold"}
Results == [RequiredChecks -> {"pass", "fail"}]
ComplianceHasRoom == Len(attestations) + Len(bundles) + Len(gates) < MaxRecords
WithKey(list, key) == {i \in DOMAIN list : list[i].key = key}
-----------------------------------------------------------------------------
(* Attestations and bundles *)

\* A key used before adds nothing: the call answers with its record or with a conflict.
CaptureRuntimeAttestation(key) ==
  /\ ~complianceSwitch /\ ComplianceHasRoom
  /\ WithKey(attestations, key) = {}
  /\ attestations' = Append(attestations, [key |-> key, capturedAt |-> now])
  /\ UNCHANGED <<now, complianceSwitch, bundles, gates, ledger, truncations>>

\* The bundle is dated as the caller says, and rests on the latest attestation. Its
\* results may name a check the policy does not require (extra): the hash covers that
\* result, and reading the state back drops it.
BuildEvidenceBundle(key, results, extra, asOf) ==
  /\ ~complianceSwitch /\ ComplianceHasRoom
  /\ attestations # <<>>
  /\ WithKey(bundles, key) = {}
  /\ bundles' = Append(bundles, [key |-> key, results |-> results, extra |-> extra, asOf |-> asOf,
                                 attestation |-> Len(attestations)])
  /\ UNCHANGED <<now, complianceSwitch, attestations, gates, ledger, truncations>>
-----------------------------------------------------------------------------
(* The gate *)

FreshnessAge(asOf, reference) == IF asOf > reference THEN asOf - reference ELSE 0

\* verifyEvidenceBundleIntegrity, of a bundle read back.
BundleIntact(bundle) == ~bundle.extra

\* A gate that is satisfied by any bundle there has been.
Recommends_Any(asOf) ==
  IF \E i \in DOMAIN bundles :
       /\ \A check \in RequiredChecks : bundles[i].results[check] = "pass"
       /\ FreshnessAge(asOf, bundles[i].asOf) <= MaxAge
  THEN "allow" ELSE "block"

\* evaluateReleaseGate: the latest bundle must still match its hash, pass every check
\* and be fresh enough.
Recommends(asOf) ==
  IF bundles = <<>> THEN "block"
  ELSE IF ~BundleIntact(Last(bundles)) THEN "block"
  ELSE IF \E check \in RequiredChecks : Last(bundles).results[check] # "pass" THEN "block"
  ELSE IF FreshnessAge(asOf, Last(bundles).asOf) > MaxAge THEN "hold"
  ELSE "allow"

\* The hash the next decision carries of the one before it.
LastGate == Len(gates)

\* buildExpectedComplianceLedgerFromDecisions: one record for each decision, in order.
Projection(decisions) ==
  [i \in DOMAIN decisions |-> [gate |-> i, previous |-> decisions[i].previous, decision |-> decisions[i].decision]]

\* A decision that appends its record to the ledger it finds.
LedgerAfter_Appended(decisions) ==
  Append(ledger, [gate |-> Len(decisions), previous |-> Last(decisions).previous,
                  decision |-> Last(decisions).decision])

\* The ledger is made anew from the decisions, what it had lost restored.
LedgerAfter(decisions) == Projection(decisions)

\* An operator may decide against an allow, never for one the gate does not give. A key
\* decides once; the bundles that stood then are noted for the properties.
ApplyReleaseGateDecision(key, target, decision, asOf) ==
  /\ ~complianceSwitch /\ ComplianceHasRoom
  /\ WithKey(gates, key) = {}
  /\ decision = "allow" => Recommends(asOf) = "allow"
  /\ gates' = Append(gates, [key |-> key, target |-> target, decision |-> decision, asOf |-> asOf,
                             previous |-> LastGate, standing |-> Len(bundles)])
  /\ ledger' = LedgerAfter(gates')
  /\ UNCHANGED <<now, complianceSwitch, attestations, bundles, truncations>>

\* repairTruncatedComplianceLedgerTail refuses a ledger that is not the beginning of
\* what the decisions give.
RepairPermitted(records, decisions) == IsPrefix(records, Projection(decisions))

RepairComplianceLedgerTail ==
  /\ ~complianceSwitch
  /\ RepairPermitted(ledger, gates)
  /\ ledger' = Projection(gates)
  /\ UNCHANGED <<now, complianceSwitch, attestations, bundles, gates, truncations>>
-----------------------------------------------------------------------------
(* The surroundings *)

ComplianceSetKillSwitch ==
  /\ complianceSwitch' = ~complianceSwitch
  /\ UNCHANGED <<now, attestations, bundles, gates, ledger, truncations>>

TimePasses ==
  /\ now < MaxTime
  /\ now' = now + 1
  /\ UNCHANGED <<complianceSwitch, attestations, bundles, gates, ledger, truncations>>

\* The state file is edited: the ledger loses its last record.
TruncateLedger ==
  /\ truncations < MaxTruncations
  /\ ledger # <<>>
  /\ ledger' = Front(ledger)
  /\ truncations' = truncations + 1
  /\ UNCHANGED <<now, complianceSwitch, attestations, bundles, gates>>
-----------------------------------------------------------------------------
ComplianceInit ==
  /\ now = 0
  /\ complianceSwitch = FALSE
  /\ attestations = <<>> /\ bundles = <<>> /\ gates = <<>> /\ ledger = <<>>
  /\ truncations = 0

ComplianceNext ==
  \/ \E key \in DecisionKeys : CaptureRuntimeAttestation(key)
  \/ \E key \in DecisionKeys, results \in Results, extra \in BOOLEAN, asOf \in 0..now :
       BuildEvidenceBundle(key, results, extra, asOf)
  \/ \E key \in DecisionKeys, target \in Targets, decision \in Decisions, asOf \in 0..now :
       ApplyReleaseGateDecision(key, target, decision, asOf)
  \/ RepairComplianceLedgerTail
  \/ ComplianceSetKillSwitch \/ TimePasses \/ TruncateLedger

ComplianceSpec == ComplianceInit /\ [][ComplianceNext]_complianceVars
-----------------------------------------------------------------------------
(* Properties *)

ComplianceTypeOK ==
  /\ now \in 0..MaxTime
  /\ complianceSwitch \in BOOLEAN
  /\ attestations \in Seq([key : DecisionKeys, capturedAt : 0..MaxTime])
  /\ bundles \in Seq([key : DecisionKeys, results : Results, extra : BOOLEAN, asOf : 0..MaxTime, attestation : Nat])
  /\ gates \in Seq([key : DecisionKeys, target : Targets, decision : Decisions, asOf : 0..MaxTime,
                    previous : Nat, standing : Nat])
  /\ ledger \in Seq([gate : Nat, previous : Nat, decision : Decisions])

\* What was allowed rested on the bundle that stood last then: it matched its hash when
\* read back, all its checks had passed, it was not older than the policy lets it be, and the attestation under it
\* had been captured (release-gate-governor.js).
AllowedOnEvidence ==
  \A i \in DOMAIN gates : gates[i].decision = "allow" =>
    LET standing == gates[i].standing IN
    /\ standing \in DOMAIN bundles
    /\ BundleIntact(bundles[standing])
    /\ \A check \in RequiredChecks : bundles[standing].results[check] = "pass"
    /\ gates[i].asOf <= bundles[standing].asOf + MaxAge
    /\ bundles[standing].attestation \in DOMAIN attestations

\* The ledger is the beginning of what the decisions give, however it was truncated,
\* repaired and decided on between (compliance-decision-ledger.js).
LedgerFollowsDecisions ==
  /\ IsPrefix(ledger, Projection(gates))
  /\ \A i \in DOMAIN gates : gates[i].previous = i - 1
=============================================================================
