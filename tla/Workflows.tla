------------------------------ MODULE Workflows ------------------------------
(***************************************************************************)
(* The components that run on their own, one instance of each beside the   *)
(* others: part says which of them takes the steps, and the others keep    *)
(* the state they start in.                                                *)
(***************************************************************************)
EXTENDS AccessControl, ExperimentGovernance, OperatorActions, RecoveryAssurance, DatasetPipeline, BridgeJobs,
        Gateway, DraftWorkflows, ManualPackage, DraftOutcomes, ReleaseDecisions, GovernanceQuota, TaskExecution

CONSTANT Parts       \* the components whose steps are of interest
VARIABLE part        \* the component that takes the steps
vars == <<part, accessVars, experimentVars, operatorVars, recoveryVars, datasetVars, bridgeVars, gatewayVars,
          draftVars, packageVars, outcomeVars, complianceVars, quotaVars, taskVars>>

ASSUME PartsAssumption ==
  Parts \subseteq {"access", "captures", "rollouts", "operator", "recovery", "dataset", "bridge", "gateway",
                   "drafts", "package", "outcomes", "compliance", "quota", "task"}

Init ==
  /\ part \in Parts
  /\ AccessInit /\ ExperimentInit /\ OperatorInit /\ RecoveryInit /\ DatasetInit /\ BridgeInit
  /\ GatewayInit /\ DraftInit
  /\ PackageInit /\ OutcomeInit /\ ComplianceInit /\ QuotaInit /\ TaskInit
  /\ part # "recovery" => \A f \in DOMAIN files : files[f] = "absent"
  /\ part # "gateway" => faults = {}

\* Overlapping captures and edits on one experiment, and two experiments in turn.
Captures == ExperimentNext /\ Len(experiments') <= 1
Rollouts == ExperimentNext /\ UNCHANGED edits /\ Cardinality({w \in Writers : writing'[w] # NoWrite}) <= 1

Next ==
  /\ UNCHANGED part
  /\ IF part = "access" THEN AccessNext ELSE UNCHANGED accessVars
  /\ \/ part = "captures" /\ Captures
     \/ part = "rollouts" /\ Rollouts
     \/ part \notin {"captures", "rollouts"} /\ UNCHANGED experimentVars
  /\ IF part = "operator" THEN OperatorNext ELSE UNCHANGED operatorVars
  /\ IF part = "recovery" THEN RecoveryNext ELSE UNCHANGED recoveryVars
  /\ IF part = "dataset" THEN DatasetNext ELSE UNCHANGED datasetVars
  /\ IF part = "bridge" THEN BridgeNext ELSE UNCHANGED bridgeVars
  /\ IF part = "gateway" THEN GatewayNext ELSE UNCHANGED gatewayVars
  /\ IF part = "drafts" THEN DraftNext ELSE UNCHANGED draftVars
  /\ IF part = "package" THEN PackageNext ELSE UNCHANGED packageVars
  /\ IF part = "outcomes" THEN OutcomeNext ELSE UNCHANGED outcomeVars
  /\ IF part = "compliance" THEN ComplianceNext ELSE UNCHANGED complianceVars
  /\ IF part = "quota" THEN QuotaNext ELSE UNCHANGED quotaVars
  /\ IF part = "task" THEN TaskNext ELSE UNCHANGED taskVars

Spec == Init /\ [][Next]_vars
-----------------------------------------------------------------------------
(* Properties *)

\* Every component keeps its types.
TypesOK ==
  /\ part = "access" => AccessTypeOK
  /\ part \in {"captures", "rollouts"} => ExperimentTypeOK
  /\ part = "operator" => OperatorTypeOK
  /\ part = "recovery" => RecoveryTypeOK
  /\ part = "dataset" => DatasetTypeOK
  /\ part = "bridge" => BridgeTypeOK
  /\ part = "gateway" => GatewayTypeOK
  /\ part = "drafts" => DraftTypeOK
  /\ part = "package" => PackageTypeOK
  /\ part = "outcomes" => OutcomeTypeOK
  /\ part = "compliance" => ComplianceTypeOK
  /\ part = "quota" => QuotaTypeOK
  /\ part = "task" => TaskTypeOK

\* A revocation is final in the order of the ledger, a rotation has one
\* successor, and every granted answer is recorded (src/workflows/access-control).
AccessAccountable == part = "access" =>
  RevocationFinal /\ OneSuccessor /\ AnswersRecorded

\* The active profile is the last adoption that stands, and every key is written
\* once (src/workflows/experiment-governance).
ExperimentsGoverned == part \in {"captures", "rollouts"} =>
  ProfileIsLastAdopted /\ WrittenOnce

\* What an operator's token let happen is recorded in the order it happened and was
\* authorized, and evidence that verifies is unchanged (src/workflows/observability,
\* runbook-automation, supply-chain, recovery-assurance).
OperationsAuthorized ==
  /\ part = "operator" => RecordsInOrder /\ EffectsAuthorized
  /\ part = "recovery" => VerifiedIsUnchanged

\* A ready dataset holds cleared rows only, a whole file under a computed identifier holds
\* the rows that were indexed, and the build that is offered is on the disk, whole and ready,
\* unless its last writing was cut off or overlapped (src/openclaw-bridge/dataset).
DatasetsCleared == part = "dataset" =>
  ReadyIsCleared /\ SameIdSameRows /\ OfferedIsReady

\* A paper is drafted once, the queues agree with the drafts, an artifact shows a state
\* that was stored, a package of two builds does not verify and an outcome is recorded
\* once (src/workflows/rlhf-generator, rlhf-outcomes, rlhf-review.js).
DraftsConsistent ==
  /\ part = "drafts" => OneDraftPerPaper /\ QueuesAgree /\ ArtifactShowsAState
  /\ part = "package" => MixedPackageReported
  /\ part = "outcomes" => OneRecordPerKey /\ ArtifactIsPrefix

\* A release is allowed on fresh evidence and its ledger follows the decisions; what was
\* counted stays within the limits (src/workflows/compliance-governance,
\* src/security/api-governance.js).
ReleasesWithinLimits ==
  /\ part = "compliance" => AllowedOnEvidence /\ LedgerFollowsDecisions
  /\ part = "quota" => WithinLimits /\ CountedInTurn

\* A job is never forgotten nor delivered after it was withdrawn, a request is handled
\* with the right it was accepted with and none on a faulty deployment, and a completed
\* task was logged and is recorded; a log that was never cut off holds all that was logged
\* (src/openclaw-bridge/bridge, mcp, core).
ServicesKeepTrack ==
  /\ part = "bridge" => NoneForgotten /\ WithdrawnNotDelivered /\ StoredWhenAlone
  /\ part = "gateway" => NoStartOnFault /\ HandledByRight
  /\ part = "task" => ResponsesAreLogged /\ CompletedIsRecorded

\* Nothing is recorded about an experiment that is not under way or whose registered
\* fields were edited, nothing has an effect of a call that the kill-switch was closed to
\* all along, and no update has one while it is closed (src/workflows/experiment-governance,
\* runbook-automation, recovery-assurance, supply-chain).
StepsPermitted == RecordedUnderLock /\ SwitchStopsEffects
=============================================================================
