------------------------- MODULE ExperimentGovernance -------------------------
(***************************************************************************)
(* src/workflows/experiment-governance: experiments on templates and       *)
(* weights (experiment-manager.js), the drafts assigned to their two       *)
(* cohorts (deterministic-assignment-engine.js), the analysis of what came *)
(* of the drafts (experiment-analysis-engine.js) and the decisions that    *)
(* make a treatment the active profile (rollout-governor.js), with their   *)
(* ledger (decision-ledger.js).  All of it is one block of the governance  *)
(* state, and each write is one transaction on it; a capture is computed   *)
(* from the state as it was read before its transaction.                   *)
(***************************************************************************)
EXTENDS Naturals, Sequences, FiniteSets, SequencesExt

CONSTANTS
  Writers,          \* captures that may overlap
  Drafts, Cohort,   \* the drafts, and the cohort that the bucket of each falls in
  Ratings,          \* what may come of a draft: [result, score]
  Fields,           \* what may be registered: treatment, control, guardrails, window, plan
  MinOutcomes,      \* window.minFinalizedOutcomes
  MinScore,         \* guardrails.minQualityScore
  MaxRejectDelta,   \* guardrails.maxRejectRateDelta, in percent
  MaxEntries,       \* bound: assignments, snapshots and decisions together
  MaxExperiments,   \* bound: experiments
  MaxEdits          \* bound: edits of the stored state by hand

ASSUME ExperimentAssumption ==
  /\ MaxEntries \in Nat /\ MaxExperiments \in Nat /\ MaxEdits \in Nat
  /\ Cohort \in [Drafts -> {"control", "treatment"}]

VARIABLES
  experiments,    \* [status, fields, lock]
  assignments,    \* {[experiment, draft, cohort, key]}
  snapshots,      \* [experiment, recommendation, key]
  decisions,      \* [experiment, decision, key]
  ledgered,       \* how many decisions the decision ledger holds
  profile,        \* activeRolloutProfile: [experiment, fields], 0 for the default one
  outcomes,       \* draft -> its latest outcome record
  experimentSwitch,
  writing,        \* writer -> the snapshot it has computed and not stored
  edits           \* edits of the stored state by hand

experimentVars == <<experiments, assignments, snapshots, decisions, ledgered, profile, outcomes,
                    experimentSwitch, writing, edits>>

ExperimentStatuses == {"draft", "approved", "running", "paused", "completed", "archived"}
RolloutChoices == {"adopt", "hold", "rollback"}
DefaultProfile == [experiment |-> 0, fields |-> "default"]
ExperimentKeys == 1..MaxEntries
NoWrite == [key |-> 0]
NoOutcome == [result |-> "pending", score |-> 0]

ExperimentTypeOK ==
  /\ experiments \in Seq([status : ExperimentStatuses, fields : Fields \cup {"edited"}, lock : Fields \cup {"none", "edited"}])
  /\ assignments \subseteq [experiment : 1..MaxExperiments, draft : Drafts,
                            cohort : {"control", "treatment"}, key : ExperimentKeys]
  /\ snapshots \in Seq([experiment : 1..MaxExperiments, recommendation : RolloutChoices, key : ExperimentKeys])
  /\ decisions \in Seq([experiment : 1..MaxExperiments, decision : RolloutChoices, key : ExperimentKeys])
  /\ ledgered \in 0..Len(decisions)
  /\ profile \in [experiment : 0..MaxExperiments, fields : Fields \cup {"default", "edited"}]
  /\ outcomes \in [Drafts -> Ratings \cup {NoOutcome}] /\ experimentSwitch \in BOOLEAN /\ edits \in 0..MaxEdits
  /\ writing \in [Writers -> {NoWrite} \cup
                  [experiment : 1..MaxExperiments, recommendation : RolloutChoices, key : ExperimentKeys]]

ExperimentInit ==
  /\ experiments = <<>> /\ assignments = {} /\ snapshots = <<>> /\ decisions = <<>> /\ ledgered = 0
  /\ profile = DefaultProfile /\ outcomes = [d \in Drafts |-> NoOutcome] /\ experimentSwitch = FALSE
  /\ writing = [w \in Writers |-> NoWrite] /\ edits = 0
-----------------------------------------------------------------------------
(* Experiments *)

\* The hash of the registered fields is taken at the start and compared later.
LockHolds(e) ==
  experiments[e].status \in {"running", "paused", "completed", "archived"}
    => experiments[e].lock = experiments[e].fields

CreateExperiment ==
  /\ ~experimentSwitch /\ Len(experiments) < MaxExperiments
  /\ \E fields \in Fields :
       experiments' = Append(experiments, [status |-> "draft", fields |-> fields, lock |-> "none"])
  /\ UNCHANGED <<assignments, snapshots, decisions, ledgered, profile, outcomes, experimentSwitch, writing, edits>>

StatusMoves ==
  {<<"draft", "approved">>, <<"approved", "running">>, <<"running", "paused">>,
   <<"running", "completed">>, <<"paused", "completed">>, <<"completed", "archived">>}
MoveExperiment(e) ==
  /\ ~experimentSwitch /\ LockHolds(e)
  /\ \E status \in ExperimentStatuses :
       /\ <<experiments[e].status, status>> \in StatusMoves
       /\ experiments' = [experiments EXCEPT ![e].status = status,
            ![e].lock = IF status = "running" THEN experiments[e].fields ELSE @]
  /\ UNCHANGED <<assignments, snapshots, decisions, ledgered, profile, outcomes, experimentSwitch, writing, edits>>
-----------------------------------------------------------------------------
(* Assignments *)

\* A caller sends a key again, or a new one; new ones are numbered in order.
CallKeys(entries) == 1..(Cardinality(entries) + 1)
Room == Cardinality(assignments) + Len(snapshots) + Len(decisions) < MaxEntries

\* The same key again is answered with what is stored, and anything else refused.
IsNewAssignment_ByKey(e, d, key) == \A a \in assignments : a.key # key
IsNewAssignment(e, d, key) ==
  \A a \in assignments : a.key # key /\ <<a.experiment, a.draft>> # <<e, d>>

AssignDraft(e, d, key) ==
  /\ ~experimentSwitch /\ experiments[e].status \in {"running", "paused"} /\ LockHolds(e)
  /\ IsNewAssignment(e, d, key)
  /\ Room
  /\ assignments' = assignments \cup {[experiment |-> e, draft |-> d, cohort |-> Cohort[d], key |-> key]}
  /\ UNCHANGED <<experiments, snapshots, decisions, ledgered, profile, outcomes, experimentSwitch, writing, edits>>
-----------------------------------------------------------------------------
(* Analysis *)

Scored(e, cohort) == {a.draft : a \in {b \in assignments : b.experiment = e /\ b.cohort = cohort}}
Finalized(e, cohort) == {d \in Scored(e, cohort) : outcomes[d].result # "pending"}

\* A group with nothing finalized has rate and score 0.
Rate(e, cohort, result) ==
  LET n == Cardinality(Finalized(e, cohort)) IN
  IF n = 0 THEN 0 ELSE (100 * Cardinality({d \in Finalized(e, cohort) : outcomes[d].result = result})) \div n
MeanScore(e, cohort) ==
  LET all == Finalized(e, cohort) IN
  IF all = {} THEN 0 ELSE FoldSet(LAMBDA d, sum : outcomes[d].score + sum, 0, all) \div Cardinality(all)

GuardrailBreached(e) ==
  \/ Rate(e, "treatment", "rejected") > Rate(e, "control", "rejected") + MaxRejectDelta
  \/ MeanScore(e, "treatment") < MinScore

BuildAnalysis(e) ==
  IF /\ Cardinality(Finalized(e, "treatment")) + Cardinality(Finalized(e, "control")) >= MinOutcomes
     /\ ~GuardrailBreached(e)
     /\ Rate(e, "treatment", "accepted") > Rate(e, "control", "accepted")
  THEN "adopt" ELSE "hold"

Analysable(e) == experiments[e].status \in {"running", "paused", "completed"} /\ LockHolds(e)
KnownKey(entries, key) == \E i \in DOMAIN entries : entries[i].key = key

BeginCapture(w, e, key) ==
  /\ Room /\ writing[w] = NoWrite /\ ~experimentSwitch /\ Analysable(e)
  /\ writing' = [writing EXCEPT ![w] = [experiment |-> e, recommendation |-> BuildAnalysis(e), key |-> key]]
  /\ UNCHANGED <<experiments, assignments, snapshots, decisions, ledgered, profile, outcomes, experimentSwitch, edits>>

\* The transaction looks at the experiment again, and may be refused or fail.  A
\* key that is known changes nothing, whether its entry is the same or another.
CapturePermitted_Before(w) == TRUE
CapturePermitted(w) == ~experimentSwitch /\ Analysable(writing[w].experiment)

CaptureSnapshot(w) ==
  /\ writing[w] # NoWrite /\ writing' = [writing EXCEPT ![w] = NoWrite]
  /\ \/ /\ CapturePermitted(w) /\ Room /\ ~KnownKey(snapshots, writing[w].key)
        /\ snapshots' = Append(snapshots, writing[w])
     \/ UNCHANGED snapshots
  /\ UNCHANGED <<experiments, assignments, decisions, ledgered, profile, outcomes, experimentSwitch, edits>>
-----------------------------------------------------------------------------
(* Rollout decisions *)

\* The profile is recomputed from the first decision on: adopting keeps the
\* profile it replaces, and a rollback puts the last one kept back.
Step_ToDefault(acc, d) ==
  IF d.decision = "adopt"
  THEN [history |-> Append(acc.history, acc.current), current |-> d.experiment]
  ELSE IF d.decision = "rollback" THEN [history |-> <<>>, current |-> 0] ELSE acc
Step(acc, d) ==
  IF d.decision = "adopt"
  THEN [history |-> Append(acc.history, acc.current), current |-> d.experiment]
  ELSE IF d.decision = "rollback" /\ acc.history # <<>>
  THEN [history |-> Front(acc.history), current |-> Last(acc.history)]
  ELSE acc
Profiles(all) ==
  LET after[n \in 0..Len(all)] ==
        IF n = 0 THEN [history |-> <<>>, current |-> 0] ELSE Step(after[n - 1], all[n])
  IN  after[Len(all)]
RecomputeProfile(all) ==
  LET e == Profiles(all).current IN
  IF e = 0 THEN DefaultProfile ELSE [experiment |-> e, fields |-> experiments[e].fields]

\* What the ledger has is a beginning of what the decisions say: the rest is put back.
RepairTruncatedLedgerTail(all) == ledgered <= Len(all) /\ ledgered' = Len(all)

\* The decision is the operator's, who may take any, or else what an analysis
\* recommended before the transaction.  The ledger is rebuilt as well.
ApplyDecision(e, decision, key) ==
  /\ ~experimentSwitch /\ Analysable(e) /\ Room /\ ~KnownKey(decisions, key)
  /\ decisions' = Append(decisions, [experiment |-> e, decision |-> decision, key |-> key])
  /\ RepairTruncatedLedgerTail(decisions')
  /\ profile' = RecomputeProfile(decisions')
  /\ UNCHANGED <<experiments, assignments, snapshots, outcomes, experimentSwitch, writing, edits>>

RepairLedger ==
  /\ ~experimentSwitch /\ \A e \in DOMAIN experiments : LockHolds(e)
  /\ ledgered < Len(decisions) /\ RepairTruncatedLedgerTail(decisions)
  /\ UNCHANGED <<experiments, assignments, snapshots, decisions, profile, outcomes, experimentSwitch, writing, edits>>
-----------------------------------------------------------------------------
(* What happens around them *)

\* A later outcome record of a draft takes the place of an earlier one.
CaptureOutcome(d) ==
  /\ \E a \in assignments : a.draft = d
  /\ \E outcome \in Ratings \ {outcomes[d]} : outcomes' = [outcomes EXCEPT ![d] = outcome]
  /\ UNCHANGED <<experiments, assignments, snapshots, decisions, ledgered, profile, experimentSwitch, writing, edits>>

ExperimentSetKillSwitch ==
  /\ experimentSwitch' = ~experimentSwitch
  /\ UNCHANGED <<experiments, assignments, snapshots, decisions, ledgered, profile, outcomes, writing, edits>>

\* Registered fields are edited, or the tail of the ledger is cut off.
EditState ==
  /\ edits < MaxEdits /\ edits' = edits + 1
  /\ \/ \E e \in DOMAIN experiments :
          experiments' = [experiments EXCEPT ![e].fields = "edited"] /\ UNCHANGED ledgered
     \/ ledgered > 0 /\ ledgered' \in 0..(ledgered - 1) /\ UNCHANGED experiments
  /\ UNCHANGED <<assignments, snapshots, decisions, profile, outcomes, experimentSwitch, writing>>

ExperimentNext ==
  \/ CreateExperiment \/ RepairLedger \/ ExperimentSetKillSwitch \/ EditState
  \/ \E e \in DOMAIN experiments :
       \/ MoveExperiment(e)
       \/ \E d \in Drafts, key \in CallKeys(assignments) : AssignDraft(e, d, key)
       \/ \E key \in CallKeys(ToSet(decisions)), decision \in RolloutChoices : ApplyDecision(e, decision, key)
       \/ \E w \in Writers, key \in CallKeys(ToSet(snapshots)) : BeginCapture(w, e, key)
  \/ \E w \in Writers : CaptureSnapshot(w)
  \/ \E d \in Drafts : CaptureOutcome(d)

ExperimentSpec == ExperimentInit /\ [][ExperimentNext]_experimentVars
-----------------------------------------------------------------------------
(* Properties *)

\* An adoption that no rollback took back: every rollback after it took back a
\* later adoption.
Count(choice, from, to) == Cardinality({i \in from..to : decisions[i].decision = choice})
Standing(i) ==
  /\ decisions[i].decision = "adopt"
  /\ \A j \in i..Len(decisions) : Count("rollback", i, j) < Count("adopt", i, j)

\* The active profile is that of the latest adoption that stands, the default one
\* if there is none, however adoptions and rollbacks of several experiments
\* follow each other (recomputeActiveRolloutProfile).
ProfileIsLastAdopted ==
  LET standing == {i \in DOMAIN decisions : Standing(i)} IN
  profile.experiment = IF standing = {} THEN 0
                       ELSE decisions[CHOOSE i \in standing : \A j \in standing : j <= i].experiment

\* A draft is in one cohort of an experiment, and an idempotency key names one
\* decision, one snapshot and one assignment, though the writers overlap.
WrittenOnce ==
  /\ \A a, b \in assignments :
       a.key = b.key \/ <<a.experiment, a.draft>> = <<b.experiment, b.draft>> => a = b
  /\ \A i, j \in DOMAIN decisions : decisions[i].key = decisions[j].key => i = j
  /\ \A i, j \in DOMAIN snapshots : snapshots[i].key = snapshots[j].key => i = j

\* Nothing is recorded about an experiment that is not under way, whose
\* registered fields are not those it was started with, or under the kill-switch,
\* though the analysis was read before (assertPreRegistrationLock inside the
\* transaction).
RecordedUnderLock ==
  [][LET recorded == {decisions'[i].experiment : i \in DOMAIN decisions' \ DOMAIN decisions}
                     \cup {snapshots'[i].experiment : i \in DOMAIN snapshots' \ DOMAIN snapshots}
                     \cup {a.experiment : a \in assignments' \ assignments}
     IN \A e \in recorded : ~experimentSwitch /\ experiments[e].status \notin {"draft", "approved", "archived"}
                            /\ experiments[e].lock = experiments[e].fields]_experimentVars
=============================================================================
