----------------------------- MODULE DraftWorkflows -----------------------------
(***************************************************************************)
(* Drafts for human review (src/workflows/rlhf-generator, rlhf-review.js): *)
(* a pipeline run selects sources that have no draft yet, renders and      *)
(* lints them and stores the drafts in one transaction; an operator moves  *)
(* a draft through its review. A research task adds a draft of its answer  *)
(* to the same state (governance-bridge.js). The drafts are mirrored in an *)
(* artifact file, which every run rewrites from a state it has read.       *)
(*                                                                         *)
(* A source stands for the pair of a paper and its hash, or of a task and  *)
(* the hash of its answer: a task that runs again and is answered the same *)
(* gives the same source. The scores that rank the papers change with the  *)
(* outcomes and the active profile: Rankings holds the orders they can     *)
(* give. A draft's text is left out but for LintRejected, the papers whose *)
(* text the linter refuses.                                                *)
(***************************************************************************)
EXTENDS Naturals, Sequences, FiniteSets, SequencesExt

CONSTANTS
  Rankings,         \* the orders in which the sources can rank, as sequences
  LintRejected,     \* the sources whose draft does not pass the linter
  CandidateLimit,   \* how many sources a run selects
  Runners,          \* the runs that can overlap
  MaxRuns,          \* bound on the runs started
  MaxTransitions,   \* bound on the review decisions
  TaskSources,      \* the sources of the drafts of tasks
  MaxTaskDrafts     \* bound on those drafts

VARIABLES
  workflows,    \* state.rlhfWorkflows
  runs,         \* runner -> what its run has read
  draftLines,   \* the lines of rlhf-drafts.ndjson
  runsStarted,
  transitions   \* the review decisions taken

draftVars == <<workflows, runs, draftLines, runsStarted, transitions>>

\* The papers that rank, and with the answers of tasks all a draft can be made of.
DraftSources == UNION {ToSet(ranking) : ranking \in Rankings}
AnySource == DraftSources \union TaskSources
DraftStatuses == {"draft", "reviewed", "approved_for_manual_submission", "archived"}

ASSUME DraftAssumption == 
  /\ CandidateLimit \in Nat /\ Rankings \subseteq Seq(DraftSources)
  /\ TaskSources \intersect DraftSources = {}

DraftIdle == [stage |-> "idle", selected |-> <<>>, read |-> <<>>]
-----------------------------------------------------------------------------
(* A pipeline run *)

DraftedSources(state) == {state.drafts[i].source : i \in DOMAIN state.drafts}

\* verifyExistingDraftReplay: a run reads no state in which two drafts share a sequence or
\* a source. It is made where a run reads the state, not in its transaction.
DraftReplayVerifies(state) ==
  \A i, j \in DOMAIN state.drafts :
    \/ state.drafts[i].sequence = state.drafts[j].sequence
    \/ state.drafts[i].source = state.drafts[j].source
    => i = j

\* The best sources that have no draft in the state the run has read.
SelectCandidates(ranking, state) ==
  LET Selected[n \in 0..Len(ranking)] ==
        IF n = 0 THEN <<>>
        ELSE IF ranking[n] \in DraftedSources(state) \/ Len(Selected[n - 1]) >= CandidateLimit THEN Selected[n - 1]
        ELSE Append(Selected[n - 1], ranking[n])
  IN  Selected[Len(ranking)]

\* A run whose selection is empty rewrites the artifact from what it has read.
Select(r) ==
  /\ runs[r].stage = "idle"
  /\ runsStarted < MaxRuns
  /\ DraftReplayVerifies(workflows)
  /\ runsStarted' = runsStarted + 1
  /\ \E ranking \in Rankings :
       LET selected == SelectCandidates(ranking, workflows) IN
       runs' = [runs EXCEPT ![r] = [stage |-> IF selected = <<>> THEN "write" ELSE "commit",
                                    selected |-> selected,
                                    read |-> workflows.drafts]]
  /\ UNCHANGED <<workflows, draftLines, transitions>>

\* A run that decides on the state it selected from.
StoreCandidate_Once(state, source) ==
  LET queued == state.nextQueueSequence + 1
      sequence == state.nextDraftSequence + 1
  IN  [state EXCEPT !.nextQueueSequence = queued + 1,
                    !.nextDraftSequence = sequence,
                    !.drafts = Append(@, [sequence |-> sequence, source |-> source, status |-> "draft"]),
                    !.candidateQueue = Append(@, [queueSequence |-> queued, source |-> source, draft |-> sequence]),
                    !.reviewQueue = Append(@, [queueSequence |-> queued + 1, draft |-> sequence,
                                               status |-> "draft"])]

\* A rejected draft keeps its number in the queue though the next draft gets it too.
StoreCandidate_NotReturned(state, source) ==
  LET queued == state.nextQueueSequence + 1
      sequence == state.nextDraftSequence + 1
  IN  IF source \in DraftedSources(state) THEN state
      ELSE IF source \in LintRejected
        THEN [state EXCEPT !.nextQueueSequence = queued,
                           !.candidateQueue = Append(@, [queueSequence |-> queued, source |-> source,
                                                         draft |-> sequence])]
        ELSE StoreCandidate_Once(state, source)

\* One selected source inside the transaction: a source drafted in the meantime is
\* skipped, a rejected one leaves a queue record and gives its number back. Queue
\* records of both queues share one counter. A pending_review item is written
\* "draft", the status of its draft.
StoreCandidate(state, source) ==
  LET queued == state.nextQueueSequence + 1
      sequence == state.nextDraftSequence + 1
      Queued(draft) == Append(state.candidateQueue,
                              [queueSequence |-> queued, source |-> source, draft |-> draft])
  IN  IF source \in DraftedSources(state) THEN state
      ELSE IF source \in LintRejected
        THEN [state EXCEPT !.nextQueueSequence = queued, !.candidateQueue = Queued(0)]
        ELSE [state EXCEPT
                !.nextQueueSequence = queued + 1,
                !.nextDraftSequence = sequence,
                !.drafts = Append(@, [sequence |-> sequence, source |-> source, status |-> "draft"]),
                !.candidateQueue = Queued(sequence),
                !.reviewQueue = Append(@, [queueSequence |-> queued + 1, draft |-> sequence,
                                           status |-> "draft"])]

StoreCandidates(state, selected) ==
  LET Stored[n \in 0..Len(selected)] == IF n = 0 THEN state ELSE StoreCandidate(Stored[n - 1], selected[n])
  IN  Stored[Len(selected)]

\* Nothing is stored when every source is skipped: the run goes on all the same.
Commit(r) ==
  /\ runs[r].stage = "commit"
  /\ workflows' = StoreCandidates(workflows, runs[r].selected)
  /\ runs' = [runs EXCEPT ![r].stage = "refresh"]
  /\ UNCHANGED <<draftLines, runsStarted, transitions>>

\* The state a run reads at its end is verified too: the run ends, and what it stored stays.
Refresh(r) ==
  /\ runs[r].stage = "refresh"
  /\ \/ /\ DraftReplayVerifies(workflows)
        /\ runs' = [runs EXCEPT ![r].stage = "write", ![r].read = workflows.drafts]
     \/ ~DraftReplayVerifies(workflows) /\ runs' = [runs EXCEPT ![r] = DraftIdle]
  /\ UNCHANGED <<workflows, draftLines, runsStarted, transitions>>

\* A run that adds its own drafts to the lines it finds.
ArtifactLines_Added(r) ==
  LET listed == {draftLines[i].source : i \in DOMAIN draftLines}
  IN  draftLines \o SelectSeq(runs[r].read, LAMBDA d : d.source \notin listed /\ d.source \in ToSet(runs[r].selected))

\* The file is replaced by the drafts of the state the run has read.
ArtifactLines(r) == runs[r].read

WriteArtifact(r) ==
  /\ runs[r].stage = "write"
  /\ draftLines' = ArtifactLines(r)
  /\ runs' = [runs EXCEPT ![r] = DraftIdle]
  /\ UNCHANGED <<workflows, runsStarted, transitions>>

\* The process of a run ends: what it has stored stays, the artifact lags.
EndRun(r) ==
  /\ runs[r].stage # "idle"
  /\ runs' = [runs EXCEPT ![r] = DraftIdle]
  /\ UNCHANGED <<workflows, draftLines, runsStarted, transitions>>

\* reconcileDraftArtifacts: the artifact is written again from the state.
ReconcileArtifact(r) ==
  /\ runs[r].stage = "idle"
  /\ draftLines # workflows.drafts /\ DraftReplayVerifies(workflows)
  /\ runs' = [runs EXCEPT ![r].stage = "write", ![r].read = workflows.drafts]
  /\ UNCHANGED <<workflows, draftLines, runsStarted, transitions>>
-----------------------------------------------------------------------------
(* A task (generateRLHFEntry) *)

\* No record of a candidate, and no look at the sources that have drafts.
StoreTaskDraft(state, source) ==
  LET queued == state.nextQueueSequence + 1
      sequence == state.nextDraftSequence + 1
  IN  [state EXCEPT
         !.nextQueueSequence = queued,
         !.nextDraftSequence = sequence,
         !.drafts = Append(@, [sequence |-> sequence, source |-> source, status |-> "draft"]),
         !.reviewQueue = Append(@, [queueSequence |-> queued, draft |-> sequence, status |-> "draft"])]

GenerateTaskDraft(source) ==
  /\ Cardinality({i \in DOMAIN workflows.drafts : workflows.drafts[i].source \in TaskSources}) < MaxTaskDrafts
  /\ workflows' = StoreTaskDraft(workflows, source)
  /\ UNCHANGED <<runs, draftLines, runsStarted, transitions>>
-----------------------------------------------------------------------------
(* Review *)

AllowedTransitions == {<<"draft", "reviewed">>, <<"reviewed", "approved_for_manual_submission">>,
                       <<"approved_for_manual_submission", "archived">>}

\* A transition that does not look at the status the draft has.
TransitionStatus_AnyOrder(sequence, to) ==
  /\ transitions < MaxTransitions
  /\ \E i \in DOMAIN workflows.drafts : workflows.drafts[i].sequence = sequence
  /\ to # "draft"
  /\ workflows' = [workflows EXCEPT
       !.drafts = [i \in DOMAIN @ |-> IF @[i].sequence = sequence THEN [@[i] EXCEPT !.status = to] ELSE @[i]]]
  /\ transitions' = transitions + 1
  /\ UNCHANGED <<runs, draftLines, runsStarted>>

\* The draft and its item in the review queue move together, one status at a time.
TransitionStatus(sequence, to) ==
  /\ transitions < MaxTransitions
  /\ \E i \in DOMAIN workflows.drafts :
       workflows.drafts[i].sequence = sequence /\ <<workflows.drafts[i].status, to>> \in AllowedTransitions
  /\ workflows' = [workflows EXCEPT
       !.drafts = [i \in DOMAIN @ |-> IF @[i].sequence = sequence THEN [@[i] EXCEPT !.status = to] ELSE @[i]],
       !.reviewQueue = [i \in DOMAIN @ |-> IF @[i].draft = sequence THEN [@[i] EXCEPT !.status = to] ELSE @[i]]]
  /\ transitions' = transitions + 1
  /\ UNCHANGED <<runs, draftLines, runsStarted>>
-----------------------------------------------------------------------------
DraftInit ==
  /\ workflows = [drafts |-> <<>>, candidateQueue |-> <<>>, reviewQueue |-> <<>>,
                  nextQueueSequence |-> 0, nextDraftSequence |-> 0]
  /\ runs = [r \in Runners |-> DraftIdle]
  /\ draftLines = <<>>
  /\ runsStarted = 0
  /\ transitions = 0

DraftNext ==
  \/ \E r \in Runners :
       Select(r) \/ Commit(r) \/ Refresh(r) \/ WriteArtifact(r) \/ EndRun(r) \/ ReconcileArtifact(r)
  \/ \E source \in TaskSources : GenerateTaskDraft(source)
  \/ \E sequence \in 1..Len(workflows.drafts), to \in DraftStatuses : TransitionStatus(sequence, to)

DraftSpec == DraftInit /\ [][DraftNext]_draftVars
-----------------------------------------------------------------------------
(* Properties *)

DraftTypeOK ==
  /\ workflows.nextQueueSequence \in Nat /\ workflows.nextDraftSequence \in Nat
  /\ \A i \in DOMAIN workflows.drafts : workflows.drafts[i].source \in AnySource
                                        /\ workflows.drafts[i].status \in DraftStatuses
  /\ runs \in [Runners -> [stage : {"idle", "commit", "refresh", "write"}, selected : Seq(DraftSources),
                           read : Seq([sequence : Nat, source : AnySource, status : DraftStatuses])]]

\* Runs that overlap do not draft a paper twice, though each selects from a state
\* read before its transaction (pipeline-runner.js, run).
OneDraftPerPaper ==
  \A i, j \in DOMAIN workflows.drafts :
    workflows.drafts[i].source \in DraftSources /\ workflows.drafts[i].source = workflows.drafts[j].source => i = j

\* The queues and the drafts tell one story, whoever added the drafts: a number names one
\* draft, the draft of a paper has one candidate record for its source and that of a task
\* none, every draft has one review item with its status, and no two queue records share
\* a sequence (pipeline-runner.js, rlhf-review.js, governance-bridge.js).
QueuesAgree ==
  LET candidates == workflows.candidateQueue
      reviews == workflows.reviewQueue
      Named(draft) == {i \in DOMAIN candidates : candidates[i].draft = draft.sequence}
  IN  /\ \A i, j \in DOMAIN workflows.drafts :
           workflows.drafts[i].sequence = workflows.drafts[j].sequence => i = j
      /\ \A i \in DOMAIN workflows.drafts :
           LET draft == workflows.drafts[i] IN
           /\ draft.source \in DraftSources =>
                \E k \in DOMAIN candidates : Named(draft) = {k} /\ candidates[k].source = draft.source
           /\ draft.source \in TaskSources => Named(draft) = {}
           /\ \E k \in DOMAIN reviews : reviews[k].draft = draft.sequence /\ reviews[k].status = draft.status
      /\ Len(reviews) = Len(workflows.drafts)
      /\ \A i, j \in DOMAIN candidates : candidates[i].queueSequence = candidates[j].queueSequence => i = j
      /\ \A i, j \in DOMAIN reviews : reviews[i].queueSequence = reviews[j].queueSequence => i = j
      /\ \A i \in DOMAIN candidates, j \in DOMAIN reviews : candidates[i].queueSequence # reviews[j].queueSequence

\* The artifact shows a state there has been: the first drafts, none skipped or
\* twice, whatever runs overlapped or ended between (pipeline-runner.js,
\* reconcileDraftArtifactStoreFromState).
ArtifactShowsAState ==
  /\ Len(draftLines) <= Len(workflows.drafts)
  /\ \A i \in DOMAIN draftLines : draftLines[i].source = workflows.drafts[i].source
                                  /\ draftLines[i].sequence = workflows.drafts[i].sequence
=============================================================================
