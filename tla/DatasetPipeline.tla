--------------------------- MODULE DatasetPipeline ---------------------------
(***************************************************************************)
(* src/openclaw-bridge/dataset: the outputs of tasks are cut into rows     *)
(* (dataset-builder.js), the rows validated (dataset-validator.js,         *)
(* schema-engine.js), deduplicated (dataset-deduper.js), traced            *)
(* (provenance-tracker.js), scored (dataset-scorer.js) and cleared         *)
(* (license-review.js), and the build is stored and indexed                *)
(* (dataset-output-manager.js).  A process builds without waiting, but     *)
(* nothing keeps two processes apart, every file is emptied and then       *)
(* written in place, and a process may end, or a write fail, in the middle *)
(* of one.  The builds here are of one dataset_id.                         *)
(***************************************************************************)
EXTENDS Naturals, FiniteSets, FiniteSetsExt

CONSTANTS
  DatasetTasks,       \* the tasks whose outputs are the sources
  Blocks,             \* the paragraphs of an output
  ValidBlocks,        \* the blocks long enough for every field they fill
  DatasetTypes,       \* the types, of which "classification" labels a row with its task
  Thresholds,         \* the quality thresholds a caller may ask for
  MinRowCount,        \* min_row_count: valid rows a build needs
  CallerIds,          \* the build ids a caller may ask for
  Builders,           \* the processes that build
  MaxBuilds,          \* bound: builds
  MaxSourceChanges    \* bound: changes of a source

ASSUME DatasetAssumption ==
  MaxBuilds \in Nat /\ MaxSourceChanges \in Nat /\ {"none", "named"} \cap DatasetTypes = {}

VARIABLES
  sources,          \* task -> [blocks, license]: its output, and the state its metadata lead to
  builtFiles,       \* build id -> [rows, whole, metadata]: dataset.jsonl and metadata.json of the build
  index,            \* [torn, builds: id -> record, latestReady]
  builders,         \* process -> [pc, id, build, loaded: the index it has read]
  datasetBuilds,    \* how many builds were begun, which is also the time
  disturbed,        \* the ids whose writing was overlapped or cut off
  sourceChanges

datasetVars == <<sources, builtFiles, index, builders, datasetBuilds, disturbed, sourceChanges>>

Licenses == {"allowed", "review_required", "blocked"}
Rows == [label : DatasetTasks \cup {"none"}, block : Blocks]
Sources == [blocks : SUBSET Blocks, license : Licenses]
BuildType == [rows : SUBSET Rows, passed : BOOLEAN, quality : BOOLEAN, license : Licenses,
              ready : BOOLEAN, cleared : BOOLEAN, completedAt : 0..MaxBuilds]
NoBuild == [rows |-> {}, passed |-> FALSE, quality |-> FALSE, license |-> "blocked", ready |-> FALSE,
            cleared |-> FALSE, completedAt |-> 0]
FilesType == [rows : SUBSET Rows, whole : BOOLEAN, metadata : {"none", "ready", "refused", "torn"}]
NoFiles == [rows |-> {}, whole |-> FALSE, metadata |-> "none"]
NoId == [type |-> "none"]
EmptyIndex == [torn |-> FALSE, builds |-> [id \in {} |-> NoBuild], latestReady |-> NoId]
IdleBuilder == [pc |-> "idle", id |-> NoId, build |-> NoBuild, loaded |-> EmptyIndex]

DatasetTypeOK ==
  /\ sources \in [DatasetTasks -> Sources] /\ datasetBuilds \in 0..MaxBuilds /\ sourceChanges \in 0..MaxSourceChanges
  /\ \A id \in DOMAIN builtFiles : builtFiles[id] \in FilesType
  /\ \A id \in DOMAIN index.builds : index.builds[id] \in BuildType
  /\ \A p \in Builders : builders[p].build \in BuildType
                         /\ builders[p].pc \in {"idle", "files", "rows", "metadata", "load", "persist"}

DatasetInit ==
  /\ sources = [t \in DatasetTasks |-> [blocks |-> Blocks, license |-> "allowed"]]
  /\ builtFiles = [id \in {} |-> NoFiles] /\ index = EmptyIndex
  /\ builders = [p \in Builders |-> IdleBuilder] /\ datasetBuilds = 0 /\ disturbed = {} /\ sourceChanges = 0
-----------------------------------------------------------------------------
(* A build, computed from the sources as they are *)

Row(type, t, b) == [label |-> IF type = "classification" THEN t ELSE "none", block |-> b]
RowsOf(type, t) == {Row(type, t, b) : b \in sources[t].blocks}

\* Equal rows of several tasks become one row, which comes from all of them.
Candidates(type, tasks) == UNION {RowsOf(type, t) : t \in tasks}
DedupeRows(type, tasks) == {r \in Candidates(type, tasks) : r.block \in ValidBlocks}
SourceTasks_First(type, tasks, row) == {CHOOSE t \in tasks : row \in RowsOf(type, t)}
SourceTasks(type, tasks, row) == {t \in tasks : row \in RowsOf(type, t)}

\* The valid rows are counted before they are deduplicated.
ValidateBuild(type, tasks) ==
  Cardinality({row \in tasks \X ValidBlocks : row[2] \in sources[row[1]].blocks}) >= MinRowCount

Strictest(states) ==
  IF "blocked" \in states THEN "blocked"
  ELSE IF "review_required" \in states THEN "review_required" ELSE "allowed"
ClassifyRow(type, tasks, row) == Strictest({sources[t].license : t \in SourceTasks(type, tasks, row)})
ClassifyBuild(type, tasks) ==
  Strictest({ClassifyRow(type, tasks, row) : row \in DedupeRows(type, tasks)})

\* A valid row is complete and has a source, so every metric of it is 100; no row
\* makes a score of 0.
ScoreBuild(type, tasks) == IF DedupeRows(type, tasks) = {} THEN 0 ELSE 100

BuildDataset(type, tasks, threshold) ==
  LET passed == ValidateBuild(type, tasks)
      quality == ScoreBuild(type, tasks) >= threshold
      license == ClassifyBuild(type, tasks)
  IN [rows |-> DedupeRows(type, tasks), passed |-> passed, quality |-> quality, license |-> license,
      ready |-> passed /\ quality /\ license = "allowed",
      cleared |-> \A t \in tasks : RowsOf(type, t) \cap DedupeRows(type, tasks) # {}
                                   => sources[t].license = "allowed",
      completedAt |-> datasetBuilds + 1]

\* The same sources and settings give the same id; the metadata of a source,
\* which its license is read from, are no part of it.
ComputeBuildId_ByTasks(type, tasks, threshold) == [type |-> type, tasks |-> tasks, threshold |-> threshold]
ComputeBuildId(type, tasks, threshold) ==
  [type |-> type, tasks |-> tasks, threshold |-> threshold, contents |-> [t \in tasks |-> sources[t].blocks]]

\* An id that the caller chose says nothing of what is built under it.
NamedId(name) == [type |-> "named", name |-> name]
Computed(id) == id.type # "named"

Working(p) == builders[p].pc # "idle"
InStage(p, pc) == builders[p].pc = pc

\* A build that begins alone writes everything of its id again.
Begin(p) ==
  /\ ~Working(p) /\ datasetBuilds < MaxBuilds /\ datasetBuilds' = datasetBuilds + 1
  /\ \E type \in DatasetTypes, tasks \in (SUBSET DatasetTasks) \ {{}}, threshold \in Thresholds :
     \E id \in {ComputeBuildId(type, tasks, threshold)} \cup {NamedId(name) : name \in CallerIds} :
       /\ builders' = [builders EXCEPT ![p] = [pc |-> "files", id |-> id,
                         build |-> BuildDataset(type, tasks, threshold), loaded |-> EmptyIndex]]
       /\ disturbed' = IF \A q \in Builders : ~Working(q) THEN disturbed \ {id}
                       ELSE disturbed \cup {builders[q].id : q \in {r \in Builders : Working(r)}} \cup {id}
  /\ UNCHANGED <<sources, builtFiles, index, sourceChanges>>
-----------------------------------------------------------------------------
(* Storing it *)

Advance(p, pc) == builders' = [builders EXCEPT ![p].pc = pc]
Files(id) == IF id \in DOMAIN builtFiles THEN builtFiles[id] ELSE NoFiles
Store(id, files) == builtFiles' = [i \in DOMAIN builtFiles \cup {id} |-> IF i = id THEN files ELSE builtFiles[i]]

WithRows(id, rows, whole) == [rows |-> rows, whole |-> whole, metadata |-> Files(id).metadata]

\* dataset.jsonl is emptied when it is opened and then written.
OpenRows(p) ==
  /\ InStage(p, "files") /\ Advance(p, "rows")
  /\ Store(builders[p].id, WithRows(builders[p].id, {}, FALSE))
  /\ UNCHANGED <<sources, index, datasetBuilds, disturbed, sourceChanges>>

\* What another process has written since it was opened is written over, and what
\* was longer remains behind it.
WriteRows(p) ==
  /\ InStage(p, "rows") /\ Advance(p, "metadata")
  /\ LET id == builders[p].id
         rows == builders[p].build.rows
         mixtures == IF Files(id).rows \subseteq rows THEN {} ELSE SUBSET (rows \cup Files(id).rows)
     IN \/ Store(id, WithRows(id, rows, TRUE))
        \/ \E mixed \in mixtures : Store(id, WithRows(id, mixed, FALSE))
  /\ UNCHANGED <<sources, index, datasetBuilds, disturbed, sourceChanges>>

\* Two processes that write one JSON file at once may leave a text that cannot be parsed.
Verdict(build) == IF build.ready THEN "ready" ELSE "refused"
WriteMetadata(p) ==
  /\ InStage(p, "metadata") /\ Advance(p, "load")
  /\ LET id == builders[p].id
         shared == \E q \in Builders \ {p} : InStage(q, "metadata") /\ builders[q].id = id
     IN \E text \in {Verdict(builders[p].build)} \cup (IF shared THEN {"torn"} ELSE {}) :
          Store(id, [Files(id) EXCEPT !.metadata = text])
  /\ UNCHANGED <<sources, index, datasetBuilds, disturbed, sourceChanges>>

\* An index that cannot be parsed, or is being written, ends the build.
IndexShared(p) == \E q \in Builders \ {p} : InStage(q, "persist")
LoadIndex(p) ==
  /\ InStage(p, "load")
  /\ \/ /\ index.torn \/ IndexShared(p)
        /\ builders' = [builders EXCEPT ![p] = IdleBuilder]
     \/ ~index.torn /\ builders' = [builders EXCEPT ![p].pc = "persist", ![p].loaded = index]
  /\ UNCHANGED <<sources, builtFiles, index, datasetBuilds, disturbed, sourceChanges>>

\* The record of the build takes the place of an earlier one of the same id.
WithRecord_First(records, id, build) ==
  [i \in DOMAIN records \cup {id} |-> IF i \in DOMAIN records THEN records[i] ELSE build]
WithRecord(records, id, build) ==
  [i \in DOMAIN records \cup {id} |-> IF i = id THEN build ELSE records[i]]

LatestReady(records) ==
  LET ready == {i \in DOMAIN records : records[i].ready} IN
  IF ready = {} THEN NoId
  ELSE CHOOSE i \in ready : \A j \in ready : records[j].completedAt <= records[i].completedAt

PersistIndex(p) ==
  /\ InStage(p, "persist")
  /\ LET records == WithRecord(builders[p].loaded.builds, builders[p].id, builders[p].build) IN
     \E torn \in {FALSE} \cup (IF IndexShared(p) THEN {TRUE} ELSE {}) :
       index' = [torn |-> torn, builds |-> records, latestReady |-> LatestReady(records)]
  /\ builders' = [builders EXCEPT ![p] = IdleBuilder]
  /\ UNCHANGED <<sources, builtFiles, datasetBuilds, disturbed, sourceChanges>>

\* The process ends, or a write of it fails: between two files, or in the middle of one.
Cut(p) ==
  LET id == builders[p].id IN
  \/ UNCHANGED <<builtFiles, index>>
  \/ /\ InStage(p, "rows") /\ UNCHANGED index
     /\ \E left \in SUBSET (builders[p].build.rows \cup Files(id).rows) :
          Store(id, WithRows(id, left, FALSE))
  \/ InStage(p, "metadata") /\ Store(id, [Files(id) EXCEPT !.metadata = "torn"]) /\ UNCHANGED index
  \/ InStage(p, "persist") /\ index' = [index EXCEPT !.torn = TRUE] /\ UNCHANGED builtFiles
Crash(p) ==
  /\ Working(p) /\ Cut(p) /\ builders' = [builders EXCEPT ![p] = IdleBuilder]
  /\ disturbed' = disturbed \cup {builders[p].id}
  /\ UNCHANGED <<sources, datasetBuilds, sourceChanges>>

\* A task is run again, or its metadata or the license rules are edited.
ChangeSource ==
  /\ sourceChanges < MaxSourceChanges /\ sourceChanges' = sourceChanges + 1
  /\ \E t \in DatasetTasks, source \in Sources : sources' = [sources EXCEPT ![t] = source]
  /\ UNCHANGED <<builtFiles, index, builders, datasetBuilds, disturbed>>

DatasetNext ==
  \/ \E p \in Builders : Begin(p) \/ OpenRows(p) \/ WriteRows(p) \/ WriteMetadata(p) \/ LoadIndex(p) \/ PersistIndex(p)
                         \/ Crash(p)
  \/ ChangeSource

DatasetSpec == DatasetInit /\ [][DatasetNext]_datasetVars
-----------------------------------------------------------------------------
(* Properties *)

\* A build ready for sale has no row that any task contributed to without a
\* license that allows it, also when the row is a duplicate that was removed
\* (dedupeRows, trackBuild, classifyBuild).
ReadyIsCleared == \A id \in DOMAIN index.builds : index.builds[id].ready => index.builds[id].cleared

\* Under a build id that was computed, a file of rows written to its end holds the rows that
\* were indexed, though the sources change, builds overlap and writes are cut off: they are
\* those of the contents that the id was computed from (computeBuildId, writeDatasetJsonl).
SameIdSameRows ==
  \A id \in DOMAIN builtFiles \cap DOMAIN index.builds :
    Computed(id) /\ builtFiles[id].whole => builtFiles[id].rows = index.builds[id].rows

\* What an index that can be read offers for sale is on the disk: the rows of the build that
\* was indexed, whole, and metadata that call it ready, also under an id that the caller
\* chose, unless the last build of that id is under way, was cut off or overlapped another
\* (saveBuild, resolveLatestCommercializationReadyBuild).
OfferedIsReady ==
  LET id == index.latestReady IN
  \/ index.torn \/ id = NoId \/ id \in disturbed \/ \E p \in Builders : Working(p) /\ builders[p].id = id
  \/ builtFiles[id] = [rows |-> index.builds[id].rows, whole |-> TRUE, metadata |-> "ready"]
=============================================================================
