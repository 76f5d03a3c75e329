----------------------------- MODULE ServiceProofs -----------------------------
(***************************************************************************)
(* Proofs about the services and the pipelines, one section for each       *)
(* component.                                                              *)
(***************************************************************************)
EXTENDS DatasetPipeline, BridgeJobs, Gateway, DraftWorkflows, ManualPackage, DraftOutcomes, TaskExecution,
        GovernanceQuota,
        SequenceTheorems, FiniteSetTheorems, WellFoundedInduction, TLAPS

\* Induction on the natural numbers, as a set of them that has a least one.
LEMMA LeastNumber ==
  ASSUME NEW T, T \subseteq Nat, T # {}
  PROVE  \E x \in T : \A y \in T : x <= y
<1>1. PICK x \in T : \A y \in T : <<y, x>> \notin OpToRel(<, Nat)
  <2> HIDE DEF OpToRel
  <2> QED
    BY WFMin, NatLessThanWellFounded
<1>2. \A y \in T : x \in Nat /\ y \in Nat /\ ~(y < x)
  BY <1>1 DEF OpToRel
<1>3. \A y \in T : x <= y
  BY <1>2
<1> QED
  BY <1>3

-----------------------------------------------------------------------------
(* Datasets: DatasetPipeline.                                                *)

\* The rows that an identifier stands for.
RowsById(id) == {r \in UNION {{Row(id.type, t, b) : b \in id.contents[t]} : t \in id.tasks} : r.block \in ValidBlocks}

BuildOf(id, build) ==
  /\ build \in BuildType /\ (Computed(id) => build.rows = RowsById(id)) /\ (build.ready => build.cleared)

LEMMA BuildsAreCleared ==
  ASSUME DatasetAssumption, sources \in [DatasetTasks -> Sources], datasetBuilds \in Nat, datasetBuilds < MaxBuilds,
         NEW type, NEW tasks \in SUBSET DatasetTasks, NEW threshold
  PROVE  BuildOf(ComputeBuildId(type, tasks, threshold), BuildDataset(type, tasks, threshold))
<1> DEFINE id == ComputeBuildId(type, tasks, threshold)
           build == BuildDataset(type, tasks, threshold)
           rows == DedupeRows(type, tasks)
           valid == ValidateBuild(type, tasks)
           quality == ScoreBuild(type, tasks) >= threshold
           license == ClassifyBuild(type, tasks)
           cleared == \A t \in tasks : RowsOf(type, t) \cap rows # {} => sources[t].license = "allowed"
<1>1. \A t \in tasks : sources[t].license \in Licenses /\ sources[t].blocks \subseteq Blocks /\ t \in DatasetTasks
  BY DEF Sources
<1>2. rows \subseteq Rows
  <2> SUFFICES ASSUME NEW r \in rows PROVE r \in Rows
    OBVIOUS
  <2>1. PICK t \in tasks : \E b \in sources[t].blocks : r = Row(type, t, b)
    BY DEF DedupeRows, Candidates, RowsOf
  <2>2. PICK b \in sources[t].blocks : r = Row(type, t, b)
    BY <2>1
  <2> QED
    BY <1>1, <2>2 DEF Row, Rows
<1>3. rows = RowsById(id)
  <2>1. id.type = type /\ id.tasks = tasks /\ \A t \in tasks : id.contents[t] = sources[t].blocks
    BY DEF ComputeBuildId
  <2> HIDE DEF id
  <2>2. \A r : (\E t \in tasks : \E b \in sources[t].blocks : r = Row(type, t, b))
                 <=> \E t \in id.tasks : \E b \in id.contents[t] : r = Row(id.type, t, b)
    BY <2>1
  <2>3. \A r : r \in rows <=> (\E t \in tasks : \E b \in sources[t].blocks : r = Row(type, t, b)) /\ r.block \in ValidBlocks
    BY DEF DedupeRows, Candidates, RowsOf
  <2>4. \A r : r \in RowsById(id) <=> (\E t \in id.tasks : \E b \in id.contents[t] : r = Row(id.type, t, b))
                                      /\ r.block \in ValidBlocks
    BY DEF RowsById
  <2> QED
    BY <2>2, <2>3, <2>4
<1>4. license = "allowed" => cleared
  <2> SUFFICES ASSUME license = "allowed", NEW t \in tasks, NEW r \in RowsOf(type, t), r \in rows
               PROVE  sources[t].license = "allowed"
    OBVIOUS
  <2> DEFINE states == {sources[u].license : u \in SourceTasks(type, tasks, r)}
  <2>1. sources[t].license \in states
    BY DEF SourceTasks
  <2>2. ClassifyRow(type, tasks, r) \in {ClassifyRow(type, tasks, row) : row \in rows}
    OBVIOUS
  <2>3. ClassifyRow(type, tasks, r) \notin {"blocked", "review_required"}
    <3> DEFINE all == {ClassifyRow(type, tasks, row) : row \in rows}
    <3>1. Strictest(all) = "allowed"
      BY DEF ClassifyBuild
    <3>2. ClassifyRow(type, tasks, r) \in all
      BY <2>2
    <3> HIDE DEF all
    <3> QED
      BY <3>1, <3>2 DEF Strictest
  <2>4. ClassifyRow(type, tasks, r) = Strictest(states)
    BY DEF ClassifyRow
  <2>5. "blocked" \notin states /\ "review_required" \notin states
    <3> HIDE DEF states
    <3> QED
      BY <2>3, <2>4 DEF Strictest
  <2>6. sources[t].license \in Licenses
    BY <1>1
  <2> HIDE DEF states
  <2> QED
    BY <2>1, <2>5, <2>6 DEF Licenses
<1>5. license \in Licenses
  BY DEF ClassifyBuild, Strictest, Licenses
<1>6. valid \in BOOLEAN /\ quality \in BOOLEAN
  BY DEF ValidateBuild
<1>7. cleared \in BOOLEAN
  BY Zenon
<1>8. datasetBuilds + 1 \in 0..MaxBuilds
  BY DEF DatasetAssumption
<1>9. build = [rows |-> rows, passed |-> valid, quality |-> quality, license |-> license,
               ready |-> valid /\ quality /\ license = "allowed", cleared |-> cleared,
               completedAt |-> datasetBuilds + 1]
  BY DEF BuildDataset
<1> HIDE DEF id, build, rows, valid, quality, license, cleared
<1>10. (valid /\ quality /\ license = "allowed") \in BOOLEAN
  BY Zenon
<1>11. build \in BuildType
  <2> DEFINE ready == valid /\ quality /\ license = "allowed"
  <2>1. ready \in BOOLEAN /\ build = [rows |-> rows, passed |-> valid, quality |-> quality, license |-> license,
               ready |-> ready, cleared |-> cleared, completedAt |-> datasetBuilds + 1]
    BY <1>9, <1>10
  <2> HIDE DEF ready
  <2> QED
    BY <1>2, <1>5, <1>6, <1>7, <1>8, <2>1 DEF BuildType
<1>12. build.ready => build.cleared
  <2>1. build.ready = (valid /\ quality /\ license = "allowed") /\ build.cleared = cleared
    BY <1>9
  <2> QED
    BY <1>4, <2>1, Zenon
<1>13. build.rows = RowsById(id)
  BY <1>3, <1>9
<1>14. BuildOf(id, build)
  BY <1>11, <1>12, <1>13 DEF BuildOf
<1> QED
  BY <1>14 DEF id, build

\* Also under an identifier that the caller chose.
LEMMA BuildsUnderAnyId ==
  ASSUME DatasetAssumption, sources \in [DatasetTasks -> Sources], datasetBuilds \in Nat, datasetBuilds < MaxBuilds,
         NEW type, NEW tasks \in SUBSET DatasetTasks, NEW threshold,
         NEW id \in {ComputeBuildId(type, tasks, threshold)} \cup {NamedId(name) : name \in CallerIds}
  PROVE  BuildOf(id, BuildDataset(type, tasks, threshold))
<1> DEFINE build == BuildDataset(type, tasks, threshold)
           computed == ComputeBuildId(type, tasks, threshold)
<1>1. BuildOf(computed, build)
  BY BuildsAreCleared
<1>2. id = computed \/ ~Computed(id)
  BY DEF NamedId, Computed
<1> HIDE DEF build, computed
<1>3. BuildOf(id, build)
  BY <1>1, <1>2 DEF BuildOf
<1> QED
  BY <1>3 DEF build

-----------------------------------------------------------------------------
(* Identifiers whose build is under way or was disturbed, and the others.   *)

Exempt == disturbed \cup {builders[p].id : p \in {q \in Builders : Working(q)}}
BuilderStages == {"idle", "files", "rows", "metadata", "load", "persist"}

Agrees(file, build) == file = [rows |-> build.rows, whole |-> TRUE, metadata |-> Verdict(build)]
RecordsOK(listed) == \A id \in DOMAIN listed : BuildOf(id, listed[id])
KeptIn(listed, exempt, files) ==
  \A id \in DOMAIN listed : id \in exempt \/ (id \in DOMAIN files /\ Agrees(files[id], listed[id]))

\* How far a builder has come with the file of an identifier that nobody disturbed.
Progress(pc, build, file) ==
  /\ pc = "rows" => file.rows = {}
  /\ pc = "metadata" => file.whole /\ file.rows = build.rows
  /\ pc \in {"load", "persist"} => Agrees(file, build)

\* What a builder has, with the files as they are.
BuilderOK(b, files, exempt, disturbedIds) ==
  /\ b = [pc |-> b.pc, id |-> b.id, build |-> b.build, loaded |-> b.loaded]
  /\ b.pc \in BuilderStages /\ b.build \in BuildType
  /\ b.pc # "idle" => BuildOf(b.id, b.build)
  /\ b.pc \in {"rows", "metadata", "load", "persist"} =>
       b.id \in DOMAIN files /\ (b.id \in disturbedIds \/ Progress(b.pc, b.build, files[b.id]))
  /\ b.pc = "persist" => RecordsOK(b.loaded.builds) /\ KeptIn(b.loaded.builds, exempt, files)

IndexOK ==
  /\ index = [torn |-> index.torn, builds |-> index.builds, latestReady |-> index.latestReady]
  /\ RecordsOK(index.builds)
  /\ index.torn \/ KeptIn(index.builds, Exempt, builtFiles)
  /\ index.latestReady = NoId
     \/ (index.latestReady \in DOMAIN index.builds /\ index.builds[index.latestReady].ready)

RowsFit(file, id) ==
  Computed(id) => file.rows \subseteq RowsById(id) /\ (file.whole => file.rows = RowsById(id))
FilesOK == \A id \in DOMAIN builtFiles : builtFiles[id] \in FilesType /\ RowsFit(builtFiles[id], id)
Apart == \A p, q \in Builders : p # q /\ Working(p) /\ Working(q) => builders[p].id \in disturbed
SourcesOK == sources \in [DatasetTasks -> Sources] /\ datasetBuilds \in 0..MaxBuilds /\ sourceChanges \in 0..MaxSourceChanges

DatasetInv ==
  /\ SourcesOK /\ FilesOK /\ Apart /\ IndexOK
  /\ builders = [p \in Builders |-> builders[p]]
  /\ \A p \in Builders : BuilderOK(builders[p], builtFiles, Exempt, disturbed)

LEMMA KeptStays ==
  ASSUME NEW listed, NEW before, NEW after, NEW files, NEW later, KeptIn(listed, before, files),
         before \subseteq after, \A id \in DOMAIN files : id \notin after => id \in DOMAIN later /\ later[id] = files[id]
  PROVE  KeptIn(listed, after, later)
BY DEF KeptIn

LEMMA BuilderStays ==
  ASSUME NEW b, NEW before, NEW after, NEW files, NEW later, NEW d, NEW e, BuilderOK(b, files, before, d),
         b.pc = "persist" => KeptIn(b.loaded.builds, after, later),
         b.pc # "idle" => d \subseteq e, b.pc # "idle" => b.id \in e \/ (b.id \in DOMAIN files => b.id \in DOMAIN later /\ later[b.id] = files[b.id]),
         b.pc # "idle" => (b.id \in DOMAIN files => b.id \in DOMAIN later)
  PROVE  BuilderOK(b, later, after, e)
BY DEF BuilderOK

LEMMA IdleIsOK == ASSUME DatasetAssumption, NEW files, NEW exempt, NEW d PROVE BuilderOK(IdleBuilder, files, exempt, d)
<1>1. NoBuild \in BuildType
  <2>1. 0 \in 0..MaxBuilds
    BY DEF DatasetAssumption
  <2> QED
    BY <2>1 DEF NoBuild, BuildType, Licenses
<1> HIDE DEF NoBuild
<1>2. IdleBuilder.pc = "idle" /\ IdleBuilder.build = NoBuild
      /\ IdleBuilder = [pc |-> IdleBuilder.pc, id |-> IdleBuilder.id, build |-> IdleBuilder.build, loaded |-> IdleBuilder.loaded]
  BY DEF IdleBuilder
<1> HIDE DEF IdleBuilder
<1> QED
  BY <1>1, <1>2 DEF BuilderOK, BuilderStages

\* A step of builder p alone.
LEMMA OneMoves ==
  ASSUME DatasetInv, NEW p \in Builders, NEW x, builders' = [builders EXCEPT ![p] = x]
  PROVE  /\ builders' = [q \in Builders |-> builders'[q]] /\ builders'[p] = x
         /\ \A q \in Builders : q # p => builders'[q] = builders[q]
BY DEF DatasetInv

LEMMA LatestIsReady ==
  ASSUME DatasetAssumption, NEW listed, RecordsOK(listed)
  PROVE  LatestReady(listed) = NoId \/ (LatestReady(listed) \in DOMAIN listed /\ listed[LatestReady(listed)].ready)
<1> DEFINE ready == {i \in DOMAIN listed : listed[i].ready}
<1> SUFFICES ASSUME ready # {} PROVE LatestReady(listed) \in ready
  BY DEF LatestReady
<1>1. \A i \in ready : listed[i].completedAt \in 0..MaxBuilds
  BY DEF RecordsOK, BuildOf, BuildType
<1> DEFINE ages == {MaxBuilds - listed[i].completedAt : i \in ready}
<1>2. MaxBuilds \in Nat
  BY DEF DatasetAssumption
<1> HIDE DEF ready
<1>3. ages \subseteq Nat /\ ages # {}
  BY <1>1, <1>2
<1>4. PICK a \in ages : \A b \in ages : a <= b
  <2> HIDE DEF ages
  <2> QED
    BY <1>3, LeastNumber
<1>5. PICK i \in ready : a = MaxBuilds - listed[i].completedAt
  BY <1>4
<1>6. \A j \in ready : listed[j].completedAt <= listed[i].completedAt
  <2> TAKE j \in ready
  <2>1. MaxBuilds - listed[j].completedAt \in ages
    OBVIOUS
  <2>2. a <= MaxBuilds - listed[j].completedAt
    BY <1>4, <2>1
  <2> QED
    BY <1>1, <1>2, <1>5, <2>2
<1>7. LatestReady(listed) = CHOOSE k \in ready : \A j \in ready : listed[j].completedAt <= listed[k].completedAt
  BY DEF LatestReady, ready
<1> QED
  BY <1>6, <1>7

LEMMA FilesStored ==
  ASSUME DatasetInv, NEW id, NEW files \in FilesType, RowsFit(files, id), Store(id, files)
  PROVE  /\ FilesOK' /\ id \in DOMAIN builtFiles' /\ builtFiles'[id] = files
         /\ \A i \in DOMAIN builtFiles : i \in DOMAIN builtFiles' /\ (i # id => builtFiles'[i] = builtFiles[i])
<1>1. /\ DOMAIN builtFiles' = DOMAIN builtFiles \cup {id} /\ builtFiles'[id] = files
      /\ \A i \in DOMAIN builtFiles : i # id => builtFiles'[i] = builtFiles[i]
  BY DEF Store
<1> QED
  BY <1>1 DEF FilesOK, DatasetInv

LEMMA ExemptGrows ==
  ASSUME DatasetInv, NEW p \in Builders, \A q \in Builders : q # p => builders'[q] = builders[q],
         disturbed \subseteq disturbed',
         Working(p) => builders[p].id \in disturbed' \/ (Working(p)' /\ builders'[p].id = builders[p].id)
  PROVE  Exempt \subseteq Exempt'
<1>1. \A q \in Builders : q # p /\ Working(q) => Working(q)' /\ builders'[q].id = builders[q].id
  BY DEF Working
<1> QED
  BY <1>1 DEF Exempt

LEMMA ApartStays ==
  ASSUME DatasetInv, NEW p \in Builders, \A q \in Builders : q # p => builders'[q] = builders[q],
         disturbed \subseteq disturbed',
         Working(p)' => Working(p) /\ builders'[p].id = builders[p].id
  PROVE  Apart'
<1>1. \A q \in Builders : Working(q)' => Working(q) /\ builders'[q].id = builders[q].id
  BY DEF Working
<1> QED
  BY <1>1 DEF Apart, DatasetInv

LEMMA BuildBegins ==
  ASSUME DatasetAssumption, DatasetInv, NEW p \in Builders, Begin(p)
  PROVE  DatasetInv'
<1>1. /\ ~Working(p) /\ datasetBuilds < MaxBuilds /\ datasetBuilds' = datasetBuilds + 1
      /\ UNCHANGED <<sources, builtFiles, index, sourceChanges>>
  BY DEF Begin
<1>2. PICK type \in DatasetTypes, tasks \in (SUBSET DatasetTasks) \ {{}}, threshold \in Thresholds :
        \E id \in {ComputeBuildId(type, tasks, threshold)} \cup {NamedId(name) : name \in CallerIds} :
          /\ builders' = [builders EXCEPT ![p] = [pc |-> "files", id |-> id,
                            build |-> BuildDataset(type, tasks, threshold), loaded |-> EmptyIndex]]
          /\ disturbed' = IF \A q \in Builders : ~Working(q) THEN disturbed \ {id}
                          ELSE disturbed \cup {builders[q].id : q \in {r \in Builders : Working(r)}} \cup {id}
  BY DEF Begin
<1> DEFINE build == BuildDataset(type, tasks, threshold)
<1>3. PICK id \in {ComputeBuildId(type, tasks, threshold)} \cup {NamedId(name) : name \in CallerIds} :
        /\ builders' = [builders EXCEPT ![p] = [pc |-> "files", id |-> id, build |-> build, loaded |-> EmptyIndex]]
        /\ disturbed' = IF \A q \in Builders : ~Working(q) THEN disturbed \ {id}
                        ELSE disturbed \cup {builders[q].id : q \in {r \in Builders : Working(r)}} \cup {id}
  BY <1>2
<1>4. BuildOf(id, build)
  <2>1. sources \in [DatasetTasks -> Sources] /\ datasetBuilds \in Nat
    BY DEF DatasetInv, SourcesOK
  <2> QED
    BY <1>1, <2>1, BuildsUnderAnyId
<1> HIDE DEF build
<1> DEFINE x == [pc |-> "files", id |-> id, build |-> build, loaded |-> EmptyIndex]
<1>5. builders' = [builders EXCEPT ![p] = x]
  BY <1>3
<1>6. /\ builders' = [q \in Builders |-> builders'[q]] /\ builders'[p] = x
      /\ \A q \in Builders : q # p => builders'[q] = builders[q]
  <2> HIDE DEF x
  <2> QED
    BY <1>5, OneMoves
<1>7. x.pc = "files" /\ x.id = id /\ x.build = build /\ x.loaded = EmptyIndex
  OBVIOUS
<1> HIDE DEF x
<1>8. (\E q \in Builders : Working(q)) => disturbed \subseteq disturbed' /\ id \in disturbed'
                                         /\ \A q \in Builders : Working(q) => builders[q].id \in disturbed'
  BY <1>3
<1>9. Exempt \subseteq Exempt'
  <2>1. id \in Exempt'
    BY <1>6, <1>7 DEF Exempt, Working
  <2>2. disturbed \subseteq disturbed' \cup {id}
    BY <1>3
  <2>3. \A q \in Builders : Working(q) => builders[q].id \in disturbed'
    BY <1>8
  <2> QED
    BY <2>1, <2>2, <2>3 DEF Exempt
<1>10. Apart'
  <2>1. ASSUME NEW r \in Builders, NEW q \in Builders, r # q, Working(r)', Working(q)' PROVE builders'[r].id \in disturbed'
    <3>1. CASE r # p
      <4>1. Working(r)
        BY <1>6, <2>1, <3>1 DEF Working
      <4> QED
        BY <1>6, <1>8, <3>1, <4>1
    <3>2. CASE r = p
      <4>1. Working(q)
        BY <1>6, <2>1, <3>2 DEF Working
      <4> QED
        BY <1>6, <1>7, <1>8, <3>2, <4>1
    <3> QED
      BY <3>1, <3>2
  <2> QED
    BY <2>1 DEF Apart
<1>11. \A q \in Builders : BuilderOK(builders'[q], builtFiles, Exempt', disturbed')
  <2>1. BuilderOK(x, builtFiles, Exempt', disturbed')
    <3>1. x = [pc |-> x.pc, id |-> x.id, build |-> x.build, loaded |-> x.loaded]
      BY DEF x
    <3>2. build \in BuildType
      BY <1>4 DEF BuildOf
    <3> QED
      BY <1>4, <1>7, <3>1, <3>2 DEF BuilderOK, BuilderStages
  <2>2. ASSUME NEW q \in Builders, q # p PROVE BuilderOK(builders[q], builtFiles, Exempt', disturbed')
    <3>1. BuilderOK(builders[q], builtFiles, Exempt, disturbed)
      BY DEF DatasetInv
    <3>2. builders[q].pc = "persist" => KeptIn(builders[q].loaded.builds, Exempt', builtFiles)
      BY <1>9, <3>1, KeptStays DEF BuilderOK
    <3>3. builders[q].pc # "idle" => disturbed \subseteq disturbed'
      BY <1>8 DEF Working
    <3> QED
      BY <3>1, <3>2, <3>3, BuilderStays
  <2> QED
    BY <1>6, <2>1, <2>2
<1>12. IndexOK'
  <2>1. index.torn \/ KeptIn(index.builds, Exempt', builtFiles)
    BY <1>9, KeptStays DEF DatasetInv, IndexOK
  <2> QED
    BY <1>1, <2>1 DEF DatasetInv, IndexOK
<1>13. SourcesOK'
  <2>1. datasetBuilds \in 0..MaxBuilds /\ MaxBuilds \in Nat
    BY DEF DatasetInv, SourcesOK, DatasetAssumption
  <2>2. datasetBuilds' \in 0..MaxBuilds
    BY <1>1, <2>1
  <2> QED
    BY <1>1, <2>2 DEF DatasetInv, SourcesOK
<1>14. FilesOK'
  BY <1>1 DEF DatasetInv, FilesOK
<1> QED
  BY <1>1, <1>6, <1>10, <1>11, <1>12, <1>13, <1>14 DEF DatasetInv

\* A file of the build is written: what is stored under other identifiers stays.
LEMMA BuildStored ==
  ASSUME DatasetAssumption, DatasetInv, NEW p \in Builders, OpenRows(p) \/ WriteRows(p) \/ WriteMetadata(p)
  PROVE  DatasetInv'
<1> DEFINE b == builders[p]
           id == b.id
<1>1. BuilderOK(b, builtFiles, Exempt, disturbed) /\ b.pc \in {"files", "rows", "metadata"} /\ Working(p)
      /\ UNCHANGED <<sources, index, datasetBuilds, disturbed, sourceChanges>>
  BY DEF DatasetInv, OpenRows, WriteRows, WriteMetadata, Working, InStage
<1>2. /\ BuildOf(id, b.build) /\ b.build \in BuildType /\ b.build.rows \subseteq Rows
      /\ Verdict(b.build) \in {"ready", "refused"}
  <2>1. BuildOf(id, b.build) /\ b.build \in BuildType
    BY <1>1 DEF BuilderOK
  <2>2. Verdict(b.build) \in {"ready", "refused"}
    BY DEF Verdict
  <2> HIDE DEF b
  <2> QED
    BY <2>1, <2>2, Zenon DEF BuildType
<1>3. /\ Files(id) = [rows |-> Files(id).rows, whole |-> Files(id).whole, metadata |-> Files(id).metadata]
      /\ Files(id).rows \subseteq Rows /\ Files(id).whole \in BOOLEAN
      /\ Files(id).metadata \in {"none", "ready", "refused", "torn"} /\ RowsFit(Files(id), id)
  <2>1. NoFiles \in FilesType /\ RowsFit(NoFiles, id)
    BY DEF NoFiles, FilesType, RowsFit
  <2> HIDE DEF NoFiles, b
  <2>2. Files(id) \in FilesType /\ RowsFit(Files(id), id)
    BY <2>1 DEF Files, DatasetInv, FilesOK
  <2> QED
    BY <2>2 DEF FilesType
<1>4. PICK pc \in {"rows", "metadata", "load"}, files \in FilesType :
        /\ Advance(p, pc) /\ Store(id, files) /\ RowsFit(files, id)
        /\ id \in disturbed \/ Progress(pc, b.build, files)
  <2>1. CASE OpenRows(p)
    <3> DEFINE f == WithRows(id, {}, FALSE)
    <3>1. f = [rows |-> {}, whole |-> FALSE, metadata |-> Files(id).metadata]
      BY DEF WithRows
    <3>2. Advance(p, "rows") /\ Store(id, f)
      BY <2>1 DEF OpenRows
    <3> HIDE DEF f
    <3>3. f \in FilesType /\ RowsFit(f, id) /\ Progress("rows", b.build, f)
      BY <1>3, <3>1 DEF FilesType, RowsFit, Progress
    <3> QED
      BY <3>2, <3>3
  <2>2. CASE WriteRows(p)
    <3>1. b.pc = "rows" /\ Advance(p, "metadata")
      BY <2>2 DEF WriteRows, InStage
    <3>2. id \in DOMAIN builtFiles /\ (id \in disturbed \/ Files(id).rows = {})
      BY <1>1, <3>1 DEF BuilderOK, Progress, Files
    <3>3. CASE Store(id, WithRows(id, b.build.rows, TRUE))
      <4> DEFINE f == WithRows(id, b.build.rows, TRUE)
      <4>1. f = [rows |-> b.build.rows, whole |-> TRUE, metadata |-> Files(id).metadata]
        BY DEF WithRows
      <4>2. Store(id, f)
        BY <3>3
      <4> HIDE DEF f
      <4>3. f \in FilesType /\ RowsFit(f, id) /\ Progress("metadata", b.build, f)
        BY <1>2, <1>3, <4>1 DEF FilesType, RowsFit, Progress, BuildOf
      <4> QED
        BY <3>1, <4>2, <4>3
    <3>4. CASE ~(Files(id).rows \subseteq b.build.rows)
               /\ \E mixed \in SUBSET (b.build.rows \cup Files(id).rows) :
                    Store(id, WithRows(id, mixed, FALSE))
      <4>1. PICK mixed \in SUBSET (b.build.rows \cup Files(id).rows) :
                   Store(id, WithRows(id, mixed, FALSE))
        BY <3>4
      <4> DEFINE f == WithRows(id, mixed, FALSE)
      <4>2. f = [rows |-> mixed, whole |-> FALSE, metadata |-> Files(id).metadata] /\ Store(id, f)
        BY <4>1 DEF WithRows
      <4> HIDE DEF f
      <4>3. id \in disturbed
        BY <3>2, <3>4
      <4>4. f \in FilesType /\ RowsFit(f, id)
        BY <1>2, <1>3, <4>2 DEF FilesType, RowsFit, BuildOf
      <4> QED
        BY <3>1, <4>2, <4>3, <4>4
    <3> QED
      BY <2>2, <3>3, <3>4 DEF WriteRows
  <2>3. CASE WriteMetadata(p)
    <3> DEFINE shared == \E q \in Builders \ {p} : InStage(q, "metadata") /\ builders[q].id = id
    <3>1. b.pc = "metadata" /\ Advance(p, "load")
      BY <2>3 DEF WriteMetadata, InStage
    <3>2. PICK text \in {Verdict(b.build)} \cup (IF shared THEN {"torn"} ELSE {}) :
                 Store(id, [Files(id) EXCEPT !.metadata = text])
      BY <2>3 DEF WriteMetadata
    <3> DEFINE f == [Files(id) EXCEPT !.metadata = text]
    <3>3. f = [rows |-> Files(id).rows, whole |-> Files(id).whole, metadata |-> text] /\ Store(id, f)
      BY <1>3, <3>2
    <3> HIDE DEF f
    <3>4. text \in {"ready", "refused", "torn"}
      BY <1>2, <3>2
    <3>5. f \in FilesType /\ RowsFit(f, id)
      BY <1>3, <3>3, <3>4 DEF FilesType, RowsFit
    <3>6. shared => id \in disturbed
      BY <1>1 DEF DatasetInv, Apart, Working, InStage
    <3>7. id \notin disturbed => Files(id).whole /\ Files(id).rows = b.build.rows
      BY <1>1, <3>1 DEF BuilderOK, Progress, Files
    <3>8. id \notin disturbed => Progress("load", b.build, f)
      <4> SUFFICES ASSUME id \notin disturbed PROVE Agrees(f, b.build)
        BY DEF Progress
      <4>1. text = Verdict(b.build) /\ Files(id).whole = TRUE /\ Files(id).rows = b.build.rows
        BY <1>3, <3>2, <3>6, <3>7
      <4> QED
        BY <3>3, <4>1 DEF Agrees
    <3> QED
      BY <3>1, <3>3, <3>5, <3>8
  <2> QED
    BY <2>1, <2>2, <2>3
<1> DEFINE x == [b EXCEPT !.pc = pc]
<1>5. builders' = [builders EXCEPT ![p] = x]
  BY <1>4 DEF Advance, DatasetInv
<1>6. x.pc = pc /\ x.id = id /\ x.build = b.build
      /\ x = [pc |-> x.pc, id |-> x.id, build |-> x.build, loaded |-> x.loaded]
  <2>1. b = [pc |-> b.pc, id |-> b.id, build |-> b.build, loaded |-> b.loaded]
    BY <1>1 DEF BuilderOK
  <2> HIDE DEF b
  <2> QED
    BY <2>1
<1> HIDE DEF x
<1>7. /\ builders' = [q \in Builders |-> builders'[q]] /\ builders'[p] = x
      /\ \A q \in Builders : q # p => builders'[q] = builders[q]
  BY <1>5, OneMoves
<1>8. /\ FilesOK' /\ id \in DOMAIN builtFiles' /\ builtFiles'[id] = files
      /\ \A i \in DOMAIN builtFiles : i \in DOMAIN builtFiles' /\ (i # id => builtFiles'[i] = builtFiles[i])
  BY <1>4, FilesStored
<1>9. Working(p)' /\ builders'[p].id = id
  BY <1>4, <1>6, <1>7 DEF Working
<1>10. Exempt \subseteq Exempt' /\ id \in Exempt'
  <2>1. Exempt \subseteq Exempt'
    BY <1>1, <1>7, <1>9, ExemptGrows
  <2> QED
    BY <1>9, <2>1 DEF Exempt
<1>11. Apart'
  BY <1>1, <1>7, <1>9, ApartStays
<1>12. \A i \in DOMAIN builtFiles : i \notin Exempt' => i \in DOMAIN builtFiles' /\ builtFiles'[i] = builtFiles[i]
  BY <1>8, <1>10
<1>13. \A q \in Builders : BuilderOK(builders'[q], builtFiles', Exempt', disturbed')
  <2>1. BuilderOK(x, builtFiles', Exempt', disturbed')
    BY <1>1, <1>2, <1>4, <1>6, <1>8 DEF BuilderOK, BuilderStages
  <2>2. ASSUME NEW q \in Builders, q # p PROVE BuilderOK(builders[q], builtFiles', Exempt', disturbed')
    <3>1. BuilderOK(builders[q], builtFiles, Exempt, disturbed)
      BY DEF DatasetInv
    <3>2. builders[q].pc = "persist" => KeptIn(builders[q].loaded.builds, Exempt', builtFiles')
      BY <1>10, <1>12, <3>1, KeptStays DEF BuilderOK
    <3>3. builders[q].pc # "idle" => builders[q].id \in disturbed'
      BY <1>1, <2>2 DEF DatasetInv, Apart, Working
    <3>4. builders[q].id \in DOMAIN builtFiles => builders[q].id \in DOMAIN builtFiles'
      BY <1>8
    <3>5. disturbed \subseteq disturbed'
      BY <1>1
    <3> QED
      BY <3>1, <3>2, <3>3, <3>4, <3>5, BuilderStays
  <2> QED
    BY <1>7, <2>1, <2>2
<1>14. IndexOK'
  <2>1. index.torn \/ KeptIn(index.builds, Exempt', builtFiles')
    BY <1>10, <1>12, KeptStays DEF DatasetInv, IndexOK
  <2> QED
    BY <1>1, <2>1 DEF DatasetInv, IndexOK
<1>15. SourcesOK'
  BY <1>1 DEF DatasetInv, SourcesOK
<1> QED
  BY <1>7, <1>8, <1>11, <1>13, <1>14, <1>15 DEF DatasetInv

\* A builder that ends, while another works or with its files cut off, leaves an identifier
\* that was disturbed.
LEMMA BuilderIdles ==
  ASSUME DatasetAssumption, DatasetInv, NEW p \in Builders, Working(p), disturbed \subseteq disturbed',
         builders' = [builders EXCEPT ![p] = IdleBuilder], UNCHANGED <<sources, datasetBuilds, sourceChanges>>,
         \A i \in DOMAIN builtFiles : i \in DOMAIN builtFiles' /\ (i \in Exempt' \/ builtFiles'[i] = builtFiles[i]),
         builtFiles' = builtFiles
         \/ (builders[p].id \in disturbed' /\ \A i \in DOMAIN builtFiles : i # builders[p].id => builtFiles'[i] = builtFiles[i]),
         FilesOK', IndexOK'
  PROVE  DatasetInv'
<1>1. /\ builders' = [q \in Builders |-> builders'[q]] /\ builders'[p] = IdleBuilder
      /\ \A q \in Builders : q # p => builders'[q] = builders[q]
  BY OneMoves
<1>2. ~Working(p)'
  BY <1>1 DEF Working, IdleBuilder
<1>3. Apart'
  BY <1>1, <1>2, ApartStays
<1>4. \A q \in Builders : BuilderOK(builders'[q], builtFiles', Exempt', disturbed')
  <2>1. BuilderOK(IdleBuilder, builtFiles', Exempt', disturbed')
    BY IdleIsOK
  <2>2. ASSUME NEW q \in Builders, q # p PROVE BuilderOK(builders[q], builtFiles', Exempt', disturbed')
    <3>1. BuilderOK(builders[q], builtFiles, Exempt, disturbed)
      BY DEF DatasetInv
    <3>2. ASSUME builders[q].pc = "persist" PROVE KeptIn(builders[q].loaded.builds, Exempt', builtFiles')
      <4>1. builders[p].id \in disturbed'
        BY <2>2, <3>2 DEF DatasetInv, Apart, Working
      <4>2. Exempt \subseteq Exempt'
        BY <1>1, <4>1, ExemptGrows
      <4> QED
        BY <3>1, <3>2, <4>2, KeptStays DEF BuilderOK
    <3>3. builders[q].pc # "idle" => builders[q].id \in disturbed'
      BY <2>2 DEF DatasetInv, Apart, Working
    <3>4. builders[q].id \in DOMAIN builtFiles => builders[q].id \in DOMAIN builtFiles'
      OBVIOUS
    <3> QED
      BY <3>1, <3>2, <3>3, <3>4, BuilderStays
  <2> QED
    BY <1>1, <2>1, <2>2
<1>5. SourcesOK'
  BY DEF DatasetInv, SourcesOK
<1> QED
  BY <1>1, <1>3, <1>4, <1>5 DEF DatasetInv

LEMMA IndexLoaded ==
  ASSUME DatasetAssumption, DatasetInv, NEW p \in Builders, LoadIndex(p)
  PROVE  DatasetInv'
<1>1. builders[p].pc = "load" /\ Working(p) /\ UNCHANGED <<sources, builtFiles, index, datasetBuilds, disturbed, sourceChanges>>
  BY DEF LoadIndex, Working, InStage
<1>2. CASE (index.torn \/ IndexShared(p)) /\ builders' = [builders EXCEPT ![p] = IdleBuilder]
  <2>1. builders' = [builders EXCEPT ![p] = IdleBuilder] /\ FilesOK'
    BY <1>1, <1>2 DEF DatasetInv, FilesOK
  <2>2. IndexOK'
    <3>1. CASE index.torn
      BY <1>1, <3>1 DEF DatasetInv, IndexOK
    <3>2. CASE IndexShared(p)
      <4>1. builders[p].id \in disturbed
        BY <1>1, <3>2 DEF IndexShared, InStage, DatasetInv, Apart, Working
      <4>2. \A q \in Builders : q # p => builders'[q] = builders[q]
        BY <1>2, OneMoves
      <4>3. Exempt \subseteq Exempt'
        BY <1>1, <4>1, <4>2, ExemptGrows
      <4>4. index.torn \/ KeptIn(index.builds, Exempt', builtFiles)
        BY <4>3, KeptStays DEF DatasetInv, IndexOK
      <4> QED
        BY <1>1, <4>4 DEF DatasetInv, IndexOK
    <3> QED
      BY <1>2, <3>1, <3>2
  <2> QED
    BY <1>1, <2>1, <2>2, BuilderIdles
<1>3. CASE ~index.torn /\ builders' = [builders EXCEPT ![p].pc = "persist", ![p].loaded = index]
  <2> DEFINE b == builders[p]
             x == [b EXCEPT !.pc = "persist", !.loaded = index]
  <2>1. builders' = [builders EXCEPT ![p] = x]
    BY <1>3 DEF DatasetInv
  <2>2. BuilderOK(b, builtFiles, Exempt, disturbed)
    BY DEF DatasetInv
  <2>3. x.pc = "persist" /\ x.id = b.id /\ x.build = b.build /\ x.loaded = index
        /\ x = [pc |-> x.pc, id |-> x.id, build |-> x.build, loaded |-> x.loaded]
    <3>1. b = [pc |-> b.pc, id |-> b.id, build |-> b.build, loaded |-> b.loaded]
      BY <2>2 DEF BuilderOK
    <3> DEFINE y == [b EXCEPT !.pc = "persist"]
    <3>2. y = [pc |-> "persist", id |-> b.id, build |-> b.build, loaded |-> b.loaded]
      <4> HIDE DEF b
      <4> QED
        BY <3>1
    <3>3. x = [y EXCEPT !.loaded = index]
      OBVIOUS
    <3>4. x = [pc |-> "persist", id |-> b.id, build |-> b.build, loaded |-> index]
      <4> HIDE DEF b, x, y
      <4> QED
        BY <3>2, <3>3
    <3> HIDE DEF x
    <3> QED
      BY <3>4
  <2> HIDE DEF x
  <2>4. /\ builders' = [q \in Builders |-> builders'[q]] /\ builders'[p] = x
        /\ \A q \in Builders : q # p => builders'[q] = builders[q]
    BY <2>1, OneMoves
  <2>5. Working(p)' /\ builders'[p].id = builders[p].id
    BY <2>3, <2>4 DEF Working
  <2>6. Exempt \subseteq Exempt' /\ Apart'
    BY <1>1, <2>4, <2>5, ExemptGrows, ApartStays
  <2>7. RecordsOK(index.builds) /\ KeptIn(index.builds, Exempt', builtFiles)
    BY <1>3, <2>6, KeptStays DEF DatasetInv, IndexOK
  <2>8. \A q \in Builders : BuilderOK(builders'[q], builtFiles, Exempt', disturbed)
    <3>1. BuilderOK(x, builtFiles, Exempt', disturbed)
      BY <1>1, <2>2, <2>3, <2>7 DEF BuilderOK, BuilderStages, Progress
    <3>2. ASSUME NEW q \in Builders, q # p PROVE BuilderOK(builders[q], builtFiles, Exempt', disturbed)
      <4>1. BuilderOK(builders[q], builtFiles, Exempt, disturbed)
        BY DEF DatasetInv
      <4>2. builders[q].pc = "persist" => KeptIn(builders[q].loaded.builds, Exempt', builtFiles)
        BY <2>6, <4>1, KeptStays DEF BuilderOK
      <4> QED
        BY <4>1, <4>2, BuilderStays
    <3> QED
      BY <2>4, <3>1, <3>2
  <2>9. IndexOK'
    BY <1>1, <2>7 DEF DatasetInv, IndexOK
  <2>10. SourcesOK' /\ FilesOK'
    BY <1>1 DEF DatasetInv, SourcesOK, FilesOK
  <2> QED
    BY <1>1, <2>4, <2>6, <2>8, <2>9, <2>10 DEF DatasetInv
<1> QED
  BY <1>2, <1>3 DEF LoadIndex

LEMMA IndexPersisted ==
  ASSUME DatasetAssumption, DatasetInv, NEW p \in Builders, PersistIndex(p)
  PROVE  DatasetInv'
<1> DEFINE b == builders[p]
           listed == WithRecord(b.loaded.builds, b.id, b.build)
<1>1. /\ b.pc = "persist" /\ Working(p) /\ UNCHANGED <<sources, builtFiles, datasetBuilds, disturbed, sourceChanges>>
      /\ builders' = [builders EXCEPT ![p] = IdleBuilder]
      /\ \E torn : index' = [torn |-> torn, builds |-> listed, latestReady |-> LatestReady(listed)]
  BY DEF PersistIndex, Working, InStage
<1>2. BuilderOK(b, builtFiles, Exempt, disturbed)
  BY DEF DatasetInv
<1>3. /\ DOMAIN listed = DOMAIN b.loaded.builds \cup {b.id} /\ listed[b.id] = b.build
      /\ \A i \in DOMAIN b.loaded.builds : i # b.id => listed[i] = b.loaded.builds[i]
  BY DEF WithRecord
<1> HIDE DEF listed
<1>4. RecordsOK(listed)
  BY <1>1, <1>2, <1>3 DEF RecordsOK, BuilderOK
<1>5. KeptIn(listed, Exempt', builtFiles)
  <2>1. \A q \in Builders : q # p => builders'[q] = builders[q]
    BY <1>1, OneMoves
  <2>2. \A i \in Exempt : i # b.id => i \in Exempt'
    BY <1>1, <2>1 DEF Exempt, Working
  <2>3. b.id \in DOMAIN builtFiles /\ (b.id \in disturbed \/ Agrees(builtFiles[b.id], b.build))
    BY <1>1, <1>2 DEF BuilderOK, Progress
  <2>4. b.id \in disturbed => b.id \in Exempt'
    BY <1>1 DEF Exempt
  <2>5. KeptIn(b.loaded.builds, Exempt, builtFiles)
    BY <1>1, <1>2 DEF BuilderOK
  <2> HIDE DEF b
  <2> QED
    BY <1>3, <2>2, <2>3, <2>4, <2>5 DEF KeptIn
<1>6. LatestReady(listed) = NoId \/ (LatestReady(listed) \in DOMAIN listed /\ listed[LatestReady(listed)].ready)
  BY <1>4, LatestIsReady
<1>7. IndexOK'
  <2>1. /\ index'.builds = listed /\ index'.latestReady = LatestReady(listed)
        /\ index' = [torn |-> index'.torn, builds |-> index'.builds, latestReady |-> index'.latestReady]
    BY <1>1
  <2> QED
    BY <1>1, <1>4, <1>5, <1>6, <2>1 DEF IndexOK
<1>8. FilesOK'
  BY <1>1 DEF DatasetInv, FilesOK
<1> QED
  BY <1>1, <1>7, <1>8, BuilderIdles

LEMMA BuilderCrashes ==
  ASSUME DatasetAssumption, DatasetInv, NEW p \in Builders, Crash(p)
  PROVE  DatasetInv'
<1> DEFINE b == builders[p]
           id == b.id
<1>1. /\ Working(p) /\ builders' = [builders EXCEPT ![p] = IdleBuilder] /\ disturbed' = disturbed \cup {id}
      /\ UNCHANGED <<sources, datasetBuilds, sourceChanges>> /\ Cut(p)
  BY DEF Crash
<1>2. BuilderOK(b, builtFiles, Exempt, disturbed) /\ BuildOf(id, b.build) /\ b.build.rows \subseteq Rows
  <2>1. BuilderOK(b, builtFiles, Exempt, disturbed) /\ BuildOf(id, b.build) /\ b.build \in BuildType
    BY <1>1 DEF DatasetInv, Working, BuilderOK
  <2> HIDE DEF b
  <2> QED
    BY <2>1 DEF BuildType
<1>3. Exempt \subseteq Exempt' /\ id \in Exempt'
  <2>1. \A q \in Builders : q # p => builders'[q] = builders[q]
    BY <1>1, OneMoves
  <2>2. Exempt \subseteq Exempt'
    BY <1>1, <2>1, ExemptGrows
  <2> QED
    BY <1>1, <2>2 DEF Exempt
<1>4. UNCHANGED builtFiles \/ (id \in DOMAIN builtFiles /\ \E f \in FilesType : RowsFit(f, id) /\ Store(id, f))
  <2>1. CASE UNCHANGED builtFiles
    BY <2>1
  <2>2. ASSUME b.pc \in {"rows", "metadata"}
        PROVE  /\ id \in DOMAIN builtFiles /\ Files(id) = builtFiles[id] /\ RowsFit(Files(id), id)
               /\ Files(id) = [rows |-> Files(id).rows, whole |-> Files(id).whole, metadata |-> Files(id).metadata]
               /\ Files(id).rows \subseteq Rows /\ Files(id).whole \in BOOLEAN
               /\ Files(id).metadata \in {"none", "ready", "refused", "torn"}
    <3>1. id \in DOMAIN builtFiles /\ Files(id) = builtFiles[id]
      BY <1>2, <2>2 DEF BuilderOK, Files
    <3>2. builtFiles[id] \in FilesType /\ RowsFit(builtFiles[id], id)
      BY <3>1 DEF DatasetInv, FilesOK
    <3> HIDE DEF id, b
    <3> QED
      BY <3>1, <3>2 DEF FilesType
  <2>3. ASSUME b.pc = "rows", NEW left \in SUBSET (b.build.rows \cup Files(id).rows),
               Store(id, WithRows(id, left, FALSE))
        PROVE  id \in DOMAIN builtFiles /\ \E f \in FilesType : RowsFit(f, id) /\ Store(id, f)
    <3> DEFINE f == WithRows(id, left, FALSE)
    <3>1. f = [rows |-> left, whole |-> FALSE, metadata |-> Files(id).metadata] /\ Store(id, f)
      BY <2>3 DEF WithRows
    <3> HIDE DEF f
    <3>2. f \in FilesType /\ RowsFit(f, id)
      BY <1>2, <2>2, <2>3, <3>1 DEF FilesType, RowsFit, BuildOf
    <3> QED
      BY <2>2, <2>3, <3>1, <3>2
  <2>4. ASSUME b.pc = "metadata", Store(id, [Files(id) EXCEPT !.metadata = "torn"])
        PROVE  id \in DOMAIN builtFiles /\ \E f \in FilesType : RowsFit(f, id) /\ Store(id, f)
    <3> DEFINE f == [Files(id) EXCEPT !.metadata = "torn"]
    <3>1. f = [rows |-> Files(id).rows, whole |-> Files(id).whole, metadata |-> "torn"] /\ Store(id, f)
      BY <2>2, <2>4
    <3> HIDE DEF f
    <3>2. f \in FilesType /\ RowsFit(f, id)
      BY <2>2, <2>4, <3>1 DEF FilesType, RowsFit
    <3> QED
      BY <2>2, <2>4, <3>1, <3>2
  <2> QED
    BY <1>1, <2>1, <2>3, <2>4 DEF Cut, InStage
<1>5. /\ FilesOK' /\ \A i \in DOMAIN builtFiles : i \in DOMAIN builtFiles' /\ (i # id => builtFiles'[i] = builtFiles[i])
  <2>1. CASE UNCHANGED builtFiles
    BY <2>1 DEF DatasetInv, FilesOK
  <2>2. CASE \E f \in FilesType : RowsFit(f, id) /\ Store(id, f)
    <3>1. PICK f \in FilesType : RowsFit(f, id) /\ Store(id, f)
      BY <2>2
    <3> QED
      BY <3>1, FilesStored
  <2> QED
    BY <1>4, <2>1, <2>2
<1>6. UNCHANGED index \/ index' = [index EXCEPT !.torn = TRUE]
  BY <1>1 DEF Cut
<1>7. IndexOK'
  <2>1. index = [torn |-> index.torn, builds |-> index.builds, latestReady |-> index.latestReady]
    BY DEF DatasetInv, IndexOK
  <2>2. CASE UNCHANGED index
    <3>1. index.torn \/ KeptIn(index.builds, Exempt', builtFiles')
      BY <1>3, <1>5, KeptStays DEF DatasetInv, IndexOK
    <3> QED
      BY <1>1, <2>2, <3>1 DEF DatasetInv, IndexOK
  <2>3. CASE index' = [index EXCEPT !.torn = TRUE]
    <3>1. /\ index'.torn = TRUE /\ index'.builds = index.builds /\ index'.latestReady = index.latestReady
          /\ index' = [torn |-> index'.torn, builds |-> index'.builds, latestReady |-> index'.latestReady]
      BY <2>1, <2>3
    <3> QED
      BY <3>1 DEF DatasetInv, IndexOK
  <2> QED
    BY <1>6, <2>2, <2>3
<1> QED
  BY <1>1, <1>3, <1>5, <1>7, BuilderIdles

LEMMA SourceChanges ==
  ASSUME DatasetAssumption, DatasetInv, ChangeSource PROVE DatasetInv'
<1>1. UNCHANGED <<builtFiles, index, builders, datasetBuilds, disturbed>>
  BY DEF ChangeSource
<1>2. SourcesOK'
  <2>1. sourceChanges' \in 0..MaxSourceChanges
    BY DEF ChangeSource, DatasetInv, SourcesOK, DatasetAssumption
  <2>2. sources' \in [DatasetTasks -> Sources]
    BY DEF ChangeSource, DatasetInv, SourcesOK
  <2> QED
    BY <1>1, <2>1, <2>2 DEF DatasetInv, SourcesOK
<1>3. Exempt' = Exempt
  BY <1>1 DEF Exempt, Working
<1>4. FilesOK' /\ Apart' /\ IndexOK'
  BY <1>1, <1>3 DEF DatasetInv, FilesOK, Apart, IndexOK, Working
<1> QED
  BY <1>1, <1>2, <1>3, <1>4 DEF DatasetInv

LEMMA DatasetSteps == DatasetSpec => []DatasetInv
<1>1. ASSUME DatasetInit PROVE DatasetInv
  <2>1. SourcesOK
    BY <1>1, DatasetAssumption DEF DatasetInit, SourcesOK, Sources, Licenses, DatasetAssumption
  <2>2. DOMAIN builtFiles = {} /\ DOMAIN EmptyIndex.builds = {} /\ EmptyIndex.latestReady = NoId
        /\ EmptyIndex = [torn |-> EmptyIndex.torn, builds |-> EmptyIndex.builds, latestReady |-> EmptyIndex.latestReady]
    BY <1>1 DEF DatasetInit, EmptyIndex
  <2>3. index = EmptyIndex /\ builders = [p \in Builders |-> IdleBuilder]
    BY <1>1 DEF DatasetInit
  <2>4. FilesOK /\ IndexOK
    <3> HIDE DEF EmptyIndex
    <3> QED
      BY <2>2, <2>3 DEF FilesOK, IndexOK, RecordsOK, KeptIn
  <2>5. \A p \in Builders : ~Working(p)
    BY <2>3 DEF Working, IdleBuilder
  <2>6. \A p \in Builders : BuilderOK(builders[p], builtFiles, Exempt, disturbed)
    BY <2>3, IdleIsOK, DatasetAssumption
  <2>7. builders = [p \in Builders |-> builders[p]]
    BY <2>3
  <2> QED
    BY <2>1, <2>4, <2>5, <2>6, <2>7 DEF DatasetInv, Apart
<1>2. DatasetInv /\ UNCHANGED datasetVars => DatasetInv'
  <2> SUFFICES ASSUME DatasetInv, UNCHANGED datasetVars PROVE DatasetInv'
    OBVIOUS
  <2>1. UNCHANGED <<sources, builtFiles, index, builders, datasetBuilds, disturbed, sourceChanges>>
    BY DEF datasetVars
  <2>2. Exempt' = Exempt
    BY <2>1 DEF Exempt, Working
  <2> QED
    BY <2>1, <2>2 DEF DatasetInv, SourcesOK, FilesOK, Apart, IndexOK, Working
<1>3. DatasetInv /\ DatasetNext => DatasetInv'
  BY DatasetAssumption, BuildBegins, BuildStored, IndexLoaded, IndexPersisted, BuilderCrashes, SourceChanges
     DEF DatasetNext
<1> QED
  BY <1>1, <1>2, <1>3, PTL DEF DatasetSpec

\* The sources, the files, the index and the builders keep their types, for every number
\* of builders and builds.
THEOREM DatasetTypesHold == DatasetSpec => []DatasetTypeOK
<1>1. ASSUME DatasetInv PROVE DatasetTypeOK
  <2>1. \A id \in DOMAIN builtFiles : builtFiles[id] \in FilesType
    BY <1>1 DEF DatasetInv, FilesOK
  <2>2. \A id \in DOMAIN index.builds : index.builds[id] \in BuildType
    BY <1>1 DEF DatasetInv, IndexOK, RecordsOK, BuildOf
  <2>3. \A p \in Builders : builders[p].build \in BuildType
                            /\ builders[p].pc \in {"idle", "files", "rows", "metadata", "load", "persist"}
    BY <1>1 DEF DatasetInv, BuilderOK, BuilderStages
  <2> QED
    BY <1>1, <2>1, <2>2, <2>3 DEF DatasetInv, SourcesOK, DatasetTypeOK
<1> QED
  BY <1>1, DatasetSteps, PTL

\* No task without a license that allows it contributed to a build that is ready for sale,
\* for all sources, tasks and rows (classifyBuild).
THEOREM ReadyIsClearedHolds == DatasetSpec => []ReadyIsCleared
<1>1. DatasetInv => ReadyIsCleared
  BY DEF DatasetInv, IndexOK, RecordsOK, BuildOf, ReadyIsCleared
<1> QED
  BY <1>1, DatasetSteps, PTL

\* A file of rows that was written to its end under a computed id holds the rows that were
\* indexed, over any number of builds that overlap and are cut off in the middle of a file
\* (computeBuildId, writeDatasetJsonl).
THEOREM SameIdSameRowsHolds == DatasetSpec => []SameIdSameRows
<1>1. DatasetInv => SameIdSameRows
  BY DEF DatasetInv, IndexOK, FilesOK, RowsFit, RecordsOK, BuildOf, SameIdSameRows
<1> QED
  BY <1>1, DatasetSteps, PTL

\* What an index that can be read offers is on the disk, whole and ready, unless the last build
\* of its id is under way, overlapped another or was cut off
\* (resolveLatestCommercializationReadyBuild).
THEOREM OfferedIsReadyHolds == DatasetSpec => []OfferedIsReady
<1>1. DatasetInv => OfferedIsReady
  BY DEF DatasetInv, IndexOK, KeptIn, Agrees, Verdict, Exempt, OfferedIsReady
<1> QED
  BY <1>1, DatasetSteps, PTL
-----------------------------------------------------------------------------
(* Bridge jobs: BridgeJobs.                                                   *)

-----------------------------------------------------------------------------
(* Types.                                                                   *)

LEMMA BridgeNumbers == MaxJobs \in Nat /\ MaxCancels \in Nat /\ MaxJobStarts \in Nat /\ 1 \in 0..MaxJobStarts
BY BridgeAssumption DEF BridgeAssumption

WritingType == [phase : {"none", "writing", "renaming"}, jobs : [Jobs -> JobStatuses]]

BridgeShape ==
  /\ jobs \in [Jobs -> JobStatuses] /\ writes \in [Callers -> WritingType]
  /\ storedJobs \in [Jobs -> JobStatuses] \union {Torn}
  /\ temporary \in [Jobs -> JobStatuses] \union {Torn, NoFile}

\* The store is changed only by a call that then writes it.
LEMMA Updated ==
  ASSUME BridgeShape, NEW c \in Callers, NEW j, NEW status \in JobStatuses, UpdateStatus(c, j, status)
  PROVE  /\ jobs' \in [Jobs -> JobStatuses] /\ writes' \in [Callers -> WritingType]
         /\ \A i \in Jobs : i # j => jobs'[i] = jobs[i]
         /\ j \in Jobs => jobs'[j] = status
         /\ \A d \in Callers : d # c => writes'[d] = writes[d]
         /\ writes'[c].phase = "writing" /\ writes'[c].jobs = jobs'
         /\ overlapped' = ~Alone(c)
<1>1. jobs' = [jobs EXCEPT ![j] = status] /\ overlapped' = ~Alone(c)
      /\ writes' = [writes EXCEPT ![c] = [phase |-> "writing", jobs |-> jobs']]
  BY DEF UpdateStatus
<1>2. jobs' \in [Jobs -> JobStatuses]
  BY <1>1 DEF BridgeShape
<1>3. [phase |-> "writing", jobs |-> jobs'] \in WritingType
  BY <1>2 DEF WritingType
<1> QED
  BY <1>1, <1>2, <1>3 DEF BridgeShape

LEMMA WriteStep ==
  ASSUME BridgeShape, NEW c \in Callers, WriteTemporary(c)
  PROVE  /\ BridgeShape' /\ writes[c].phase = "writing"
         /\ writes'[c].phase = "renaming" /\ writes'[c].jobs = writes[c].jobs
         /\ \A d \in Callers : d # c => writes'[d] = writes[d]
         /\ temporary' = writes[c].jobs \/ ~Alone(c)
         /\ UNCHANGED <<jobs, worker, storedJobs, inbox, withdrawn, overlapped>>
<1>1. writes[c] \in WritingType /\ writes[c].phase = "writing"
      /\ writes' = [writes EXCEPT ![c] = [writes[c] EXCEPT !.phase = "renaming"]]
  BY DEF BridgeShape, WriteTemporary
<1>2. /\ [writes[c] EXCEPT !.phase = "renaming"] \in WritingType
      /\ [writes[c] EXCEPT !.phase = "renaming"].phase = "renaming"
      /\ [writes[c] EXCEPT !.phase = "renaming"].jobs = writes[c].jobs
  BY <1>1 DEF WritingType
<1>3. writes' \in [Callers -> WritingType] /\ writes'[c] = [writes[c] EXCEPT !.phase = "renaming"]
      /\ \A d \in Callers : d # c => writes'[d] = writes[d]
  BY <1>1, <1>2 DEF BridgeShape
<1>4. temporary' \in [Jobs -> JobStatuses] \union {Torn, NoFile}
      /\ (temporary' = writes[c].jobs \/ ~Alone(c))
  BY <1>1 DEF WriteTemporary, WritingType, Alone
<1> QED
  BY <1>1, <1>2, <1>3, <1>4 DEF BridgeShape, WriteTemporary

LEMMA NoWritingType == NoWriting \in WritingType /\ NoWriting.phase = "none"
BY DEF NoWriting, WritingType, NoJobs, JobStatuses

LEMMA RenameStep ==
  ASSUME BridgeShape, NEW c \in Callers, RenameTemporary(c)
  PROVE  /\ BridgeShape' /\ writes[c].phase = "renaming" /\ storedJobs' = temporary
         /\ writes'[c].phase = "none" /\ \A d \in Callers : d # c => writes'[d] = writes[d]
         /\ UNCHANGED <<jobs, inbox, withdrawn, overlapped>>
<1>1. writes' = [writes EXCEPT ![c] = NoWriting]
  BY DEF RenameTemporary
<1>2. writes' \in [Callers -> WritingType] /\ writes'[c].phase = "none"
      /\ \A d \in Callers : d # c => writes'[d] = writes[d]
  BY <1>1, NoWritingType DEF BridgeShape
<1> QED
  BY <1>2 DEF RenameTemporary, BridgeShape

LEMMA FailStep ==
  ASSUME BridgeShape, NEW c \in Callers, WriteFails(c)
  PROVE  /\ BridgeShape' /\ overlapped' = TRUE /\ UNCHANGED <<inbox, withdrawn>>
         /\ \/ UNCHANGED jobs /\ worker' \in {worker, Resting}
            \/ /\ jobs' = [jobs EXCEPT ![worker.job] = "failed"]
               /\ worker' = [worker EXCEPT !.pc = "failing"]
<1>1. CASE c = Worker /\ worker.pc = "finishing"
  <2>1. /\ jobs' = [jobs EXCEPT ![worker.job] = "failed"]
        /\ writes' = [writes EXCEPT ![c] = [phase |-> "writing", jobs |-> jobs']]
        /\ worker' = [worker EXCEPT !.pc = "failing"]
    BY <1>1 DEF WriteFails
  <2>2. jobs' \in [Jobs -> JobStatuses]
    BY <2>1 DEF BridgeShape, JobStatuses
  <2>3. [phase |-> "writing", jobs |-> jobs'] \in WritingType
    BY <2>2 DEF WritingType
  <2>4. writes' \in [Callers -> WritingType]
    BY <2>1, <2>3 DEF BridgeShape
  <2> QED
    BY <2>1, <2>2, <2>4 DEF WriteFails, BridgeShape
<1>2. CASE ~(c = Worker /\ worker.pc = "finishing")
  <2>1. writes' = [writes EXCEPT ![c] = NoWriting] /\ UNCHANGED jobs /\ worker' \in {worker, Resting}
    BY <1>2 DEF WriteFails
  <2>2. writes' \in [Callers -> WritingType]
    BY <2>1, NoWritingType DEF BridgeShape
  <2> QED
    BY <2>1, <2>2 DEF WriteFails, BridgeShape
<1> QED
  BY <1>1, <1>2

\* A status that changes is written by the request or by the worker that changes it;
\* every other step of theirs leaves the store alone.
LEMMA StoreSteps ==
  ASSUME MaxJobs \in Nat, BridgeShape,
         \/ CreateJob \/ TakeJob \/ DeliverJob \/ EndJob
         \/ \E j \in Jobs : CancelJob(j)
  PROVE  /\ UNCHANGED <<storedJobs, temporary>>
         /\ \/ UNCHANGED <<jobs, writes, overlapped>>
            \/ \E c \in Callers, j \in Jobs \union {worker.job, Head(queue)}, status \in JobStatuses :
                 UpdateStatus(c, j, status)
<1>1. Jobs \subseteq Callers /\ Worker \in Callers /\ Cancellation \in Callers
  BY DEF Jobs, Callers, Worker, Cancellation
<1>2. {"queued", "running", "succeeded", "failed", "cancelled"} \subseteq JobStatuses
  BY DEF JobStatuses
<1>3. CASE CreateJob
  <2>1. PICK j \in Jobs : UpdateStatus(j, j, "queued")
    BY <1>3 DEF CreateJob
  <2> QED
    BY <1>1, <1>2, <1>3, <2>1 DEF CreateJob
<1>4. CASE TakeJob
  <2>1. \/ UNCHANGED <<jobs, writes, overlapped>>
        \/ UpdateStatus(Worker, Head(queue), "running")
    BY <1>4 DEF TakeJob
  <2> QED
    BY <1>1, <1>2, <1>4, <2>1 DEF TakeJob
<1>5. CASE DeliverJob
  <2>1. \/ UNCHANGED <<jobs, writes, overlapped>>
        \/ \E status \in {"succeeded", "failed"} : UpdateStatus(Worker, worker.job, status)
    BY <1>5 DEF DeliverJob
  <2> QED
    BY <1>1, <1>2, <1>5, <2>1 DEF DeliverJob
<1>6. CASE EndJob
  <2>1. \/ UNCHANGED <<jobs, writes, overlapped>>
        \/ UpdateStatus(Worker, worker.job, "failed")
    BY <1>6 DEF EndJob
  <2> QED
    BY <1>1, <1>2, <1>6, <2>1 DEF EndJob
<1>7. ASSUME NEW j \in Jobs, CancelJob(j)
      PROVE  UNCHANGED <<storedJobs, temporary>> /\ UpdateStatus(Cancellation, j, "cancelled")
  BY <1>7 DEF CancelJob
<1> QED
  BY <1>1, <1>2, <1>3, <1>4, <1>5, <1>6, <1>7

LEMMA RestartStep ==
  ASSUME BridgeShape, BridgeRestart
  PROVE  /\ BridgeShape' /\ storedJobs' = jobs' /\ \A c \in Callers : writes'[c].phase = "none"
         /\ withdrawn' = {} /\ inbox' = {} /\ worker' = Resting
<1>1. Recovered \in [Jobs -> JobStatuses]
  BY DEF Recovered, BridgeShape, NoJobs, JobStatuses
<1>2. jobs' = Recovered /\ storedJobs' = Recovered /\ temporary' = NoFile
      /\ writes' = [c \in Callers |-> NoWriting]
  BY DEF BridgeRestart
<1> QED
  BY <1>1, <1>2, NoWritingType DEF BridgeRestart, BridgeShape

LEMMA BridgeShapeInit == BridgeInit => BridgeShape
BY NoWritingType DEF BridgeInit, BridgeShape, NoJobs, JobStatuses

LEMMA BridgeShapeStep == MaxJobs \in Nat /\ BridgeShape /\ [BridgeNext]_bridgeVars => BridgeShape'
<1> SUFFICES ASSUME MaxJobs \in Nat, BridgeShape, [BridgeNext]_bridgeVars PROVE BridgeShape'
  OBVIOUS
<1>1. CASE UNCHANGED bridgeVars
  BY <1>1 DEF bridgeVars, BridgeShape
<1>2. CASE \/ CreateJob \/ TakeJob \/ DeliverJob \/ EndJob
           \/ \E j \in Jobs : CancelJob(j)
  <2>1. UNCHANGED <<storedJobs, temporary>>
    BY <1>2, StoreSteps
  <2>2. CASE UNCHANGED <<jobs, writes, overlapped>>
    BY <2>1, <2>2 DEF BridgeShape
  <2>3. CASE \E c \in Callers, j \in Jobs \union {worker.job, Head(queue)}, status \in JobStatuses :
               UpdateStatus(c, j, status)
    BY <2>1, <2>3, Updated DEF BridgeShape
  <2> QED
    BY <1>2, <2>2, <2>3, StoreSteps
<1> QED
  BY <1>1, <1>2, RestartStep, WriteStep, RenameStep, FailStep DEF BridgeNext
-----------------------------------------------------------------------------
(* The file.                                                                *)

\* The writing that began last, if it was alone, is still the only one, and takes what
\* is in memory to the file.
FileInv ==
  ~overlapped =>
    \/ (\A c \in Callers : writes[c].phase = "none") /\ storedJobs = jobs
    \/ \E c \in Callers : /\ Alone(c) /\ writes[c].phase # "none" /\ writes[c].jobs = jobs
                          /\ writes[c].phase = "renaming" => temporary = jobs

LEMMA OnlyWriting ==
  ASSUME FileInv, ~overlapped, NEW c \in Callers, writes[c].phase \in {"writing", "renaming"}
  PROVE  Alone(c) /\ writes[c].jobs = jobs /\ (writes[c].phase = "renaming" => temporary = jobs)
<1>1. PICK d \in Callers : /\ Alone(d) /\ writes[d].phase # "none" /\ writes[d].jobs = jobs
                           /\ writes[d].phase = "renaming" => temporary = jobs
  BY DEF FileInv
<1>2. d = c
  BY <1>1 DEF Alone
<1> QED
  BY <1>1, <1>2

LEMMA FileStep == MaxJobs \in Nat /\ BridgeShape /\ FileInv /\ [BridgeNext]_bridgeVars => FileInv'
<1> SUFFICES ASSUME MaxJobs \in Nat, BridgeShape, FileInv, [BridgeNext]_bridgeVars, ~overlapped'
             PROVE  \/ (\A c \in Callers : writes'[c].phase = "none") /\ storedJobs' = jobs'
                    \/ \E c \in Callers : /\ Alone(c)' /\ writes'[c].phase # "none" /\ writes'[c].jobs = jobs'
                                          /\ writes'[c].phase = "renaming" => temporary' = jobs'
  BY DEF FileInv
<1>1. CASE UNCHANGED <<jobs, writes, overlapped, storedJobs, temporary>>
  <2>1. \A c \in Callers : Alone(c) => Alone(c)'
    BY <1>1 DEF Alone
  <2>2. CASE (\A c \in Callers : writes[c].phase = "none") /\ storedJobs = jobs
    BY <1>1, <2>2
  <2>3. ASSUME NEW c \in Callers, Alone(c), writes[c].phase # "none", writes[c].jobs = jobs,
               writes[c].phase = "renaming" => temporary = jobs
        PROVE  /\ Alone(c)' /\ writes'[c].phase # "none" /\ writes'[c].jobs = jobs'
               /\ writes'[c].phase = "renaming" => temporary' = jobs'
    BY <1>1, <2>1, <2>3
  <2> QED
    BY <1>1, <2>2, <2>3 DEF FileInv
<1>2. CASE \/ CreateJob \/ TakeJob \/ DeliverJob \/ EndJob
           \/ \E j \in Jobs : CancelJob(j)
  <2>1. UNCHANGED <<storedJobs, temporary>>
    BY <1>2, StoreSteps
  <2>2. ASSUME NEW c \in Callers, NEW j, NEW status \in JobStatuses, UpdateStatus(c, j, status)
        PROVE  Alone(c)' /\ writes'[c].phase = "writing" /\ writes'[c].jobs = jobs'
    <3>1. /\ Alone(c) /\ \A d \in Callers : d # c => writes'[d] = writes[d]
          /\ writes'[c].phase = "writing" /\ writes'[c].jobs = jobs'
      BY <2>2, Updated
    <3> QED
      BY <3>1 DEF Alone
  <2>3. CASE UNCHANGED <<jobs, writes, overlapped>>
    BY <1>1, <2>1, <2>3
  <2> QED
    BY <1>2, <2>2, <2>3, StoreSteps
<1>3. ASSUME NEW c \in Callers, WriteTemporary(c)
      PROVE  /\ Alone(c)' /\ writes'[c].phase # "none" /\ writes'[c].jobs = jobs'
             /\ writes'[c].phase = "renaming" => temporary' = jobs'
  <2>1. /\ ~overlapped /\ UNCHANGED jobs /\ writes[c].phase = "writing"
        /\ writes'[c].phase = "renaming" /\ writes'[c].jobs = writes[c].jobs
        /\ \A d \in Callers : d # c => writes'[d] = writes[d]
        /\ temporary' = writes[c].jobs \/ ~Alone(c)
    BY <1>3, WriteStep
  <2>2. Alone(c) /\ writes[c].jobs = jobs
    BY <2>1, OnlyWriting
  <2> QED
    BY <2>1, <2>2 DEF Alone
<1>4. ASSUME NEW c \in Callers, RenameTemporary(c)
      PROVE  (\A d \in Callers : writes'[d].phase = "none") /\ storedJobs' = jobs'
  <2>1. /\ ~overlapped /\ UNCHANGED jobs /\ writes[c].phase = "renaming" /\ storedJobs' = temporary
        /\ writes'[c].phase = "none" /\ \A d \in Callers : d # c => writes'[d] = writes[d]
    BY <1>4, RenameStep
  <2>2. Alone(c) /\ temporary = jobs
    BY <2>1, OnlyWriting
  <2> QED
    BY <2>1, <2>2 DEF Alone
<1>5. ASSUME NEW c \in Callers, WriteFails(c) PROVE FALSE
  BY <1>5, FailStep
<1> QED
  BY <1>1, <1>2, <1>3, <1>4, <1>5, RestartStep DEF BridgeNext, bridgeVars

\* Once the last writing has ended, and was alone, the file holds what the memory holds:
\* for every number of jobs and starts (persist, writeJsonFile).
THEOREM StoredWhenAloneHolds == BridgeSpec => []StoredWhenAlone
<1>1. BridgeInit => FileInv
  BY NoWritingType DEF BridgeInit, FileInv
<1>2. FileInv => StoredWhenAlone
  BY DEF FileInv, StoredWhenAlone
<1>3. BridgeShape /\ FileInv /\ [BridgeNext]_bridgeVars => BridgeShape' /\ FileInv'
  BY BridgeShapeStep, FileStep, BridgeNumbers
<1> QED
  BY <1>1, <1>2, <1>3, BridgeShapeInit, PTL DEF BridgeSpec
-----------------------------------------------------------------------------
(* Withdrawn jobs.                                                          *)

Begun == {j \in Jobs : jobs[j] \notin {"queued", "absent"}}

\* A withdrawn job stays cancelled and the worker does not have it; what the worker has
\* and what was delivered is not queued any more.
WithdrawnInv ==
  /\ "job" \in DOMAIN worker
  /\ withdrawn \subseteq Jobs /\ \A j \in withdrawn : jobs[j] = "cancelled" /\ worker.job # j /\ j \notin inbox
  /\ worker.job \in Jobs => worker.job \in Begun
  /\ \A j \in inbox : j \in Jobs => j \in Begun

\* A step that changes the status of one job that is not withdrawn, and no other.
LEMMA WithdrawnKept ==
  ASSUME WithdrawnInv, NEW k, k \notin withdrawn, withdrawn' = withdrawn,
         \A j \in Jobs : j # k => jobs'[j] = jobs[j],
         k \in Jobs => \/ k \in Begun' \/ jobs'[k] = jobs[k]
                       \/ jobs[k] = "absent" /\ worker' = worker /\ inbox' = inbox,
         "job" \in DOMAIN worker',
         \/ worker'.job = worker.job
         \/ worker'.job = 0
         \/ worker'.job = k /\ (k \in Jobs => k \in Begun'),
         inbox' \in {inbox, inbox \union {worker.job}}
  PROVE  WithdrawnInv'
<1>1. \A j \in withdrawn : jobs'[j] = "cancelled" /\ worker'.job # j /\ j \notin inbox'
  <2>1. 0 \notin Jobs
    BY DEF Jobs
  <2> QED
    BY <2>1 DEF WithdrawnInv
<1>2. worker'.job \in Jobs => worker'.job \in Begun'
  <2>1. 0 \notin Jobs
    BY DEF Jobs
  <2> QED
    BY <2>1 DEF WithdrawnInv, Begun
<1>3. \A j \in inbox' : j \in Jobs => j \in Begun'
  BY DEF WithdrawnInv, Begun
<1> QED
  BY <1>1, <1>2, <1>3 DEF WithdrawnInv

LEMMA WorkerMoves ==
  ASSUME "job" \in DOMAIN worker, NEW pc, worker' = [worker EXCEPT !.pc = pc]
  PROVE  "job" \in DOMAIN worker' /\ worker'.job = worker.job
OBVIOUS

LEMMA WorkerRests ==
  ASSUME worker' = Resting PROVE "job" \in DOMAIN worker' /\ worker'.job = 0
BY DEF Resting

LEMMA WithdrawnStep == MaxJobs \in Nat /\ BridgeShape /\ WithdrawnInv /\ [BridgeNext]_bridgeVars => WithdrawnInv'
<1> SUFFICES ASSUME MaxJobs \in Nat, BridgeShape, WithdrawnInv, [BridgeNext]_bridgeVars PROVE WithdrawnInv'
  OBVIOUS
<1>1. Jobs \subseteq Callers /\ Worker \in Callers /\ Cancellation \in Callers
  BY DEF Jobs, Callers, Worker, Cancellation
<1>2. {"queued", "running", "succeeded", "failed", "cancelled"} \subseteq JobStatuses
  BY DEF JobStatuses
<1>3. worker.job \notin withdrawn /\ "job" \in DOMAIN worker
  BY DEF WithdrawnInv
<1>4. CASE UNCHANGED <<jobs, worker, inbox, withdrawn>>
  BY <1>4 DEF WithdrawnInv, Begun
<1>5. CASE CreateJob
  <2>1. PICK j \in Jobs : jobs[j] = "absent" /\ UpdateStatus(j, j, "queued")
    BY <1>5 DEF CreateJob
  <2>2. \A i \in Jobs : i # j => jobs'[i] = jobs[i]
    BY <1>1, <1>2, <2>1, Updated
  <2>3. j \notin withdrawn /\ UNCHANGED <<worker, inbox, withdrawn>>
    BY <1>5, <2>1 DEF WithdrawnInv, CreateJob
  <2> QED
    BY <1>3, <2>1, <2>2, <2>3, WithdrawnKept
<1>6. ASSUME NEW j \in Jobs, CancelJob(j) PROVE WithdrawnInv'
  <2>1. /\ UNCHANGED <<worker, inbox>> /\ jobs[j] # "absent"
        /\ withdrawn' = IF jobs[j] = "queued" THEN withdrawn \union {j} ELSE withdrawn
    BY <1>6 DEF CancelJob
  <2>2. jobs'[j] = "cancelled" /\ \A i \in Jobs : i # j => jobs'[i] = jobs[i]
    BY <1>1, <1>2, <1>6, Updated DEF CancelJob
  <2>3. jobs[j] = "queued" => worker.job # j /\ j \notin inbox
    BY DEF WithdrawnInv, Begun
  <2> QED
    BY <2>1, <2>2, <2>3 DEF WithdrawnInv, Begun
<1>7. CASE TakeJob
  <2> DEFINE h == Head(queue)
  <2>1. CASE /\ Runnable(h) /\ worker' = [pc |-> "starting", job |-> h]
             /\ UpdateStatus(Worker, h, "running") /\ UNCHANGED <<inbox, withdrawn>>
    <3>1. h \notin withdrawn
      BY <2>1 DEF Runnable, WithdrawnInv
    <3>2. (\A i \in Jobs : i # h => jobs'[i] = jobs[i]) /\ (h \in Jobs => jobs'[h] = "running")
      BY <1>1, <1>2, <2>1, Updated
    <3> HIDE DEF h
    <3>3. worker'.job = h /\ "job" \in DOMAIN worker' /\ (h \in Jobs => h \in Begun')
      BY <2>1, <3>2 DEF Begun
    <3> QED
      BY <2>1, <3>1, <3>2, <3>3, WithdrawnKept
  <2> QED
    BY <1>4, <1>7, <2>1 DEF TakeJob
<1>8. ASSUME UNCHANGED withdrawn, inbox' \in {inbox, inbox \union {worker.job}},
             worker' = Resting \/ (\E pc \in {"finishing", "failing"} : worker' = [worker EXCEPT !.pc = pc]),
             \/ UNCHANGED jobs
             \/ \E status \in {"succeeded", "failed"} : jobs' = [jobs EXCEPT ![worker.job] = status]
      PROVE  WithdrawnInv'
  <2>1. "job" \in DOMAIN worker' /\ worker'.job \in {worker.job, 0}
    BY <1>3, <1>8, WorkerMoves, WorkerRests
  <2>2. /\ \A i \in Jobs : i # worker.job => jobs'[i] = jobs[i]
        /\ worker.job \in Jobs => worker.job \in Begun' \/ jobs'[worker.job] = jobs[worker.job]
    BY <1>8 DEF BridgeShape, Begun
  <2> QED
    BY <1>3, <1>8, <2>1, <2>2, WithdrawnKept
<1>9. CASE DeliverJob
  <2>1. worker' = Resting \/ (\E pc \in {"finishing", "failing"} : worker' = [worker EXCEPT !.pc = pc])
    BY <1>9 DEF DeliverJob
  <2>2. \/ UNCHANGED jobs
        \/ \E status \in {"succeeded", "failed"} : jobs' = [jobs EXCEPT ![worker.job] = status]
    BY <1>9 DEF DeliverJob, UpdateStatus
  <2>3. UNCHANGED withdrawn /\ inbox' \in {inbox, inbox \union {worker.job}}
    BY <1>9 DEF DeliverJob
  <2> QED
    BY <1>8, <2>1, <2>2, <2>3
<1>10. CASE EndJob
  <2>1. worker' = Resting \/ (\E pc \in {"finishing", "failing"} : worker' = [worker EXCEPT !.pc = pc])
    BY <1>10 DEF EndJob
  <2>2. \/ UNCHANGED jobs
        \/ \E status \in {"succeeded", "failed"} : jobs' = [jobs EXCEPT ![worker.job] = status]
    BY <1>10 DEF EndJob, UpdateStatus
  <2>3. UNCHANGED withdrawn /\ inbox' \in {inbox, inbox \union {worker.job}}
    BY <1>10 DEF EndJob
  <2> QED
    BY <1>8, <2>1, <2>2, <2>3
<1>11. ASSUME NEW c \in Callers, WriteFails(c) PROVE WithdrawnInv'
  <2>1. UNCHANGED <<inbox, withdrawn>>
    BY <1>11, FailStep
  <2>2. CASE UNCHANGED jobs /\ worker' \in {worker, Resting}
    BY <1>4, <1>8, <2>1, <2>2
  <2>3. CASE jobs' = [jobs EXCEPT ![worker.job] = "failed"] /\ worker' = [worker EXCEPT !.pc = "failing"]
    BY <1>8, <2>1, <2>3
  <2> QED
    BY <1>11, <2>2, <2>3, FailStep
<1>12. ASSUME NEW c \in Callers, RenameTemporary(c) PROVE WithdrawnInv'
  <2>1. UNCHANGED <<jobs, inbox, withdrawn>>
    BY <1>12, RenameStep
  <2>2. worker' = worker \/ \E pc : worker' = [worker EXCEPT !.pc = pc]
    BY <1>12 DEF RenameTemporary, Resume
  <2>3. "job" \in DOMAIN worker' /\ worker'.job = worker.job
    BY <1>3, <2>2, WorkerMoves
  <2> QED
    BY <2>1, <2>3 DEF WithdrawnInv, Begun
<1>13. CASE BridgeRestart
  BY <1>13, RestartStep, WorkerRests DEF WithdrawnInv, Jobs
<1>14. CASE \E c \in Callers : WriteTemporary(c)
  BY <1>4, <1>14, WriteStep
<1> QED
  BY <1>4, <1>5, <1>6, <1>7, <1>9, <1>10, <1>11, <1>12, <1>13, <1>14 DEF BridgeNext, bridgeVars

\* A job cancelled while it waits is not delivered, though it stays in the queue of the
\* worker: for every number of jobs and cancellations (cancelJob, processJob).
THEOREM WithdrawnNotDeliveredHolds == BridgeSpec => []WithdrawnNotDelivered
<1>1. BridgeInit => WithdrawnInv
  BY DEF BridgeInit, WithdrawnInv, Resting, Jobs
<1>2. WithdrawnInv => WithdrawnNotDelivered
  BY DEF WithdrawnInv, WithdrawnNotDelivered
<1>3. BridgeShape /\ WithdrawnInv /\ [BridgeNext]_bridgeVars => BridgeShape' /\ WithdrawnInv'
  BY BridgeShapeStep, WithdrawnStep, BridgeNumbers
<1> QED
  BY <1>1, <1>2, <1>3, BridgeShapeInit, PTL DEF BridgeSpec
-----------------------------------------------------------------------------
(* Forgotten jobs.                                                          *)

WorkerType ==
  [pc : {"resting", "starting", "delivering", "finishing", "failing", "finished", "failed"}, job : Jobs \union {0}]

BridgeRest ==
  /\ queue \in Seq(Jobs) /\ looping \in BOOLEAN /\ worker \in WorkerType
  /\ inbox \subseteq Jobs /\ stranded \subseteq Jobs /\ withdrawn \subseteq Jobs /\ overlapped \in BOOLEAN
  /\ cancels \in 0..MaxCancels /\ jobStarts \in 0..MaxJobStarts

\* The worker has a job unless it rests, it writes before it goes on, and once it has
\* delivered its job, or has failed to, that job does not run any more.
WorkerKept ==
  /\ worker.pc = "resting" <=> worker.job = 0
  /\ writes[Worker].phase # "none" => worker.pc \in {"starting", "finishing", "failing"}
  /\ worker.pc \in {"finishing", "failing", "finished", "failed"} => jobs[worker.job] # "running"

BridgeKept == BridgeShape /\ BridgeRest /\ WorkerKept /\ NoneForgotten

LEMMA BridgeTypeParts == BridgeTypeOK <=> BridgeShape /\ BridgeRest
BY DEF BridgeTypeOK, BridgeShape, BridgeRest, WritingType, WorkerType

LEMMA CallersApart ==
  /\ Jobs \subseteq Callers /\ Worker \in Callers /\ Cancellation \in Callers
  /\ Worker \notin Jobs /\ Cancellation \notin Jobs /\ Cancellation # Worker /\ 0 \notin Jobs
BY BridgeNumbers DEF Jobs, Callers, Worker, Cancellation

LEMMA JobStatusNames == {"absent", "queued", "running", "succeeded", "failed", "cancelled"} = JobStatuses
BY DEF JobStatuses

LEMMA RestingType == Resting \in WorkerType /\ Resting.pc = "resting" /\ Resting.job = 0
BY DEF Resting, WorkerType

LEMMA WorkerGoes ==
  ASSUME worker \in WorkerType, worker.pc # "resting",
         NEW pc \in {"starting", "delivering", "finishing", "failing", "finished", "failed"},
         worker' = [worker EXCEPT !.pc = pc]
  PROVE  worker' \in WorkerType /\ worker'.pc = pc /\ worker'.job = worker.job
BY DEF WorkerType

LEMMA WorkerHasJob ==
  ASSUME BridgeRest, WorkerKept, worker.pc # "resting"
  PROVE  worker.job \in Jobs
BY DEF BridgeRest, WorkerKept, WorkerType

\* A status other than running that is written for a job, whoever writes it.
LEMMA StatusSet ==
  ASSUME BridgeKept, NEW c \in Callers, NEW j \in Jobs, NEW status \in JobStatuses \ {"running"},
         UpdateStatus(c, j, status), worker' = worker, queue' = queue, stranded' = stranded,
         status = "queued" => c = j, c # Worker
  PROVE  WorkerKept' /\ NoneForgotten'
<1>1. /\ \A i \in Jobs : i # j => jobs'[i] = jobs[i]
      /\ jobs'[j] = status
      /\ \A d \in Callers : d # c => writes'[d] = writes[d]
      /\ writes'[c].phase = "writing"
  BY Updated DEF BridgeKept
<1>2. writes'[Worker] = writes[Worker]
  BY <1>1, CallersApart
<1>3. ASSUME worker.pc \in {"finishing", "failing", "finished", "failed"}
      PROVE  jobs'[worker.job] # "running"
  <2>1. worker.job \in Jobs /\ jobs[worker.job] # "running"
    BY <1>3, WorkerHasJob DEF BridgeKept, WorkerKept
  <2> QED
    BY <1>1, <2>1
<1>4. WorkerKept'
  BY <1>2, <1>3 DEF BridgeKept, WorkerKept
<1>5. \A d \in Jobs : writes[d].phase # "none" => writes'[d].phase # "none"
  BY <1>1, CallersApart
<1>6. NoneForgotten'
  BY <1>1, <1>5 DEF BridgeKept, NoneForgotten, Contains
<1> QED
  BY <1>4, <1>6

LEMMA BridgeKeepsCreate == ASSUME BridgeKept, CreateJob PROVE BridgeRest' /\ WorkerKept' /\ NoneForgotten'
<1>1. PICK j \in Jobs : UpdateStatus(j, j, "queued")
  BY DEF CreateJob
<1>2. UNCHANGED <<queue, looping, worker, inbox, stranded, withdrawn, cancels, jobStarts>>
  BY DEF CreateJob
<1>3. overlapped' \in BOOLEAN
  BY <1>1, Zenon DEF UpdateStatus
<1>4. "queued" \in JobStatuses \ {"running"}
  BY JobStatusNames
<1>5. j \in Callers /\ j # Worker
  BY CallersApart
<1>6. WorkerKept' /\ NoneForgotten'
  BY <1>1, <1>2, <1>4, <1>5, StatusSet
<1> QED
  BY <1>2, <1>3, <1>6 DEF BridgeKept, BridgeRest

LEMMA BridgeKeepsCancel ==
  ASSUME BridgeKept, NEW j \in Jobs, CancelJob(j) PROVE BridgeRest' /\ WorkerKept' /\ NoneForgotten'
<1>1. UpdateStatus(Cancellation, j, "cancelled")
  BY DEF CancelJob
<1>2. UNCHANGED <<queue, looping, worker, inbox, stranded, jobStarts>> /\ withdrawn' \subseteq withdrawn \union {j}
      /\ cancels < MaxCancels /\ cancels' = cancels + 1
  BY DEF CancelJob
<1>3. overlapped' \in BOOLEAN
  BY <1>1, Zenon DEF UpdateStatus
<1>4. "cancelled" \in JobStatuses \ {"running"}
  BY JobStatusNames
<1>5. WorkerKept' /\ NoneForgotten'
  BY <1>1, <1>2, <1>4, CallersApart, StatusSet
<1> QED
  BY <1>2, <1>3, <1>5, BridgeNumbers DEF BridgeKept, BridgeRest

LEMMA BridgeKeepsTake == ASSUME BridgeKept, TakeJob PROVE BridgeRest' /\ WorkerKept' /\ NoneForgotten'
<1>1. /\ worker = Resting /\ queue \in Seq(Jobs)
      /\ UNCHANGED <<inbox, stranded, withdrawn, cancels, jobStarts>>
  BY DEF TakeJob, BridgeKept, BridgeRest
<1>2. CASE queue = <<>>
  <2>1. looping' = FALSE /\ UNCHANGED <<jobs, queue, worker, writes, overlapped>>
    BY <1>2 DEF TakeJob
  <2> QED
    BY <1>1, <2>1 DEF BridgeKept, BridgeRest, WorkerKept, NoneForgotten
<1>3. CASE queue # <<>>
  <2> DEFINE h == Head(queue)
  <2>1. queue' = Tail(queue) /\ UNCHANGED looping
    BY <1>3 DEF TakeJob
  <2>2. /\ h \in Jobs /\ queue' \in Seq(Jobs)
        /\ \A j \in Jobs \ {h} : Contains(queue, j) => Contains(queue', j)
    <3>1. h \in Jobs /\ queue' \in Seq(Jobs) /\ Len(queue') = Len(queue) - 1 /\ h = queue[1]
          /\ \A i \in 1..Len(queue') : queue'[i] = queue[i + 1]
      BY <1>1, <1>3, <2>1
    <3>2. ASSUME NEW j \in Jobs \ {h}, NEW i \in 1..Len(queue), queue[i] = j
          PROVE  \E k \in 1..Len(queue') : queue'[k] = j
      <4>1. i # 1
        BY <3>1, <3>2
      <4>2. i - 1 \in 1..Len(queue') /\ queue'[i - 1] = queue[(i - 1) + 1] /\ (i - 1) + 1 = i
        BY <1>1, <3>1, <4>1
      <4> QED
        BY <3>2, <4>2
    <3> QED
      BY <3>1, <3>2 DEF Contains
  <2> HIDE DEF h
  <2>3. CASE Runnable(h) /\ worker' = [pc |-> "starting", job |-> h] /\ UpdateStatus(Worker, h, "running")
    <3>1. "running" \in JobStatuses
      BY JobStatusNames
    <3>2. /\ \A i \in Jobs : i # h => jobs'[i] = jobs[i]
          /\ jobs'[h] = "running"
          /\ \A d \in Callers : d # Worker => writes'[d] = writes[d]
      BY <2>2, <2>3, <3>1, CallersApart, Updated DEF BridgeKept
    <3>3. overlapped' \in BOOLEAN
      BY <2>3, Zenon DEF UpdateStatus
    <3>4. worker' \in WorkerType /\ worker'.pc = "starting" /\ worker'.job = h
      BY <2>2, <2>3 DEF WorkerType
    <3>5. WorkerKept'
      BY <2>2, <3>4, CallersApart DEF WorkerKept
    <3>6. \A j \in Jobs : writes'[j] = writes[j]
      BY <3>2, CallersApart
    <3>7. \A j \in Jobs \ stranded : jobs[j] # "running"
      BY <1>1, RestingType, CallersApart DEF BridgeKept, NoneForgotten
    <3>8. NoneForgotten'
      BY <1>1, <2>2, <3>2, <3>4, <3>6, <3>7 DEF BridgeKept, NoneForgotten
    <3> QED
      BY <1>1, <2>1, <2>2, <3>3, <3>4, <3>5, <3>8 DEF BridgeKept, BridgeRest
  <2>4. CASE ~Runnable(h) /\ UNCHANGED <<jobs, worker, writes, overlapped>>
    <3>1. jobs[h] # "queued"
      BY <2>4 DEF Runnable
    <3>2. NoneForgotten'
      BY <1>1, <2>2, <2>4, <3>1 DEF BridgeKept, NoneForgotten
    <3> QED
      BY <1>1, <2>1, <2>2, <2>4, <3>2 DEF BridgeKept, BridgeRest, WorkerKept
  <2> QED
    BY <1>3, <2>3, <2>4 DEF TakeJob, h
<1> QED
  BY <1>2, <1>3

\* The worker gives its job a status that it keeps, and goes on to write it.
LEMMA WorkerEnds ==
  ASSUME BridgeKept, worker.pc # "resting",
         NEW status \in {"succeeded", "failed"}, jobs' = [jobs EXCEPT ![worker.job] = status],
         \A d \in Callers : d # Worker => writes'[d] = writes[d],
         NEW pc \in {"finishing", "failing"}, worker' = [worker EXCEPT !.pc = pc],
         UNCHANGED <<queue, stranded>>
  PROVE  worker' \in WorkerType /\ WorkerKept' /\ NoneForgotten'
<1>1. worker.job \in Jobs
  BY WorkerHasJob DEF BridgeKept
<1>2. worker' \in WorkerType /\ worker'.pc = pc /\ worker'.job = worker.job
  BY WorkerGoes DEF BridgeKept, BridgeRest
<1>3. jobs'[worker.job] = status /\ \A i \in Jobs : i # worker.job => jobs'[i] = jobs[i]
  BY <1>1 DEF BridgeKept, BridgeShape
<1>4. WorkerKept'
  BY <1>1, <1>2, <1>3, CallersApart DEF WorkerKept
<1>5. \A j \in Jobs : writes'[j] = writes[j]
  BY CallersApart
<1>6. NoneForgotten'
  BY <1>1, <1>2, <1>3, <1>5 DEF BridgeKept, NoneForgotten
<1> QED
  BY <1>2, <1>4, <1>6

\* The worker rests: the job it had is stranded, or does not run any more.
LEMMA WorkerStops ==
  ASSUME BridgeKept, worker' = Resting, UNCHANGED <<jobs, queue>>,
         \A j \in Jobs : writes'[j] = writes[j],
         writes'[Worker].phase = "none",
         stranded \subseteq stranded',
         worker.job \in stranded' \/ (worker.job \in Jobs => jobs[worker.job] # "running")
  PROVE  WorkerKept' /\ NoneForgotten'
<1>1. WorkerKept'
  BY RestingType DEF WorkerKept
<1>2. NoneForgotten'
  BY DEF BridgeKept, NoneForgotten
<1> QED
  BY <1>1, <1>2

LEMMA BridgeKeepsDeliver == ASSUME BridgeKept, DeliverJob PROVE BridgeRest' /\ WorkerKept' /\ NoneForgotten'
<1>1. /\ worker.pc = "delivering" /\ UNCHANGED <<queue, withdrawn, cancels, jobStarts>>
      /\ inbox' \in {inbox, inbox \union {worker.job}}
  BY DEF DeliverJob
<1>2. worker.job \in Jobs /\ writes[Worker].phase = "none"
  BY <1>1, WorkerHasJob DEF BridgeKept, WorkerKept
<1>3. inbox' \subseteq Jobs
  BY <1>1, <1>2 DEF BridgeKept, BridgeRest
<1>4. ASSUME NEW status \in {"succeeded", "failed"}, UpdateStatus(Worker, worker.job, status),
             NEW pc \in {"finishing", "failing"}, worker' = [worker EXCEPT !.pc = pc],
             UNCHANGED <<looping, stranded>>
      PROVE  BridgeRest' /\ WorkerKept' /\ NoneForgotten'
  <2>1. status \in JobStatuses
    BY JobStatusNames
  <2>2. \A d \in Callers : d # Worker => writes'[d] = writes[d]
    BY <1>2, <1>4, <2>1, CallersApart, Updated DEF BridgeKept
  <2>3. overlapped' \in BOOLEAN
    BY <1>4, Zenon DEF UpdateStatus
  <2>4. jobs' = [jobs EXCEPT ![worker.job] = status]
    BY <1>4 DEF UpdateStatus
  <2>5. worker' \in WorkerType /\ WorkerKept' /\ NoneForgotten'
    BY <1>1, <1>4, <2>2, <2>4, WorkerEnds
  <2> QED
    BY <1>1, <1>3, <1>4, <2>3, <2>5 DEF BridgeKept, BridgeRest
<1>5. ASSUME worker' = Resting, looping' = FALSE, stranded' = stranded \union {worker.job},
             UNCHANGED <<jobs, writes, overlapped>>
      PROVE  BridgeRest' /\ WorkerKept' /\ NoneForgotten'
  <2>1. WorkerKept' /\ NoneForgotten'
    BY <1>1, <1>2, <1>5, WorkerStops
  <2> QED
    BY <1>1, <1>2, <1>3, <1>5, <2>1, RestingType DEF BridgeKept, BridgeRest
<1> QED
  BY <1>4, <1>5 DEF DeliverJob

LEMMA BridgeKeepsEnd == ASSUME BridgeKept, EndJob PROVE BridgeRest' /\ WorkerKept' /\ NoneForgotten'
<1>1. worker.pc \in {"finished", "failed"} /\ UNCHANGED <<queue, inbox, stranded, withdrawn, cancels, jobStarts>>
  BY DEF EndJob
<1>2. worker.job \in Jobs /\ writes[Worker].phase = "none" /\ jobs[worker.job] # "running"
  BY <1>1, WorkerHasJob DEF BridgeKept, WorkerKept
<1>3. CASE /\ worker' = Resting /\ looping' \in {looping, looping /\ worker.pc = "finished"}
           /\ UNCHANGED <<jobs, writes, overlapped>>
  <2>1. WorkerKept' /\ NoneForgotten'
    BY <1>1, <1>2, <1>3, WorkerStops
  <2>2. looping' \in BOOLEAN
    BY <1>3, Zenon DEF BridgeKept, BridgeRest
  <2> QED
    BY <1>1, <1>3, <2>1, <2>2, RestingType DEF BridgeKept, BridgeRest
<1>4. CASE /\ worker' = [worker EXCEPT !.pc = "failing"] /\ UpdateStatus(Worker, worker.job, "failed")
           /\ UNCHANGED looping
  <2>1. "failed" \in JobStatuses
    BY JobStatusNames
  <2>2. \A d \in Callers : d # Worker => writes'[d] = writes[d]
    BY <1>2, <1>4, <2>1, CallersApart, Updated DEF BridgeKept
  <2>3. overlapped' \in BOOLEAN
    BY <1>4, Zenon DEF UpdateStatus
  <2>4. jobs' = [jobs EXCEPT ![worker.job] = "failed"]
    BY <1>4 DEF UpdateStatus
  <2>5. worker' \in WorkerType /\ WorkerKept' /\ NoneForgotten'
    BY <1>1, <1>4, <2>2, <2>4, WorkerEnds
  <2> QED
    BY <1>1, <1>4, <2>3, <2>5 DEF BridgeKept, BridgeRest
<1> QED
  BY <1>3, <1>4 DEF EndJob

LEMMA BridgeKeepsWrite ==
  ASSUME BridgeKept, NEW c \in Callers, WriteTemporary(c) PROVE BridgeRest' /\ WorkerKept' /\ NoneForgotten'
<1>1. /\ writes[c].phase = "writing" /\ writes'[c].phase = "renaming"
      /\ \A d \in Callers : d # c => writes'[d] = writes[d]
  BY WriteStep DEF BridgeKept
<1>2. UNCHANGED <<jobs, queue, looping, worker, inbox, stranded, withdrawn, overlapped, cancels, jobStarts>>
  BY DEF WriteTemporary
<1>3. \A d \in Callers : writes'[d].phase # "none" <=> writes[d].phase # "none"
  BY <1>1
<1>4. WorkerKept'
  BY <1>2, <1>3, CallersApart DEF BridgeKept, WorkerKept
<1>5. NoneForgotten'
  BY <1>2, <1>3, CallersApart DEF BridgeKept, NoneForgotten
<1> QED
  BY <1>2, <1>4, <1>5 DEF BridgeKept, BridgeRest

LEMMA BridgeKeepsRename ==
  ASSUME BridgeKept, NEW c \in Callers, RenameTemporary(c) PROVE BridgeRest' /\ WorkerKept' /\ NoneForgotten'
<1>1. /\ writes[c].phase = "renaming" /\ writes'[c].phase = "none"
      /\ \A d \in Callers : d # c => writes'[d] = writes[d]
      /\ UNCHANGED jobs
  BY RenameStep DEF BridgeKept
<1>2. /\ Resume(c) /\ UNCHANGED <<inbox, stranded, withdrawn, overlapped, cancels, jobStarts>>
      /\ queue \in Seq(Jobs)
  BY DEF RenameTemporary, BridgeKept, BridgeRest
<1>3. /\ queue' \in Seq(Jobs) /\ \A j \in Jobs : Contains(queue, j) => Contains(queue', j)
      /\ c \in Jobs => Contains(queue', c)
  <2>1. CASE c \in Jobs /\ ~Contains(queue, c)
    <3>1. queue' = Append(queue, c)
      BY <1>2, <2>1 DEF Resume, Enqueued
    <3>2. /\ queue' \in Seq(Jobs) /\ Len(queue') = Len(queue) + 1 /\ queue'[Len(queue) + 1] = c
          /\ \A i \in 1..Len(queue) : queue'[i] = queue[i]
      BY <1>2, <2>1, <3>1
    <3>3. Len(queue) \in Nat
      BY <1>2
    <3> QED
      BY <3>2, <3>3 DEF Contains
  <2>2. CASE ~(c \in Jobs /\ ~Contains(queue, c))
    BY <1>2, <2>2 DEF Resume, Enqueued
  <2> QED
    BY <2>1, <2>2
<1>4. /\ c # Worker => worker' = worker
      /\ c = Worker => /\ worker.pc # "resting" /\ worker' \in WorkerType /\ worker'.job = worker.job
                       /\ worker'.pc \in {"delivering", "finished", "failed"}
                       /\ worker'.pc \in {"finished", "failed"} => worker.pc \in {"finishing", "failing"}
  <2>1. ASSUME c = Worker
        PROVE  /\ worker.pc \in {"starting", "finishing", "failing"}
               /\ worker' = [worker EXCEPT !.pc = IF worker.pc = "starting" THEN "delivering"
                                                  ELSE IF worker.pc = "finishing" THEN "finished" ELSE "failed"]
    BY <1>1, <1>2, <2>1 DEF Resume, BridgeKept, WorkerKept
  <2>2. worker \in WorkerType
    BY DEF BridgeKept, BridgeRest
  <2> QED
    BY <1>2, <2>1, <2>2, WorkerGoes DEF Resume
<1>5. worker' \in WorkerType
  BY <1>4 DEF BridgeKept, BridgeRest
<1>6. WorkerKept'
  <2>1. CASE c = Worker
    BY <1>1, <1>4, <2>1 DEF BridgeKept, WorkerKept
  <2>2. CASE c # Worker
    BY <1>1, <1>4, <2>2, CallersApart DEF BridgeKept, WorkerKept
  <2> QED
    BY <2>1, <2>2
<1>7. NoneForgotten'
  <2>1. worker'.job = worker.job
    BY <1>4
  <2>2. \A j \in Jobs : j # c => writes'[j] = writes[j]
    BY <1>1, CallersApart
  <2> QED
    BY <1>1, <1>2, <1>3, <2>1, <2>2 DEF BridgeKept, NoneForgotten
<1>8. looping' \in BOOLEAN
  BY <1>2, Zenon DEF Resume
<1> QED
  BY <1>2, <1>3, <1>5, <1>6, <1>7, <1>8 DEF BridgeKept, BridgeRest

LEMMA BridgeKeepsFailure ==
  ASSUME BridgeKept, NEW c \in Callers, WriteFails(c) PROVE BridgeRest' /\ WorkerKept' /\ NoneForgotten'
<1>1. writes[c].phase # "none" /\ overlapped' = TRUE /\ UNCHANGED <<queue, inbox, withdrawn, cancels, jobStarts>>
  BY DEF WriteFails
<1>2. CASE c = Worker /\ worker.pc = "finishing"
  <2>1. /\ jobs' = [jobs EXCEPT ![worker.job] = "failed"] /\ UNCHANGED <<looping, stranded>>
        /\ writes' = [writes EXCEPT ![c] = [phase |-> "writing", jobs |-> jobs']]
        /\ worker' = [worker EXCEPT !.pc = "failing"]
    BY <1>2 DEF WriteFails
  <2>2. \A d \in Callers : d # Worker => writes'[d] = writes[d]
    BY <1>2, <2>1 DEF BridgeKept, BridgeShape
  <2>3. worker' \in WorkerType /\ WorkerKept' /\ NoneForgotten'
    BY <1>1, <1>2, <2>1, <2>2, WorkerEnds
  <2> QED
    BY <1>1, <2>1, <2>3 DEF BridgeKept, BridgeRest
<1>3. CASE ~(c = Worker /\ worker.pc = "finishing")
  <2>1. /\ writes' = [writes EXCEPT ![c] = NoWriting] /\ UNCHANGED jobs
        /\ stranded' = stranded \union (IF c = Worker THEN {worker.job} ELSE {c} \intersect Jobs)
        /\ looping' = (looping /\ c # Worker)
        /\ worker' = IF c = Worker THEN Resting ELSE worker
    BY <1>3 DEF WriteFails
  <2>2. writes'[c].phase = "none" /\ \A d \in Callers : d # c => writes'[d] = writes[d]
    BY <2>1, NoWritingType DEF BridgeKept, BridgeShape
  <2>3. looping' \in BOOLEAN
    BY <2>1, Zenon
  <2>4. CASE c = Worker
    <3>1. worker.pc # "resting" /\ worker.job \in Jobs
      BY <1>1, <2>4, WorkerHasJob DEF BridgeKept, WorkerKept
    <3>2. \A j \in Jobs : writes'[j] = writes[j]
      BY <2>2, <2>4, CallersApart
    <3>3. WorkerKept' /\ NoneForgotten'
      BY <1>1, <2>1, <2>2, <2>4, <3>2, WorkerStops
    <3> QED
      BY <1>1, <2>1, <2>3, <2>4, <3>1, <3>3, RestingType DEF BridgeKept, BridgeRest
  <2>5. CASE c # Worker
    <3>1. worker' = worker /\ stranded' = stranded \union ({c} \intersect Jobs)
      BY <2>1, <2>5
    <3>2. WorkerKept'
      BY <2>1, <2>2, <2>5, <3>1, CallersApart DEF BridgeKept, WorkerKept
    <3>3. NoneForgotten'
      BY <1>1, <2>1, <2>2, <3>1, CallersApart DEF BridgeKept, NoneForgotten
    <3> QED
      BY <1>1, <2>3, <3>1, <3>2, <3>3 DEF BridgeKept, BridgeRest
  <2> QED
    BY <2>4, <2>5
<1> QED
  BY <1>2, <1>3

LEMMA BridgeKeepsRestart == ASSUME BridgeKept, BridgeRestart PROVE BridgeRest' /\ WorkerKept' /\ NoneForgotten'
<1>1. /\ jobStarts < MaxJobStarts /\ jobStarts' = jobStarts + 1 /\ UNCHANGED cancels
      /\ inbox' = {} /\ stranded' = {} /\ withdrawn' = {} /\ overlapped' = FALSE
      /\ jobs' = Recovered /\ worker' = Resting
  BY DEF BridgeRestart
<1>2. PICK q \in SeqOf(Jobs, MaxJobs) : queue' = q /\ LastCreatedFirst(q, {j \in Jobs : jobs'[j] = "queued"})
  BY DEF BridgeRestart
<1>3. q \in Seq(Jobs)
  BY BridgeNumbers DEF SeqOf
<1>4. \A j \in Jobs : jobs'[j] # "running"
  BY <1>1 DEF Recovered, BridgeKept, BridgeShape, NoJobs
<1>5. \A j \in Jobs : jobs'[j] = "queued" => Contains(queue', j)
  <2>1. ToSet(q) = {j \in Jobs : jobs'[j] = "queued"}
    BY <1>2 DEF LastCreatedFirst
  <2>2. ToSet(q) = {q[i] : i \in 1..Len(q)}
    BY <1>3 DEF ToSet
  <2> QED
    BY <1>2, <2>1, <2>2 DEF Contains
<1>6. looping' \in BOOLEAN
  BY Zenon DEF BridgeRestart
<1>7. writes'[Worker].phase = "none"
  BY RestartStep, CallersApart DEF BridgeKept
<1>8. WorkerKept'
  BY <1>1, <1>7, RestingType DEF WorkerKept
<1>9. NoneForgotten'
  BY <1>4, <1>5 DEF NoneForgotten
<1>10. queue' \in Seq(Jobs) /\ worker' \in WorkerType
  BY <1>1, <1>2, <1>3, RestingType
<1>11. cancels' \in 0..MaxCancels /\ jobStarts' \in 0..MaxJobStarts
  BY <1>1, BridgeNumbers DEF BridgeKept, BridgeRest
<1>12. inbox' \subseteq Jobs /\ stranded' \subseteq Jobs /\ withdrawn' \subseteq Jobs /\ overlapped' \in BOOLEAN
  BY <1>1, Zenon
<1> QED
  BY <1>6, <1>8, <1>9, <1>10, <1>11, <1>12, Zenon DEF BridgeRest

LEMMA BridgeKeeps == BridgeKept /\ [BridgeNext]_bridgeVars => BridgeKept'
<1> SUFFICES ASSUME BridgeKept, [BridgeNext]_bridgeVars PROVE BridgeKept'
  OBVIOUS
<1>1. BridgeShape'
  BY BridgeShapeStep, BridgeNumbers DEF BridgeKept
<1>2. CASE UNCHANGED bridgeVars
  BY <1>1, <1>2 DEF bridgeVars, BridgeKept, BridgeRest, WorkerKept, NoneForgotten
<1>3. CASE BridgeNext
  BY <1>1, <1>3, BridgeKeepsCreate, BridgeKeepsCancel, BridgeKeepsTake, BridgeKeepsDeliver, BridgeKeepsEnd,
     BridgeKeepsWrite, BridgeKeepsRename, BridgeKeepsFailure, BridgeKeepsRestart DEF BridgeNext, BridgeKept
<1> QED
  BY <1>2, <1>3

LEMMA BridgeStarts == BridgeInit => BridgeKept
<1> SUFFICES ASSUME BridgeInit PROVE BridgeKept
  OBVIOUS
<1>1. BridgeRest
  <2>1. queue \in Seq(Jobs)
    <3>1. queue = <<>>
      BY DEF BridgeInit
    <3> QED
      BY <3>1
  <2>2. worker \in WorkerType /\ cancels \in 0..MaxCancels /\ jobStarts \in 0..MaxJobStarts
    BY RestingType, BridgeNumbers DEF BridgeInit
  <2>3. /\ looping \in BOOLEAN /\ overlapped \in BOOLEAN
        /\ inbox \subseteq Jobs /\ stranded \subseteq Jobs /\ withdrawn \subseteq Jobs
    BY Zenon DEF BridgeInit
  <2> QED
    BY <2>1, <2>2, <2>3, Zenon DEF BridgeRest
<1>2. writes[Worker].phase = "none"
  BY NoWritingType, CallersApart DEF BridgeInit
<1>3. WorkerKept
  BY <1>2, RestingType DEF BridgeInit, WorkerKept
<1>4. NoneForgotten
  BY DEF BridgeInit, NoneForgotten, NoJobs
<1> QED
  BY <1>1, <1>3, <1>4, BridgeShapeInit DEF BridgeKept

\* The jobs, the queue, the worker and the writings keep their types.
THEOREM BridgeTypes == BridgeSpec => []BridgeTypeOK
<1>1. BridgeKept => BridgeTypeOK
  BY BridgeTypeParts DEF BridgeKept
<1> QED
  BY <1>1, BridgeStarts, BridgeKeeps, PTL DEF BridgeSpec

\* A job waits in the queue or for the request that creates it, and a running job is the
\* one the worker has, unless an exception ended its request or its processing: for every
\* number of jobs, and after a restart too (init, enqueueQueuedJobs, runLoop).
THEOREM NoneForgottenHolds == BridgeSpec => []NoneForgotten
<1>1. BridgeKept => NoneForgotten
  BY DEF BridgeKept
<1> QED
  BY <1>1, BridgeStarts, BridgeKeeps, PTL DEF BridgeSpec

-----------------------------------------------------------------------------
(* The way of a request through the bridge: Gateway.                         *)

StreamType == [principal : Principals, open : BOOLEAN]
RequestType == [pc : {"idle", "reading", "hydrating", "handled", "refused"}, token : BearerTokens \union {"none"},
                as : Principals, allowed : SUBSET Methods, stream : Nat]

GatewayShape ==
  /\ bearer \in [BearerTokens -> {"live", "revoked", "expired"}] /\ passed \in 0..9
  /\ faults \subseteq PossibleFaults /\ lasting \subseteq PossibleFaults
  /\ streams \in Seq(StreamType) /\ requests \in [Requests -> RequestType]
  /\ rate \in [minute : Nat, count : Nat] /\ minute \in 0..MaxMinutes /\ accepted \in Nat
  /\ hydration \in {"none", "running", "done"}

\* What the checks look for; the eleventh phase and the fourteenth look for nothing else.
ReplayFaults == {"research sequence"}
Phase7Faults == {"rollout chain", "registration lock"}
Phase8Faults == {"compliance chain", "evidence bundle"}
Phase9Faults == {"compliance scan", "policy drift", "phase artifacts", "override chain"}
Phase10Faults == {"files", "directories", "alert channels", "attestation allowlist"}
Phase12Faults == {"files", "directories", "supply-chain policies"}
Phase13Faults == {"files", "directories", "role policy"}

\* What was wrong from the start on is nothing that a check already passed looks for.
Sought(n, kinds) == passed >= n => lasting \intersect kinds = {}
Sifted ==
  /\ passed # 9 => lasting \subseteq faults
  /\ Sought(1, ReplayFaults)
  /\ Sought(2, Phase7Faults)
  /\ Sought(3, Phase8Faults)
  /\ Sought(4, Phase9Faults)
  /\ Sought(5, Phase10Faults)
  /\ Sought(7, Phase12Faults)
  /\ Sought(8, Phase13Faults)

\* A request keeps the principal of its token, and the stream its principal.
RequestStands(q) ==
  /\ q.pc # "idle" => q.as = DerivePrincipal(q.token)
  /\ q.pc = "idle" => q.stream = 0
  /\ q.stream # 0 => q.stream \in DOMAIN streams /\ streams[q.stream].principal = q.as
  /\ q.pc = "hydrating" => q.as = "operator"

\* The requests let through in this minute are among those counted in it.
CountKept ==
  /\ rate.count <= RateLimit
  /\ accepted <= (IF rate.minute = minute THEN rate.count ELSE 0)

GatewayInv ==
  /\ GatewayShape
  /\ Sifted
  /\ \A r \in Requests : RequestStands(requests[r])
  /\ CountKept

LEMMA GatewayNumbers == RateLimit \in Nat \ {0} /\ MaxMinutes \in Nat
BY Zenon, GatewayAssumption

LEMMA ChecksOf ==
  /\ Len(Checks) = 9
  /\ Checks[1] = VerifyStoredReplay /\ Checks[2] = VerifyPhase7 /\ Checks[3] = VerifyPhase8
  /\ Checks[4] = VerifyPhase9 /\ Checks[5] = VerifyPhase10 /\ Checks[6] = VerifyPhase11
  /\ Checks[7] = VerifyPhase12 /\ Checks[8] = VerifyPhase13 /\ Checks[9] = VerifyPhase14
BY DEF Checks

LEMMA ChecksLook ==
  /\ VerifyStoredReplay => faults \intersect ReplayFaults = {}
  /\ VerifyPhase7 => faults \intersect Phase7Faults = {}
  /\ VerifyPhase8 => faults \intersect Phase8Faults = {}
  /\ VerifyPhase9 => faults \intersect Phase9Faults = {}
  /\ VerifyPhase10 => faults \intersect Phase10Faults = {}
  /\ VerifyPhase12 => faults \intersect Phase12Faults = {}
  /\ VerifyPhase13 => faults \intersect Phase13Faults = {}
<1>1. VerifyStoredReplay => faults \intersect ReplayFaults = {}
  BY DEF VerifyStoredReplay, ReplayFaults
<1>2. VerifyPhase7 => faults \intersect Phase7Faults = {}
  BY DEF VerifyPhase7, Phase7Faults
<1>3. VerifyPhase8 => faults \intersect Phase8Faults = {}
  BY DEF VerifyPhase8, Phase8Faults
<1>4. VerifyPhase9 => faults \intersect Phase9Faults = {}
  BY DEF VerifyPhase9, Phase9Faults
<1>5. VerifyPhase10 => faults \intersect Phase10Faults = {}
  BY DEF VerifyPhase10, Phase10Faults
<1>6. VerifyPhase12 => faults \intersect Phase12Faults = {}
  BY DEF VerifyPhase12, Phase12Faults
<1>7. VerifyPhase13 => faults \intersect Phase13Faults = {}
  BY DEF VerifyPhase13, Phase13Faults
<1> QED
  BY <1>1, <1>2, <1>3, <1>4, <1>5, <1>6, <1>7

LEMMA Emptied == ASSUME NEW A, NEW B, NEW K, A \subseteq B, B \intersect K = {} PROVE A \intersect K = {}
OBVIOUS

LEMMA GatewayInitialize ==
  ASSUME GatewayInv, Initialize
  PROVE  GatewayInv'
<1>1. passed \in 0..8
  BY ChecksOf DEF Initialize, Listening, GatewayInv, GatewayShape
<1>2. Sifted' /\ passed' \in 0..9 /\ lasting' \subseteq PossibleFaults
  <2>1. CASE Checks[passed + 1]
    <3>1. passed' = passed + 1 /\ UNCHANGED <<lasting, faults>>
      BY <2>1 DEF Initialize
    <3>2. Sifted
      BY DEF GatewayInv
    <3>3. lasting \subseteq faults
      BY <1>1, <3>2 DEF Sifted
    <3>4. Sought(1, ReplayFaults)'
      <4>1. passed = 0 => Checks[1]
        BY <2>1
      <4>2. passed = 0 => lasting \intersect ReplayFaults = {}
        BY <3>3, <4>1, ChecksOf, ChecksLook, Emptied
      <4>3. Sought(1, ReplayFaults)
        BY <3>2 DEF Sifted
      <4> QED
        BY <1>1, <3>1, <4>2, <4>3 DEF Sought
    <3>5. Sought(2, Phase7Faults)'
      <4>1. passed = 1 => Checks[2]
        BY <2>1
      <4>2. passed = 1 => lasting \intersect Phase7Faults = {}
        BY <3>3, <4>1, ChecksOf, ChecksLook, Emptied
      <4>3. Sought(2, Phase7Faults)
        BY <3>2 DEF Sifted
      <4> QED
        BY <1>1, <3>1, <4>2, <4>3 DEF Sought
    <3>6. Sought(3, Phase8Faults)'
      <4>1. passed = 2 => Checks[3]
        BY <2>1
      <4>2. passed = 2 => lasting \intersect Phase8Faults = {}
        BY <3>3, <4>1, ChecksOf, ChecksLook, Emptied
      <4>3. Sought(3, Phase8Faults)
        BY <3>2 DEF Sifted
      <4> QED
        BY <1>1, <3>1, <4>2, <4>3 DEF Sought
    <3>7. Sought(4, Phase9Faults)'
      <4>1. passed = 3 => Checks[4]
        BY <2>1
      <4>2. passed = 3 => lasting \intersect Phase9Faults = {}
        BY <3>3, <4>1, ChecksOf, ChecksLook, Emptied
      <4>3. Sought(4, Phase9Faults)
        BY <3>2 DEF Sifted
      <4> QED
        BY <1>1, <3>1, <4>2, <4>3 DEF Sought
    <3>8. Sought(5, Phase10Faults)'
      <4>1. passed = 4 => Checks[5]
        BY <2>1
      <4>2. passed = 4 => lasting \intersect Phase10Faults = {}
        BY <3>3, <4>1, ChecksOf, ChecksLook, Emptied
      <4>3. Sought(5, Phase10Faults)
        BY <3>2 DEF Sifted
      <4> QED
        BY <1>1, <3>1, <4>2, <4>3 DEF Sought
    <3>9. Sought(7, Phase12Faults)'
      <4>1. passed = 6 => Checks[7]
        BY <2>1
      <4>2. passed = 6 => lasting \intersect Phase12Faults = {}
        BY <3>3, <4>1, ChecksOf, ChecksLook, Emptied
      <4>3. Sought(7, Phase12Faults)
        BY <3>2 DEF Sifted
      <4> QED
        BY <1>1, <3>1, <4>2, <4>3 DEF Sought
    <3>10. Sought(8, Phase13Faults)'
      <4>1. passed = 7 => Checks[8]
        BY <2>1
      <4>2. passed = 7 => lasting \intersect Phase13Faults = {}
        BY <3>3, <4>1, ChecksOf, ChecksLook, Emptied
      <4>3. Sought(8, Phase13Faults)
        BY <3>2 DEF Sifted
      <4> QED
        BY <1>1, <3>1, <4>2, <4>3 DEF Sought
    <3>11. Sifted'
      BY <3>1, <3>3, <3>4, <3>5, <3>6, <3>7, <3>8, <3>9, <3>10 DEF Sifted
    <3>12. passed' \in 0..9
      BY <1>1, <3>1
    <3> QED
      BY <3>1, <3>11, <3>12 DEF GatewayInv, GatewayShape
  <2>2. CASE ~Checks[passed + 1]
    <3>1. passed' = 0 /\ lasting' = faults /\ UNCHANGED faults
      BY <2>2 DEF Initialize
    <3>2. Sifted'
      BY <3>1 DEF Sifted, Sought
    <3>3. passed' \in 0..9
      BY <3>1
    <3> QED
      BY <3>1, <3>2, <3>3 DEF GatewayInv, GatewayShape
  <2> QED
    BY <2>1, <2>2
<1> QED
  BY <1>2 DEF GatewayInv, GatewayShape, Initialize, RequestStands, CountKept

LEMMA GatewayDeploys ==
  ASSUME GatewayInv, ChangeDeployment
  PROVE  GatewayInv'
<1>1. PICK f \in PossibleFaults : faults' = IF f \in faults THEN faults \ {f} ELSE faults \union {f}
  BY DEF ChangeDeployment
<1>2. faults' \subseteq PossibleFaults
  BY <1>1 DEF GatewayInv, GatewayShape
<1>3. Listening <=> passed = 9
  BY ChecksOf DEF Listening
<1>4. Sifted' /\ lasting' \subseteq PossibleFaults
  BY <1>3 DEF ChangeDeployment, Sifted, Sought, GatewayInv, GatewayShape
<1> QED
  BY <1>2, <1>4 DEF GatewayInv, GatewayShape, ChangeDeployment, RequestStands, CountKept

LEMMA GatewayHydrates ==
  ASSUME GatewayInv, EnsureMutationHydrated
  PROVE  GatewayInv'
<1>1. CASE UNCHANGED requests
  BY <1>1 DEF EnsureMutationHydrated, GatewayInv, GatewayShape, Sifted, Sought, RequestStands, CountKept
<1>2. ASSUME hydration' = "none",
             requests' = [r \in Requests |-> IF requests[r].pc = "hydrating"
                                             THEN [requests[r] EXCEPT !.pc = "refused"] ELSE requests[r]]
      PROVE  GatewayInv'
  <2>1. ASSUME NEW r \in Requests PROVE requests'[r] \in RequestType /\ RequestStands(requests[r])'
    <3> DEFINE q == requests[r]  refused == [q EXCEPT !.pc = "refused"]
    <3>1. q \in RequestType /\ RequestStands(q)
      BY DEF GatewayInv, GatewayShape
    <3>2. refused \in RequestType /\ refused.pc = "refused" /\ refused.token = q.token /\ refused.as = q.as
          /\ refused.stream = q.stream
      BY <3>1 DEF RequestType
    <3>3. requests'[r] = q \/ requests'[r] = refused
      BY <1>2
    <3> HIDE DEF q, refused
    <3> QED
      BY <3>1, <3>2, <3>3 DEF RequestStands, EnsureMutationHydrated, q
  <2>2. requests' \in [Requests -> RequestType]
    BY <1>2, <2>1
  <2> QED
    BY <1>2, <2>1, <2>2 DEF EnsureMutationHydrated, GatewayInv, GatewayShape, Sifted, Sought, CountKept
<1> QED
  BY <1>1, <1>2 DEF EnsureMutationHydrated

LEMMA GatewayMinutes ==
  ASSUME GatewayInv, NextMinute
  PROVE  GatewayInv'
<1>1. minute' \in 0..MaxMinutes /\ accepted' = 0 /\ UNCHANGED rate
  BY GatewayNumbers DEF NextMinute, GatewayInv, GatewayShape
<1>2. rate.count \in Nat
  BY DEF GatewayInv, GatewayShape
<1>3. CountKept'
  BY <1>1, <1>2 DEF CountKept, GatewayInv
<1> QED
  BY <1>1, <1>3 DEF NextMinute, GatewayInv, GatewayShape, Sifted, Sought, RequestStands

LEMMA GatewayStreams ==
  ASSUME GatewayInv, \/ \E s \in DOMAIN streams : CloseStream(s)
                     \/ \E t \in BearerTokens : OpenStream(t)
  PROVE  GatewayInv'
<1>1. streams \in Seq(StreamType) /\ Len(streams) \in Nat /\ DOMAIN streams = 1..Len(streams)
  BY DEF GatewayInv, GatewayShape
<1>2. /\ streams' \in Seq(StreamType) /\ DOMAIN streams \subseteq DOMAIN streams'
      /\ \A s \in DOMAIN streams : streams'[s].principal = streams[s].principal
  <2>1. ASSUME NEW s \in DOMAIN streams, CloseStream(s)
        PROVE  /\ streams' \in Seq(StreamType) /\ DOMAIN streams \subseteq DOMAIN streams'
               /\ \A i \in DOMAIN streams : streams'[i].principal = streams[i].principal
    <3> DEFINE closed == [streams[s] EXCEPT !.open = FALSE]
    <3>1. streams[s] \in StreamType
      BY <1>1
    <3>2. closed \in StreamType /\ closed.principal = streams[s].principal
      BY <3>1 DEF StreamType
    <3>3. streams' = [streams EXCEPT ![s] = closed]
      BY <2>1 DEF CloseStream
    <3> HIDE DEF closed
    <3>4. /\ streams' \in Seq(StreamType) /\ Len(streams') = Len(streams)
          /\ \A i \in 1..Len(streams) : streams'[i] = IF i = s THEN closed ELSE streams[i]
      BY <1>1, <3>2, <3>3, ExceptSeq
    <3> QED
      BY <1>1, <3>2, <3>4
  <2>2. ASSUME NEW t \in BearerTokens, OpenStream(t)
        PROVE  /\ streams' \in Seq(StreamType) /\ DOMAIN streams \subseteq DOMAIN streams'
               /\ \A i \in DOMAIN streams : streams'[i].principal = streams[i].principal
    <3> DEFINE opened == [principal |-> DerivePrincipal(t), open |-> TRUE]
    <3>1. opened \in StreamType
      BY DEF StreamType, DerivePrincipal, Principals
    <3>2. streams' = Append(streams, opened)
      BY <2>2 DEF OpenStream
    <3> HIDE DEF opened
    <3> QED
      BY <1>1, <3>1, <3>2
  <2> QED
    BY <2>1, <2>2
<1>3. UNCHANGED <<bearer, passed, faults, lasting, requests, rate, minute, accepted, hydration>>
  BY DEF CloseStream, OpenStream
<1>4. ASSUME NEW r \in Requests PROVE RequestStands(requests[r])'
  <2>1. RequestStands(requests[r])
    BY DEF GatewayInv
  <2> QED
    BY <1>2, <1>3, <2>1 DEF RequestStands
<1> QED
  BY <1>2, <1>3, <1>4 DEF GatewayInv, GatewayShape, Sifted, Sought, CountKept

LEMMA CountedInMinute ==
  ASSUME GatewayInv, WithinRate, GatewayCounted, UNCHANGED minute, accepted' \in {accepted, accepted + 1}
  PROVE  CountKept' /\ rate' \in [minute : Nat, count : Nat] /\ accepted' \in Nat
<1>1. /\ rate \in [minute : Nat, count : Nat] /\ rate.minute \in Nat /\ rate.count \in Nat /\ minute \in Nat
      /\ accepted \in Nat /\ RateLimit \in Nat \ {0}
  BY GatewayNumbers DEF GatewayInv, GatewayShape
<1>2. accepted <= (IF rate.minute = minute THEN rate.count ELSE 0)
  BY DEF GatewayInv, CountKept
<1>3. rate'.minute = minute /\ rate'.count = IF rate.minute = minute THEN rate.count + 1 ELSE 1
  BY DEF GatewayCounted
<1>4. rate'.count <= RateLimit
  BY <1>1, <1>3 DEF WithinRate
<1>5. accepted' <= rate'.count
  BY <1>1, <1>2, <1>3
<1>6. rate' \in [minute : Nat, count : Nat]
  BY <1>1, <1>3 DEF GatewayCounted
<1> QED
  BY <1>1, <1>3, <1>4, <1>5, <1>6 DEF CountKept

LEMMA GatewayAccepts ==
  ASSUME GatewayInv, NEW r \in Requests, NEW t \in BearerTokens, NEW as \in Principals,
         NEW allowed \in SUBSET Methods, NEW s \in Nat, Accept(r, t, as, allowed, s),
         as = DerivePrincipal(t), s # 0 => s \in DOMAIN streams /\ streams[s].principal = as
  PROVE  GatewayInv'
<1> DEFINE q == [pc |-> "reading", token |-> t, as |-> as, allowed |-> allowed, stream |-> s]
<1>1. q \in RequestType /\ RequestStands(q)
  BY DEF RequestType, RequestStands
<1>2. requests' = [requests EXCEPT ![r] = q] /\ requests \in [Requests -> RequestType]
  BY DEF Accept, GatewayInv, GatewayShape
<1> HIDE DEF q
<1>3. requests' \in [Requests -> RequestType]
  BY <1>1, <1>2
<1>4. \A p \in Requests : RequestStands(requests'[p])
  BY <1>1, <1>2 DEF GatewayInv
<1>5. \A p \in Requests : RequestStands(requests[p])'
  BY <1>4 DEF RequestStands, Accept
<1>6. CountKept' /\ rate' \in [minute : Nat, count : Nat] /\ accepted' \in Nat
  BY CountedInMinute DEF Accept
<1> QED
  BY <1>3, <1>5, <1>6 DEF GatewayInv, GatewayShape, Accept, Sifted, Sought

LEMMA GatewayPosts ==
  ASSUME GatewayInv, NEW r \in Requests, NEW t \in BearerTokens,
         \/ PostStreamable(r, t) \/ PostOperator(r, t) \/ \E s \in DOMAIN streams : PostMessage(r, t, s)
  PROVE  GatewayInv'
<1>1. DerivePrincipal(t) \in Principals
  BY DEF DerivePrincipal, Principals
<1>2. CASE PostStreamable(r, t)
  <2>1. McpAllowlist(DerivePrincipal(t)) \in SUBSET Methods
    BY DEF McpAllowlist, Methods
  <2> QED
    BY <1>1, <1>2, <2>1, GatewayAccepts DEF PostStreamable
<1>3. CASE PostOperator(r, t)
  <2>1. DerivePrincipal(t) = "operator" /\ "operator" \in Principals /\ {"mutate"} \in SUBSET Methods
    BY <1>3 DEF PostOperator, Resolve, IsAllowedForRoute, Principals, Methods
  <2> QED
    BY <1>3, <2>1, GatewayAccepts DEF PostOperator
<1>4. ASSUME NEW s \in DOMAIN streams, PostMessage(r, t, s) PROVE GatewayInv'
  <2>1. s \in Nat /\ {"read"} \in SUBSET Methods
    BY DEF Methods, GatewayInv, GatewayShape
  <2>2. CASE SameStream(t, s)
    <3>1. streams[s].principal = DerivePrincipal(t) /\ Accept(r, t, DerivePrincipal(t), {"read"}, s)
      BY <1>4, <2>2 DEF PostMessage, SameStream
    <3> QED
      BY <1>1, <2>1, <3>1, GatewayAccepts
  <2>3. CASE ~SameStream(t, s)
    <3>1. /\ WithinRate /\ GatewayCounted
          /\ UNCHANGED <<bearer, passed, faults, lasting, streams, requests, minute, accepted, hydration>>
      BY <1>4, <2>3 DEF PostMessage
    <3>2. CountKept' /\ rate' \in [minute : Nat, count : Nat]
      BY <3>1, CountedInMinute
    <3> QED
      BY <3>1, <3>2 DEF GatewayInv, GatewayShape, Sifted, Sought, RequestStands
  <2> QED
    BY <2>2, <2>3
<1> QED
  BY <1>2, <1>3, <1>4

LEMMA GatewayHandles ==
  ASSUME GatewayInv, NEW r \in Requests, Handle(r) \/ Mutate(r)
  PROVE  GatewayInv'
<1>1. UNCHANGED <<bearer, passed, faults, lasting, streams, rate, minute, accepted>>
  BY DEF Handle, Mutate
<1>2. PICK pc \in {"hydrating", "handled", "refused"} :
        End(r, pc) /\ (pc = "hydrating" => requests[r].as = "operator") /\ requests[r].pc # "idle"
        /\ hydration' \in {"none", "running", "done"}
  BY DEF Handle, Mutate, Methods, GatewayInv, GatewayShape
<1> DEFINE q == requests[r]  ended == [q EXCEPT !.pc = pc]
<1>3. q \in RequestType /\ RequestStands(q)
  BY DEF GatewayInv, GatewayShape
<1>4. ended \in RequestType /\ ended.pc = pc /\ ended.token = q.token /\ ended.as = q.as /\ ended.stream = q.stream
  BY <1>3 DEF RequestType
<1>5. requests' = [requests EXCEPT ![r] = ended] /\ requests \in [Requests -> RequestType]
  BY <1>2 DEF End, GatewayInv, GatewayShape
<1>6. RequestStands(ended)
  BY <1>2, <1>3, <1>4 DEF RequestStands
<1> HIDE DEF q, ended
<1>7. requests' \in [Requests -> RequestType] /\ \A p \in Requests : RequestStands(requests'[p])
  BY <1>4, <1>5, <1>6 DEF GatewayInv
<1>8. \A p \in Requests : RequestStands(requests[p])'
  BY <1>1, <1>7 DEF RequestStands
<1> QED
  BY <1>1, <1>2, <1>7, <1>8 DEF GatewayInv, GatewayShape, Sifted, Sought, CountKept

LEMMA GatewayRevokes ==
  ASSUME GatewayInv, NEW t \in BearerTokens, Revoke(t)
  PROVE  GatewayInv'
<1>1. bearer' \in [BearerTokens -> {"live", "revoked", "expired"}]
  BY DEF Revoke, GatewayInv, GatewayShape
<1> QED
  BY <1>1 DEF Revoke, GatewayInv, GatewayShape, Sifted, Sought, RequestStands, CountKept

LEMMA GatewayStarts == ASSUME GatewayInit PROVE GatewayInv
<1>1. GatewayIdle \in RequestType /\ RequestStands(GatewayIdle)
  BY DEF GatewayIdle, RequestType, RequestStands, Principals
<1>2. requests \in [Requests -> RequestType] /\ \A r \in Requests : RequestStands(requests[r])
  BY <1>1 DEF GatewayInit
<1>3. streams \in Seq(StreamType)
  BY DEF GatewayInit
<1>4. /\ rate \in [minute : Nat, count : Nat] /\ rate.count = 0 /\ rate.minute = 0 /\ minute \in 0..MaxMinutes
      /\ accepted = 0
  BY GatewayNumbers DEF GatewayInit
<1>5. CountKept
  BY <1>4, GatewayNumbers DEF CountKept
<1>6. passed \in 0..9 /\ 1..passed = {} /\ lasting \subseteq faults /\ faults \subseteq PossibleFaults
  BY DEF GatewayInit
<1>7. bearer \in [BearerTokens -> {"live", "revoked", "expired"}] /\ hydration \in {"none", "running", "done"}
  BY DEF GatewayInit
<1> QED
  BY <1>2, <1>3, <1>4, <1>5, <1>6, <1>7 DEF GatewayInv, GatewayShape, Sifted, Sought

LEMMA GatewaySteps == GatewaySpec => []GatewayInv
<1>1. GatewayInv /\ [GatewayNext]_gatewayVars => GatewayInv'
  <2> SUFFICES ASSUME GatewayInv, [GatewayNext]_gatewayVars PROVE GatewayInv'
    OBVIOUS
  <2>1. CASE UNCHANGED gatewayVars
    BY <2>1 DEF gatewayVars, GatewayInv, GatewayShape, Sifted, Sought, RequestStands, CountKept
  <2> QED
    BY <2>1, GatewayInitialize, GatewayDeploys, GatewayHydrates, GatewayMinutes, GatewayStreams, GatewayPosts,
       GatewayHandles, GatewayRevokes DEF GatewayNext
<1> QED
  BY <1>1, GatewayStarts, PTL DEF GatewaySpec

\* Tokens, checks, streams and requests keep their types.
THEOREM GatewayTypes == GatewaySpec => []GatewayTypeOK
<1>1. GatewayInv => GatewayTypeOK
  <2> SUFFICES ASSUME GatewayInv PROVE GatewayTypeOK
    OBVIOUS
  <2>1. \A i \in DOMAIN streams : streams[i].principal \in Principals /\ streams[i].open \in BOOLEAN
    <3>1. \A i \in DOMAIN streams : streams[i] \in StreamType
      BY DEF GatewayInv, GatewayShape
    <3> QED
      BY <3>1 DEF StreamType
  <2>2. \A r \in Requests : requests[r].pc \in {"idle", "reading", "hydrating", "handled", "refused"}
                            /\ requests[r].as \in Principals /\ requests[r].allowed \subseteq Methods
    <3>1. \A r \in Requests : requests[r] \in RequestType
      BY DEF GatewayInv, GatewayShape
    <3> QED
      BY <3>1 DEF RequestType
  <2> QED
    BY <2>1, <2>2, ChecksOf DEF GatewayInv, GatewayShape, GatewayTypeOK
<1> QED
  BY <1>1, GatewaySteps, PTL

\* The server does not listen with anything wrong that some check looks for and that
\* was wrong ever since the process began to check (mcp-service.js, initialize),
\* whatever is broken or repaired between two checks.
THEOREM NoStartOnFaultHolds == GatewaySpec => []NoStartOnFault
<1>1. GatewayInv => NoStartOnFault
  <2> SUFFICES ASSUME GatewayInv, Listening PROVE lasting \subseteq {"dependency drift"}
    BY DEF NoStartOnFault
  <2>1. passed = 9
    BY ChecksOf DEF Listening
  <2>2. lasting \subseteq PossibleFaults
    BY DEF GatewayInv, GatewayShape
  <2>3. /\ lasting \intersect ReplayFaults = {}
        /\ lasting \intersect Phase7Faults = {}
        /\ lasting \intersect Phase8Faults = {}
        /\ lasting \intersect Phase9Faults = {}
        /\ lasting \intersect Phase10Faults = {}
        /\ lasting \intersect Phase12Faults = {}
        /\ lasting \intersect Phase13Faults = {}
    BY <2>1 DEF GatewayInv, Sifted, Sought
  <2> QED
    BY <2>2, <2>3, GatewayAssumption
       DEF ReplayFaults, Phase7Faults, Phase8Faults, Phase9Faults, Phase10Faults, Phase12Faults, Phase13Faults
<1> QED
  BY <1>1, GatewaySteps, PTL

\* A request on a stream has its principal, a mutation an operator's token behind it,
\* and no minute more requests than the limit (server.ts, mcp-service.js), for every
\* number of requests, tokens and streams.
THEOREM HandledByRightHolds == GatewaySpec => []HandledByRight
<1>1. GatewayInv => HandledByRight
  <2> SUFFICES ASSUME GatewayInv PROVE HandledByRight
    OBVIOUS
  <2>1. /\ accepted \in Nat /\ RateLimit \in Nat /\ rate.count \in Nat
        /\ rate.count <= RateLimit /\ accepted <= (IF rate.minute = minute THEN rate.count ELSE 0)
    BY GatewayNumbers DEF GatewayInv, GatewayShape, CountKept
  <2>2. accepted <= RateLimit
    BY <2>1
  <2> QED
    BY <2>2 DEF GatewayInv, RequestStands, HandledByRight
<1> QED
  BY <1>1, GatewaySteps, PTL
-----------------------------------------------------------------------------
(* Drafts: DraftWorkflows.                                                   *)

DraftRecordType == [sequence : Nat, source : AnySource, status : DraftStatuses]
CandidateRecordType == [queueSequence : Nat, source : DraftSources, draft : Nat]
ReviewRecordType == [queueSequence : Nat, draft : Nat, status : DraftStatuses]
WorkflowsType ==
  [drafts : Seq(DraftRecordType), candidateQueue : Seq(CandidateRecordType), reviewQueue : Seq(ReviewRecordType),
   nextQueueSequence : Nat, nextDraftSequence : Nat]
DraftRunType ==
  [stage : {"idle", "commit", "refresh", "write"}, selected : Seq(DraftSources), read : Seq(DraftRecordType)]

\* Drafts are numbered as they come, one for a paper.
DraftsNumbered(state) ==
  /\ state.nextDraftSequence = Len(state.drafts)
  /\ \A i \in DOMAIN state.drafts : state.drafts[i].sequence = i
  /\ \A i, j \in DOMAIN state.drafts :
       state.drafts[i].source \in DraftSources /\ state.drafts[i].source = state.drafts[j].source => i = j

\* Reviews follow the drafts.
ReviewsFollow(state) ==
  /\ Len(state.reviewQueue) = Len(state.drafts)
  /\ \A i \in DOMAIN state.reviewQueue :
       state.reviewQueue[i].draft = i /\ state.reviewQueue[i].status = state.drafts[i].status

\* A candidate record names no draft, or one of its source that no other names, and every
\* draft of a paper is named.
CandidatesName(state) ==
  LET candidates == state.candidateQueue IN
  /\ \A k \in DOMAIN candidates : candidates[k].draft \in 0..Len(state.drafts)
  /\ \A k, l \in DOMAIN candidates : candidates[k].draft = candidates[l].draft => k = l \/ candidates[k].draft = 0
  /\ \A k \in DOMAIN candidates :
       candidates[k].draft = 0 \/ candidates[k].source = state.drafts[candidates[k].draft].source
  /\ \A i \in DOMAIN state.drafts :
       state.drafts[i].source \in DraftSources => \E k \in DOMAIN candidates : candidates[k].draft = i

\* The queues share one counter.
QueueNumbered(state) ==
  LET candidates == state.candidateQueue
      reviews == state.reviewQueue
  IN  /\ \A i \in DOMAIN candidates : candidates[i].queueSequence <= state.nextQueueSequence
      /\ \A i \in DOMAIN reviews : reviews[i].queueSequence <= state.nextQueueSequence
      /\ \A i, j \in DOMAIN candidates : candidates[i].queueSequence = candidates[j].queueSequence => i = j
      /\ \A i, j \in DOMAIN reviews : reviews[i].queueSequence = reviews[j].queueSequence => i = j
      /\ \A i \in DOMAIN candidates, j \in DOMAIN reviews : candidates[i].queueSequence # reviews[j].queueSequence

Story(state) ==
  state \in WorkflowsType /\ DraftsNumbered(state) /\ ReviewsFollow(state) /\ CandidatesName(state) /\ QueueNumbered(state)

\* Lines that show the first drafts, as they are or were.
ShowsFirst(lines, all) ==
  Len(lines) <= Len(all) /\ \A i \in DOMAIN lines : lines[i].source = all[i].source /\ lines[i].sequence = all[i].sequence

DraftInv ==
  /\ Story(workflows)
  /\ runs \in [Runners -> DraftRunType]
  /\ draftLines \in Seq(DraftRecordType)
  /\ ShowsFirst(draftLines, workflows.drafts)
  /\ \A r \in Runners : ShowsFirst(runs[r].read, workflows.drafts)

LEMMA ShowsItself == ASSUME NEW s \in Seq(DraftRecordType) PROVE ShowsFirst(s, s)
<1>1. Len(s) \in Nat
  BY LenProperties
<1> QED
  BY <1>1 DEF ShowsFirst

LEMMA ShowsNone == ASSUME NEW t \in Seq(DraftRecordType) PROVE ShowsFirst(<<>>, t)
<1>1. Len(t) \in Nat /\ Len(<<>>) = 0 /\ DOMAIN <<>> = {}
  BY LenProperties
<1> QED
  BY <1>1 DEF ShowsFirst

LEMMA ShowsThrough ==
  ASSUME NEW s \in Seq(DraftRecordType), NEW t \in Seq(DraftRecordType), NEW u \in Seq(DraftRecordType),
         ShowsFirst(s, t), ShowsFirst(t, u)
  PROVE  ShowsFirst(s, u)
<1>1. /\ Len(s) \in Nat /\ Len(t) \in Nat /\ Len(u) \in Nat /\ DOMAIN s = 1..Len(s) /\ DOMAIN t = 1..Len(t)
      /\ Len(s) <= Len(t) /\ Len(t) <= Len(u)
  BY LenProperties DEF ShowsFirst
<1>2. \A i \in 1..Len(s) : i \in 1..Len(t)
  BY <1>1
<1>3. \A i \in 1..Len(s) : s[i].source = t[i].source /\ s[i].sequence = t[i].sequence
  BY <1>1 DEF ShowsFirst
<1>4. \A i \in 1..Len(t) : t[i].source = u[i].source /\ t[i].sequence = u[i].sequence
  BY <1>1 DEF ShowsFirst
<1>5. Len(s) <= Len(u)
  BY <1>1
<1> QED
  BY <1>1, <1>2, <1>3, <1>4, <1>5 DEF ShowsFirst

LEMMA ShowsMore ==
  ASSUME NEW s \in Seq(DraftRecordType), NEW x \in DraftRecordType
  PROVE  ShowsFirst(s, Append(s, x))
<1>1. /\ Len(s) \in Nat /\ Len(Append(s, x)) = Len(s) + 1 /\ DOMAIN s = 1..Len(s)
      /\ \A i \in 1..Len(s) : Append(s, x)[i] = s[i]
  BY AppendProperties, LenProperties
<1> QED
  BY <1>1 DEF ShowsFirst

-----------------------------------------------------------------------------
(* One candidate stored.                                                     *)

\* A candidate record is added, with a number of its own.
CandidateAdded(state, record) ==
  [state EXCEPT !.nextQueueSequence = record.queueSequence, !.candidateQueue = Append(@, record)]

\* A draft is added, with its review.
DraftAdded(state, draft, record, review) ==
  [state EXCEPT !.nextQueueSequence = review.queueSequence,
                !.nextDraftSequence = draft.sequence,
                !.drafts = Append(@, draft),
                !.candidateQueue = Append(@, record),
                !.reviewQueue = Append(@, review)]

LEMMA CandidateAddedFields ==
  ASSUME NEW state \in WorkflowsType, NEW record \in CandidateRecordType,
         NEW new, new = CandidateAdded(state, record)
  PROVE  /\ new \in WorkflowsType
         /\ new.nextQueueSequence = record.queueSequence /\ new.candidateQueue = Append(state.candidateQueue, record)
         /\ new.drafts = state.drafts /\ new.reviewQueue = state.reviewQueue
         /\ new.nextDraftSequence = state.nextDraftSequence
<1> DEFINE b == [state EXCEPT !.nextQueueSequence = record.queueSequence]
           q == Append(state.candidateQueue, record)
<1>1. q \in Seq(CandidateRecordType)
  BY AppendProperties DEF WorkflowsType
<1>2. /\ b \in WorkflowsType /\ b.nextQueueSequence = record.queueSequence /\ b.candidateQueue = state.candidateQueue
      /\ b.drafts = state.drafts /\ b.reviewQueue = state.reviewQueue /\ b.nextDraftSequence = state.nextDraftSequence
  BY DEF WorkflowsType, CandidateRecordType
<1>3. new = [b EXCEPT !.candidateQueue = q]
  BY <1>2 DEF CandidateAdded, WorkflowsType
<1> HIDE DEF b, q
<1>4. /\ new \in WorkflowsType /\ new.candidateQueue = q /\ new.nextQueueSequence = b.nextQueueSequence
      /\ new.drafts = b.drafts /\ new.reviewQueue = b.reviewQueue /\ new.nextDraftSequence = b.nextDraftSequence
  BY <1>1, <1>2, <1>3 DEF WorkflowsType
<1> QED
  BY <1>2, <1>4 DEF q

LEMMA DraftAddedFields ==
  ASSUME NEW state \in WorkflowsType, NEW draft \in DraftRecordType, NEW record \in CandidateRecordType,
         NEW review \in ReviewRecordType, NEW new, new = DraftAdded(state, draft, record, review)
  PROVE  /\ new \in WorkflowsType
         /\ new.nextQueueSequence = review.queueSequence /\ new.candidateQueue = Append(state.candidateQueue, record)
         /\ new.drafts = Append(state.drafts, draft) /\ new.reviewQueue = Append(state.reviewQueue, review)
         /\ new.nextDraftSequence = draft.sequence
<1> DEFINE ds == Append(state.drafts, draft)
           cs == Append(state.candidateQueue, record)
           rs == Append(state.reviewQueue, review)
<1>1. ds \in Seq(DraftRecordType) /\ cs \in Seq(CandidateRecordType) /\ rs \in Seq(ReviewRecordType)
  BY AppendProperties DEF WorkflowsType
<1>2. review.queueSequence \in Nat /\ draft.sequence \in Nat
  BY DEF ReviewRecordType, DraftRecordType
<1>3. new = [drafts |-> ds, candidateQueue |-> cs, reviewQueue |-> rs,
             nextQueueSequence |-> review.queueSequence, nextDraftSequence |-> draft.sequence]
  BY DEF DraftAdded, WorkflowsType
<1> HIDE DEF ds, cs, rs
<1> QED
  BY <1>1, <1>2, <1>3 DEF WorkflowsType, ds, cs, rs

LEMMA StoredOnce ==
  ASSUME DraftAssumption, NEW state, Story(state), NEW source \in DraftSources
  PROVE  Story(StoreCandidate(state, source)) /\ ShowsFirst(state.drafts, StoreCandidate(state, source).drafts)
<1> DEFINE new == StoreCandidate(state, source)
           n == Len(state.drafts)
           queued == state.nextQueueSequence + 1
           drafts == state.drafts
           candidates == state.candidateQueue
           reviews == state.reviewQueue
           m == Len(candidates)
<1>1. /\ state \in WorkflowsType /\ drafts \in Seq(DraftRecordType) /\ candidates \in Seq(CandidateRecordType)
      /\ reviews \in Seq(ReviewRecordType) /\ state.nextQueueSequence \in Nat /\ state.nextDraftSequence = n
  BY DEF Story, WorkflowsType, DraftsNumbered
<1>2. /\ n \in Nat /\ m \in Nat /\ queued \in Nat /\ DOMAIN drafts = 1..n /\ DOMAIN candidates = 1..m
      /\ Len(drafts) = n /\ Len(candidates) = m /\ Len(reviews) = n /\ DOMAIN reviews = 1..n
  BY <1>1, LenProperties DEF Story, ReviewsFollow
<1>3. /\ \A i \in 1..n : drafts[i].sequence = i
      /\ \A i, j \in 1..n : drafts[i].source \in DraftSources /\ drafts[i].source = drafts[j].source => i = j
  BY <1>2 DEF Story, DraftsNumbered
<1>4. \A i \in 1..n : reviews[i].draft = i /\ reviews[i].status = drafts[i].status
  BY <1>2 DEF Story, ReviewsFollow
<1>5. /\ \A k \in 1..m : candidates[k].draft \in 0..n
      /\ \A k, l \in 1..m : candidates[k].draft = candidates[l].draft => k = l \/ candidates[k].draft = 0
      /\ \A k \in 1..m : candidates[k].draft = 0 \/ candidates[k].source = drafts[candidates[k].draft].source
      /\ \A i \in 1..n : drafts[i].source \in DraftSources => \E k \in 1..m : candidates[k].draft = i
  BY <1>2 DEF Story, CandidatesName
<1>6. /\ \A i \in 1..m : candidates[i].queueSequence <= state.nextQueueSequence
      /\ \A i \in 1..n : reviews[i].queueSequence <= state.nextQueueSequence
      /\ \A i, j \in 1..m : candidates[i].queueSequence = candidates[j].queueSequence => i = j
      /\ \A i, j \in 1..n : reviews[i].queueSequence = reviews[j].queueSequence => i = j
      /\ \A i \in 1..m, j \in 1..n : candidates[i].queueSequence # reviews[j].queueSequence
  BY <1>2 DEF Story, QueueNumbered
<1>7. /\ \A i \in 1..m : candidates[i].queueSequence \in Nat
      /\ \A i \in 1..n : reviews[i].queueSequence \in Nat
  <2>1. (\A i \in 1..m : candidates[i] \in CandidateRecordType) /\ \A i \in 1..n : reviews[i] \in ReviewRecordType
    BY <1>1, <1>2, LenProperties
  <2> QED
    BY <2>1 DEF CandidateRecordType, ReviewRecordType
<1>8. /\ \A i \in 1..m : candidates[i].queueSequence < queued
      /\ \A i \in 1..n : reviews[i].queueSequence < queued
  BY SMTT(30), <1>1, <1>6, <1>7
<1>9. CASE source \in DraftedSources(state)
  <2>1. new = state
    BY <1>9 DEF StoreCandidate
  <2> QED
    BY <1>1, <2>1, ShowsItself
<1>10. CASE source \notin DraftedSources(state) /\ source \in LintRejected
  <2> DEFINE record == [queueSequence |-> queued, source |-> source, draft |-> 0]
  <2>1. record \in CandidateRecordType /\ record.queueSequence = queued /\ record.draft = 0
    BY <1>2 DEF CandidateRecordType
  <2>2. new = CandidateAdded(state, record)
    BY <1>10 DEF StoreCandidate, CandidateAdded
  <2>3. /\ new \in WorkflowsType
        /\ new.nextQueueSequence = queued /\ new.candidateQueue = Append(candidates, record)
        /\ new.drafts = drafts /\ new.reviewQueue = reviews /\ new.nextDraftSequence = n
    <3> HIDE DEF new, record
    <3>1. state \in WorkflowsType /\ state.nextDraftSequence = n
      BY <1>1
    <3>2. /\ new \in WorkflowsType
          /\ new.nextQueueSequence = record.queueSequence /\ new.candidateQueue = Append(candidates, record)
          /\ new.drafts = drafts /\ new.reviewQueue = reviews
          /\ new.nextDraftSequence = state.nextDraftSequence
      BY <2>1, <2>2, <3>1, CandidateAddedFields
    <3> QED
      BY <2>1, <3>1, <3>2
  <2>4. /\ DOMAIN new.candidateQueue = 1..(m + 1) /\ (\A i \in 1..m : new.candidateQueue[i] = candidates[i])
        /\ new.candidateQueue[m + 1] = record
    <3> HIDE DEF new, record
    <3> QED
      BY <1>1, <1>2, <2>1, <2>3, AppendProperties, LenProperties
  <2>5. \A i \in 1..(m + 1) : i \in 1..m \/ i = m + 1
    BY <1>2
  <2> HIDE DEF new, record, queued, n, m, drafts, candidates, reviews
  <2>6. DraftsNumbered(new)
    BY <1>2, <1>3, <2>3 DEF DraftsNumbered
  <2>7. ReviewsFollow(new)
    BY <1>2, <1>4, <2>3 DEF ReviewsFollow
  <2>8. CandidatesName(new)
    <3>1. \A k \in 1..(m + 1) : new.candidateQueue[k].draft \in 0..n
      <4>1. 0 \in 0..n
        BY <1>2
      <4> QED
        BY <4>1, <1>5, <2>1, <2>4, <2>5
    <3>2. \A k, l \in 1..(m + 1) : new.candidateQueue[k].draft = new.candidateQueue[l].draft
            => k = l \/ new.candidateQueue[k].draft = 0
      BY <1>5, <2>1, <2>4, <2>5
    <3>3. \A k \in 1..(m + 1) : new.candidateQueue[k].draft = 0
            \/ new.candidateQueue[k].source = drafts[new.candidateQueue[k].draft].source
      BY <1>5, <2>1, <2>4, <2>5
    <3>4. \A i \in 1..n : drafts[i].source \in DraftSources => \E k \in 1..(m + 1) : new.candidateQueue[k].draft = i
      <4>1. \A k \in 1..m : k \in 1..(m + 1)
        BY <1>2
      <4> QED
        BY <4>1, <1>5, <2>4
    <3> QED
      BY <1>2, <2>3, <2>4, <3>1, <3>2, <3>3, <3>4 DEF CandidatesName
  <2>9. QueueNumbered(new)
    <3>1. \A i \in 1..(m + 1) : new.candidateQueue[i].queueSequence <= queued
      BY <1>2, <1>7, <1>8, <2>1, <2>4, <2>5
    <3>2. \A i \in 1..n : reviews[i].queueSequence <= queued
      BY <1>2, <1>7, <1>8
    <3>3. \A i, j \in 1..(m + 1) : new.candidateQueue[i].queueSequence = new.candidateQueue[j].queueSequence => i = j
      <4>1. \A i \in 1..m : candidates[i].queueSequence # queued
        BY <1>2, <1>7, <1>8
      <4> QED
        BY <4>1, <1>6, <2>1, <2>4, <2>5
    <3>4. \A i \in 1..(m + 1), j \in 1..n : new.candidateQueue[i].queueSequence # reviews[j].queueSequence
      <4>1. \A i \in 1..n : reviews[i].queueSequence # queued
        BY <1>2, <1>7, <1>8
      <4> QED
        BY <4>1, <1>6, <2>1, <2>4, <2>5
    <3> QED
      BY <1>2, <1>6, <2>3, <2>4, <3>1, <3>2, <3>3, <3>4 DEF QueueNumbered
  <2>10. ShowsFirst(drafts, new.drafts)
    BY <1>1, <2>3, ShowsItself
  <2> QED
    BY <2>3, <2>6, <2>7, <2>8, <2>9, <2>10 DEF Story, new, drafts
<1>11. CASE source \notin DraftedSources(state) /\ source \notin LintRejected
  <2> DEFINE draft == [sequence |-> n + 1, source |-> source, status |-> "draft"]
             record == [queueSequence |-> queued, source |-> source, draft |-> n + 1]
             review == [queueSequence |-> queued + 1, draft |-> n + 1, status |-> "draft"]
  <2>1. /\ record \in CandidateRecordType /\ record.queueSequence = queued /\ record.draft = n + 1
        /\ record.source = source
    BY <1>2 DEF CandidateRecordType
  <2>2. draft \in DraftRecordType /\ draft.sequence = n + 1 /\ draft.source = source /\ draft.status = "draft"
    BY <1>2 DEF DraftRecordType, DraftStatuses, AnySource
  <2>3. /\ review \in ReviewRecordType /\ review.queueSequence = queued + 1 /\ review.draft = n + 1
        /\ review.status = "draft"
    BY <1>2 DEF ReviewRecordType, DraftStatuses
  <2>4. new = DraftAdded(state, draft, record, review)
    BY <1>1, <1>11 DEF StoreCandidate, DraftAdded
  <2>5. /\ new \in WorkflowsType
        /\ new.nextQueueSequence = queued + 1 /\ new.candidateQueue = Append(candidates, record)
        /\ new.drafts = Append(drafts, draft) /\ new.reviewQueue = Append(reviews, review)
        /\ new.nextDraftSequence = n + 1
    <3> DEFINE q == queued + 1
               k == n + 1
    <3>1. /\ state \in WorkflowsType /\ record \in CandidateRecordType /\ draft \in DraftRecordType
          /\ review \in ReviewRecordType /\ review.queueSequence = q /\ draft.sequence = k
      BY <1>1, <2>1, <2>2, <2>3
    <3> HIDE DEF new, draft, record, review, q, k
    <3>2. /\ new \in WorkflowsType
          /\ new.nextQueueSequence = q /\ new.candidateQueue = Append(candidates, record)
          /\ new.drafts = Append(drafts, draft) /\ new.reviewQueue = Append(reviews, review)
          /\ new.nextDraftSequence = k
      BY <2>4, <3>1, DraftAddedFields
    <3> QED
      BY <3>2 DEF q, k
  <2>6. /\ DOMAIN new.candidateQueue = 1..(m + 1) /\ (\A i \in 1..m : new.candidateQueue[i] = candidates[i])
        /\ new.candidateQueue[m + 1] = record
    <3> HIDE DEF new, draft, record, review
    <3> QED
      BY <1>1, <1>2, <2>1, <2>5, AppendProperties, LenProperties
  <2>7. /\ DOMAIN new.drafts = 1..(n + 1) /\ (\A i \in 1..n : new.drafts[i] = drafts[i])
        /\ new.drafts[n + 1] = draft /\ Len(new.drafts) = n + 1
    <3> HIDE DEF new, draft, record, review
    <3> QED
      BY <1>1, <1>2, <2>2, <2>5, AppendProperties, LenProperties
  <2>8. /\ DOMAIN new.reviewQueue = 1..(n + 1) /\ (\A i \in 1..n : new.reviewQueue[i] = reviews[i])
        /\ new.reviewQueue[n + 1] = review /\ Len(new.reviewQueue) = n + 1
    <3> HIDE DEF new, draft, record, review
    <3> QED
      BY <1>1, <1>2, <2>3, <2>5, AppendProperties, LenProperties
  <2>9. (\A i \in 1..(m + 1) : i \in 1..m \/ i = m + 1) /\ \A i \in 1..(n + 1) : i \in 1..n \/ i = n + 1
    BY <1>2
  <2>10. \A i \in 1..n : drafts[i].source # source
    BY <1>2, <1>11 DEF DraftedSources
  <2>11. ShowsFirst(drafts, new.drafts)
    <3> HIDE DEF new, draft
    <3> QED
      BY <1>1, <2>2, <2>5, ShowsMore
  <2> HIDE DEF new, draft, record, review, queued, n, m, drafts, candidates, reviews
  <2>12. DraftsNumbered(new)
    BY <1>3, <2>2, <2>5, <2>7, <2>9, <2>10 DEF DraftsNumbered
  <2>13. ReviewsFollow(new)
    BY <1>4, <2>2, <2>3, <2>5, <2>7, <2>8, <2>9 DEF ReviewsFollow
  <2>14. CandidatesName(new)
    <3>1. \A k \in 1..(m + 1) : new.candidateQueue[k].draft \in 0..(n + 1)
      <4>1. n + 1 \in 0..(n + 1) /\ \A x \in 0..n : x \in 0..(n + 1)
        BY <1>2
      <4> QED
        BY <4>1, <1>5, <2>1, <2>6, <2>9
    <3>2. \A k, l \in 1..(m + 1) : new.candidateQueue[k].draft = new.candidateQueue[l].draft
            => k = l \/ new.candidateQueue[k].draft = 0
      <4>1. \A x \in 0..n : x # n + 1
        BY <1>2
      <4> QED
        BY <4>1, <1>5, <2>1, <2>6, <2>9
    <3>3. \A k \in 1..(m + 1) : new.candidateQueue[k].draft = 0
            \/ new.candidateQueue[k].source = new.drafts[new.candidateQueue[k].draft].source
      <4>1. ASSUME NEW k \in 1..m PROVE candidates[k].draft = 0 \/ candidates[k].draft \in 1..n
        <5>1. candidates[k].draft \in 0..n
          BY <1>5
        <5> QED
          BY <1>2, <5>1
      <4>2. ASSUME NEW k \in 1..m
            PROVE  candidates[k].draft = 0 \/ candidates[k].source = new.drafts[candidates[k].draft].source
        BY <4>1, <1>5, <2>7
      <4>3. new.candidateQueue[m + 1].source = new.drafts[new.candidateQueue[m + 1].draft].source
        BY <2>1, <2>2, <2>6, <2>7
      <4> QED
        BY <4>2, <4>3, <2>6, <2>9
    <3>4. \A i \in 1..(n + 1) :
            new.drafts[i].source \in DraftSources => \E k \in 1..(m + 1) : new.candidateQueue[k].draft = i
      <4>1. m + 1 \in 1..(m + 1) /\ \A k \in 1..m : k \in 1..(m + 1)
        BY <1>2
      <4>2. ASSUME NEW i \in 1..n, new.drafts[i].source \in DraftSources
            PROVE  \E k \in 1..(m + 1) : new.candidateQueue[k].draft = i
        BY <4>1, <4>2, <1>5, <2>6, <2>7
      <4>3. new.candidateQueue[m + 1].draft = n + 1
        BY <2>1, <2>6
      <4> QED
        BY <4>1, <4>2, <4>3, <2>9
    <3> QED
      BY <2>6, <2>7, <3>1, <3>2, <3>3, <3>4 DEF CandidatesName
  <2>15. QueueNumbered(new)
    <3>1. \A i \in 1..(m + 1) : new.candidateQueue[i].queueSequence <= queued + 1
      BY <1>2, <1>7, <1>8, <2>1, <2>6, <2>9
    <3>2. \A i \in 1..(n + 1) : new.reviewQueue[i].queueSequence <= queued + 1
      BY <1>2, <1>7, <1>8, <2>3, <2>8, <2>9
    <3>3. \A i, j \in 1..(m + 1) : new.candidateQueue[i].queueSequence = new.candidateQueue[j].queueSequence => i = j
      <4>1. \A i \in 1..m : candidates[i].queueSequence # queued
        BY <1>2, <1>7, <1>8
      <4> QED
        BY <4>1, <1>6, <2>1, <2>6, <2>9
    <3>4. \A i, j \in 1..(n + 1) : new.reviewQueue[i].queueSequence = new.reviewQueue[j].queueSequence => i = j
      <4>1. \A i \in 1..n : reviews[i].queueSequence # queued + 1
        BY <1>2, <1>7, <1>8
      <4> QED
        BY <4>1, <1>6, <2>3, <2>8, <2>9
    <3>5. \A i \in 1..(m + 1), j \in 1..(n + 1) :
            new.candidateQueue[i].queueSequence # new.reviewQueue[j].queueSequence
      <4>1. /\ (\A i \in 1..n : reviews[i].queueSequence # queued)
            /\ (\A i \in 1..m : candidates[i].queueSequence # queued + 1) /\ queued # queued + 1
        BY <1>2, <1>7, <1>8
      <4> QED
        BY <4>1, <1>6, <2>1, <2>3, <2>6, <2>8, <2>9
    <3> QED
      BY <2>5, <2>6, <2>8, <3>1, <3>2, <3>3, <3>4, <3>5 DEF QueueNumbered
  <2> QED
    BY <2>5, <2>11, <2>12, <2>13, <2>14, <2>15 DEF Story, new, drafts
<1> QED
  BY <1>9, <1>10, <1>11

-----------------------------------------------------------------------------
(* The draft of a task stored.                                              *)

LEMMA TaskDraftFields ==
  ASSUME NEW state \in WorkflowsType, NEW source \in TaskSources, NEW new, new = StoreTaskDraft(state, source),
         NEW draft, draft = [sequence |-> state.nextDraftSequence + 1, source |-> source, status |-> "draft"],
         NEW review, review = [queueSequence |-> state.nextQueueSequence + 1,
                               draft |-> state.nextDraftSequence + 1, status |-> "draft"]
  PROVE  /\ new \in WorkflowsType /\ draft \in DraftRecordType /\ review \in ReviewRecordType
         /\ new.nextQueueSequence = state.nextQueueSequence + 1
         /\ new.nextDraftSequence = state.nextDraftSequence + 1
         /\ new.candidateQueue = state.candidateQueue
         /\ new.drafts = Append(state.drafts, draft) /\ new.reviewQueue = Append(state.reviewQueue, review)
<1> DEFINE ds == Append(state.drafts, draft)
           rs == Append(state.reviewQueue, review)
           q == state.nextQueueSequence + 1
           k == state.nextDraftSequence + 1
<1>1. q \in Nat /\ k \in Nat /\ state.candidateQueue \in Seq(CandidateRecordType)
  BY DEF WorkflowsType
<1>2. draft \in DraftRecordType /\ review \in ReviewRecordType
  BY <1>1 DEF DraftRecordType, ReviewRecordType, AnySource, DraftStatuses
<1>3. ds \in Seq(DraftRecordType) /\ rs \in Seq(ReviewRecordType)
  BY <1>2, AppendProperties DEF WorkflowsType
<1>4. new = [drafts |-> ds, candidateQueue |-> state.candidateQueue, reviewQueue |-> rs,
             nextQueueSequence |-> q, nextDraftSequence |-> k]
  BY DEF StoreTaskDraft, WorkflowsType
<1> HIDE DEF ds, rs, q, k
<1>5. /\ new \in WorkflowsType /\ new.drafts = ds /\ new.reviewQueue = rs /\ new.nextQueueSequence = q
      /\ new.nextDraftSequence = k /\ new.candidateQueue = state.candidateQueue
  BY <1>1, <1>3, <1>4 DEF WorkflowsType
<1> QED
  BY <1>2, <1>5 DEF ds, rs, q, k

LEMMA TaskDraftStored ==
  ASSUME DraftAssumption, NEW state, Story(state), NEW source \in TaskSources
  PROVE  Story(StoreTaskDraft(state, source)) /\ ShowsFirst(state.drafts, StoreTaskDraft(state, source).drafts)
<1> DEFINE new == StoreTaskDraft(state, source)
           n == Len(state.drafts)
           last == state.nextQueueSequence
           drafts == state.drafts
           candidates == state.candidateQueue
           reviews == state.reviewQueue
           draft == [sequence |-> state.nextDraftSequence + 1, source |-> source, status |-> "draft"]
           review == [queueSequence |-> last + 1, draft |-> state.nextDraftSequence + 1, status |-> "draft"]
<1>1. /\ state \in WorkflowsType /\ drafts \in Seq(DraftRecordType) /\ candidates \in Seq(CandidateRecordType)
      /\ reviews \in Seq(ReviewRecordType) /\ last \in Nat /\ state.nextDraftSequence = n
  BY DEF Story, WorkflowsType, DraftsNumbered
<1>2. /\ n \in Nat /\ DOMAIN drafts = 1..n /\ Len(drafts) = n /\ Len(reviews) = n /\ DOMAIN reviews = 1..n
  BY <1>1, LenProperties DEF Story, ReviewsFollow
<1>3. /\ \A i \in 1..n : drafts[i].sequence = i
      /\ \A i, j \in 1..n : drafts[i].source \in DraftSources /\ drafts[i].source = drafts[j].source => i = j
  BY <1>2 DEF Story, DraftsNumbered
<1>4. \A i \in 1..n : reviews[i].draft = i /\ reviews[i].status = drafts[i].status
  BY <1>2 DEF Story, ReviewsFollow
<1>5. /\ \A k \in DOMAIN candidates : candidates[k].draft \in 0..n
      /\ \A k, l \in DOMAIN candidates : candidates[k].draft = candidates[l].draft => k = l \/ candidates[k].draft = 0
      /\ \A k \in DOMAIN candidates : candidates[k].draft = 0 \/ candidates[k].source = drafts[candidates[k].draft].source
      /\ \A i \in 1..n : drafts[i].source \in DraftSources => \E k \in DOMAIN candidates : candidates[k].draft = i
  BY <1>2 DEF Story, CandidatesName
<1>6. /\ \A i \in DOMAIN candidates : candidates[i].queueSequence <= last
      /\ \A i \in 1..n : reviews[i].queueSequence <= last
      /\ \A i, j \in DOMAIN candidates : candidates[i].queueSequence = candidates[j].queueSequence => i = j
      /\ \A i, j \in 1..n : reviews[i].queueSequence = reviews[j].queueSequence => i = j
      /\ \A i \in DOMAIN candidates, j \in 1..n : candidates[i].queueSequence # reviews[j].queueSequence
  BY <1>2 DEF Story, QueueNumbered
<1>7. /\ \A i \in DOMAIN candidates : candidates[i].queueSequence \in Nat
      /\ \A i \in 1..n : reviews[i].queueSequence \in Nat
  <2>1. (\A i \in DOMAIN candidates : candidates[i] \in CandidateRecordType)
        /\ \A i \in 1..n : reviews[i] \in ReviewRecordType
    BY <1>1, <1>2, LenProperties
  <2> QED
    BY <2>1 DEF CandidateRecordType, ReviewRecordType
<1>8. source \notin DraftSources
  BY DEF DraftAssumption
<1>9. /\ draft.sequence = n + 1 /\ draft.source = source /\ draft.status = "draft"
      /\ review.queueSequence = last + 1 /\ review.draft = n + 1 /\ review.status = "draft"
  BY <1>1
<1>10. /\ new \in WorkflowsType /\ draft \in DraftRecordType /\ review \in ReviewRecordType
       /\ new.nextQueueSequence = last + 1 /\ new.nextDraftSequence = n + 1
       /\ new.candidateQueue = candidates
       /\ new.drafts = Append(drafts, draft) /\ new.reviewQueue = Append(reviews, review)
  <2> HIDE DEF new, draft, review
  <2> QED
    BY <1>1, TaskDraftFields DEF new, draft, review
<1> HIDE DEF new, draft, review, n, last, drafts, candidates, reviews
<1>11. /\ DOMAIN new.drafts = 1..(n + 1) /\ (\A i \in 1..n : new.drafts[i] = drafts[i])
       /\ new.drafts[n + 1] = draft /\ Len(new.drafts) = n + 1
  BY <1>1, <1>2, <1>10, AppendProperties, LenProperties
<1>12. /\ DOMAIN new.reviewQueue = 1..(n + 1) /\ (\A i \in 1..n : new.reviewQueue[i] = reviews[i])
       /\ new.reviewQueue[n + 1] = review /\ Len(new.reviewQueue) = n + 1
  BY <1>1, <1>2, <1>10, AppendProperties, LenProperties
<1>13. \A i \in 1..(n + 1) : i \in 1..n \/ i = n + 1
  BY <1>2
<1>14. DraftsNumbered(new)
  BY <1>3, <1>8, <1>9, <1>10, <1>11, <1>13 DEF DraftsNumbered
<1>15. ReviewsFollow(new)
  BY <1>4, <1>9, <1>10, <1>11, <1>12, <1>13 DEF ReviewsFollow
<1>16. CandidatesName(new)
  <2>1. \A x \in 0..n : x \in 0..(n + 1) /\ (x = 0 \/ x \in 1..n)
    BY <1>2
  <2>2. \A k \in DOMAIN candidates :
          candidates[k].draft = 0 \/ candidates[k].source = new.drafts[candidates[k].draft].source
    BY <1>5, <1>11, <2>1
  <2>3. \A i \in 1..(n + 1) :
          new.drafts[i].source \in DraftSources => \E k \in DOMAIN candidates : candidates[k].draft = i
    BY <1>5, <1>8, <1>9, <1>11, <1>13
  <2> QED
    BY <1>5, <1>10, <1>11, <2>1, <2>2, <2>3 DEF CandidatesName
<1>17. QueueNumbered(new)
  <2>1. /\ \A i \in DOMAIN candidates : candidates[i].queueSequence <= last + 1 /\ candidates[i].queueSequence # last + 1
        /\ \A i \in 1..n : reviews[i].queueSequence <= last + 1 /\ reviews[i].queueSequence # last + 1
        /\ last + 1 <= last + 1
    BY <1>1, <1>6, <1>7
  <2>2. \A i \in 1..(n + 1) : new.reviewQueue[i].queueSequence <= last + 1
    BY <1>9, <1>12, <1>13, <2>1
  <2>3. \A i, j \in 1..(n + 1) : new.reviewQueue[i].queueSequence = new.reviewQueue[j].queueSequence => i = j
    BY <1>6, <1>9, <1>12, <1>13, <2>1
  <2>4. \A i \in DOMAIN candidates, j \in 1..(n + 1) : candidates[i].queueSequence # new.reviewQueue[j].queueSequence
    BY <1>6, <1>9, <1>12, <1>13, <2>1
  <2> QED
    BY <1>6, <1>10, <1>12, <2>1, <2>2, <2>3, <2>4 DEF QueueNumbered
<1>18. ShowsFirst(drafts, new.drafts)
  BY <1>1, <1>10, ShowsMore
<1> QED
  BY <1>10, <1>14, <1>15, <1>16, <1>17, <1>18 DEF Story, new, drafts

-----------------------------------------------------------------------------
(* A selection, one source of the ranking at a time.                        *)

Selecting(f, ranking, state, k) ==
  IF k = 0 THEN <<>>
  ELSE IF ranking[k] \in DraftedSources(state) \/ Len(f[k - 1]) >= CandidateLimit THEN f[k - 1]
  ELSE Append(f[k - 1], ranking[k])
SelectionFor(f, ranking, state, m) == f = [k \in 0..m |-> Selecting(f, ranking, state, k)]
SelectionOf(ranking, state, m) == CHOOSE f : SelectionFor(f, ranking, state, m)

LEMMA SelectionIs ==
  ASSUME NEW ranking, NEW state
  PROVE  SelectCandidates(ranking, state) = SelectionOf(ranking, state, Len(ranking))[Len(ranking)]
BY DEF SelectCandidates, SelectionOf, SelectionFor, Selecting

LEMMA SelectionExists ==
  ASSUME NEW ranking, NEW state, NEW m \in Nat
  PROVE  \E f : SelectionFor(f, ranking, state, m)
<1> USE DEF SelectionFor
<1> DEFINE Defined(n) == \E f : SelectionFor(f, ranking, state, n)
           Without == {n \in Nat : ~Defined(n)}
<1>1. Defined(0)
  <2> DEFINE g == [k \in 0..0 |-> <<>>]
  <2>1. \A k \in 0..0 : g[k] = Selecting(g, ranking, state, k)
    BY DEF Selecting
  <2>2. g = [k \in 0..0 |-> Selecting(g, ranking, state, k)]
    BY <2>1
  <2> QED
    BY <2>2
<1>2. ASSUME NEW n \in Nat, n # 0, Defined(n - 1) PROVE Defined(n)
  <2>1. PICK f : f = [k \in 0..(n - 1) |-> Selecting(f, ranking, state, k)]
    BY <1>2
  <2> DEFINE g == [k \in 0..n |-> IF k = n THEN Selecting(f, ranking, state, n) ELSE f[k]]
  <2>2. \A k \in 0..n : k # 0 => k - 1 \in 0..(n - 1) /\ g[k - 1] = f[k - 1]
    OBVIOUS
  <2>3. ASSUME NEW k \in 0..n PROVE Selecting(g, ranking, state, k) = Selecting(f, ranking, state, k)
    <3> HIDE DEF g
    <3> QED
      BY <2>2 DEF Selecting
  <2>4. \A k \in 0..(n - 1) : f[k] = Selecting(f, ranking, state, k)
    BY <2>1
  <2>5. \A k \in 0..n : g[k] = Selecting(g, ranking, state, k)
    BY <2>3, <2>4
  <2>6. g = [k \in 0..n |-> Selecting(g, ranking, state, k)]
    BY <2>5
  <2> QED
    BY <2>6
<1> HIDE DEF Defined
<1>3. Without = {}
  <2> SUFFICES ASSUME Without # {} PROVE FALSE
    OBVIOUS
  <2>1. PICK n \in Without : \A k \in Without : n <= k
    <3>1. Without \subseteq Nat
      OBVIOUS
    <3> HIDE DEF Without
    <3> QED
      BY <3>1, LeastNumber
  <2>2. n \in Nat /\ n # 0 /\ ~Defined(n) /\ n - 1 \in Nat
    BY <1>1, <2>1
  <2>3. n - 1 \notin Without
    BY <2>1, <2>2
  <2> QED
    BY <1>2, <2>2, <2>3
<1> QED
  BY <1>3 DEF Defined

LEMMA SelectionEquation ==
  ASSUME NEW ranking, NEW state, NEW m \in Nat
  PROVE  \A k \in 0..m : SelectionOf(ranking, state, m)[k] = Selecting(SelectionOf(ranking, state, m), ranking, state, k)
<1> DEFINE g == SelectionOf(ranking, state, m)
<1>1. \E f : SelectionFor(f, ranking, state, m)
  BY SelectionExists
<1>2. SelectionFor(g, ranking, state, m)
  BY <1>1 DEF SelectionOf
<1>3. \A k \in 0..m : g[k] = Selecting(g, ranking, state, k)
  <2> HIDE DEF g
  <2> QED
    BY <1>2 DEF SelectionFor
<1> QED
  BY <1>3

LEMMA SelectsSources ==
  ASSUME NEW ranking \in Seq(DraftSources), NEW state
  PROVE  SelectCandidates(ranking, state) \in Seq(DraftSources)
<1> DEFINE m == Len(ranking)
           f == SelectionOf(ranking, state, m)
           Other == {k \in 0..m : f[k] \notin Seq(DraftSources)}
<1>1. m \in Nat /\ \A k \in 1..m : ranking[k] \in DraftSources
  BY LenProperties
<1>2. \A k \in 0..m : f[k] = Selecting(f, ranking, state, k)
  BY <1>1, SelectionEquation
<1>3. <<>> \in Seq(DraftSources)
  OBVIOUS
<1> HIDE DEF f, m
<1>4. Other = {}
  <2> SUFFICES ASSUME Other # {} PROVE FALSE
    OBVIOUS
  <2>1. PICK n \in Other : \A k \in Other : n <= k
    <3>1. Other \subseteq Nat
      BY <1>1
    <3> HIDE DEF Other
    <3> QED
      BY <3>1, LeastNumber
  <2>2. n \in 0..m /\ f[n] \notin Seq(DraftSources)
    BY <2>1
  <2>3. n # 0
    BY <1>2, <1>3, <2>2 DEF Selecting
  <2>4. n - 1 \in 0..m /\ n \in 1..m /\ ~(n <= n - 1)
    BY <1>1, <2>2, <2>3
  <2>5. f[n - 1] \in Seq(DraftSources)
    BY <2>1, <2>4
  <2>6. Append(f[n - 1], ranking[n]) \in Seq(DraftSources)
    BY <1>1, <2>4, <2>5, AppendProperties
  <2>7. f[n] = Selecting(f, ranking, state, n)
    BY <1>2, <2>2
  <2> QED
    BY <2>2, <2>3, <2>5, <2>6, <2>7 DEF Selecting
<1>5. m \in 0..m
  BY <1>1
<1> QED
  BY <1>4, <1>5, SelectionIs DEF f, m

-----------------------------------------------------------------------------
(* A transaction, one selected source at a time.                            *)

Storing(f, state, selected, k) == IF k = 0 THEN state ELSE StoreCandidate(f[k - 1], selected[k])
StoredFor(f, state, selected, m) == f = [k \in 0..m |-> Storing(f, state, selected, k)]
StoredOf(state, selected, m) == CHOOSE f : StoredFor(f, state, selected, m)

LEMMA StoredIs ==
  ASSUME NEW state, NEW selected
  PROVE  StoreCandidates(state, selected) = StoredOf(state, selected, Len(selected))[Len(selected)]
BY DEF StoreCandidates, StoredOf, StoredFor, Storing

LEMMA StoredExists ==
  ASSUME NEW state, NEW selected, NEW m \in Nat
  PROVE  \E f : StoredFor(f, state, selected, m)
<1> USE DEF StoredFor
<1> DEFINE Defined(n) == \E f : StoredFor(f, state, selected, n)
           Without == {n \in Nat : ~Defined(n)}
<1>1. Defined(0)
  <2> DEFINE g == [k \in 0..0 |-> state]
  <2>1. \A k \in 0..0 : g[k] = Storing(g, state, selected, k)
    BY DEF Storing
  <2>2. g = [k \in 0..0 |-> Storing(g, state, selected, k)]
    BY <2>1
  <2> QED
    BY <2>2
<1>2. ASSUME NEW n \in Nat, n # 0, Defined(n - 1) PROVE Defined(n)
  <2>1. PICK f : f = [k \in 0..(n - 1) |-> Storing(f, state, selected, k)]
    BY <1>2
  <2> DEFINE g == [k \in 0..n |-> IF k = n THEN Storing(f, state, selected, n) ELSE f[k]]
  <2>2. \A k \in 0..n : k # 0 => k - 1 \in 0..(n - 1) /\ g[k - 1] = f[k - 1]
    OBVIOUS
  <2>3. ASSUME NEW k \in 0..n PROVE Storing(g, state, selected, k) = Storing(f, state, selected, k)
    <3> HIDE DEF g
    <3> QED
      BY <2>2 DEF Storing
  <2>4. \A k \in 0..(n - 1) : f[k] = Storing(f, state, selected, k)
    BY <2>1
  <2>5. \A k \in 0..n : g[k] = Storing(g, state, selected, k)
    BY <2>3, <2>4
  <2>6. g = [k \in 0..n |-> Storing(g, state, selected, k)]
    BY <2>5
  <2> QED
    BY <2>6
<1> HIDE DEF Defined
<1>3. Without = {}
  <2> SUFFICES ASSUME Without # {} PROVE FALSE
    OBVIOUS
  <2>1. PICK n \in Without : \A k \in Without : n <= k
    <3>1. Without \subseteq Nat
      OBVIOUS
    <3> HIDE DEF Without
    <3> QED
      BY <3>1, LeastNumber
  <2>2. n \in Nat /\ n # 0 /\ ~Defined(n) /\ n - 1 \in Nat
    BY <1>1, <2>1
  <2>3. n - 1 \notin Without
    BY <2>1, <2>2
  <2> QED
    BY <1>2, <2>2, <2>3
<1> QED
  BY <1>3 DEF Defined

LEMMA StoredEquation ==
  ASSUME NEW state, NEW selected, NEW m \in Nat
  PROVE  \A k \in 0..m : StoredOf(state, selected, m)[k] = Storing(StoredOf(state, selected, m), state, selected, k)
<1> DEFINE g == StoredOf(state, selected, m)
<1>1. \E f : StoredFor(f, state, selected, m)
  BY StoredExists
<1>2. StoredFor(g, state, selected, m)
  BY <1>1 DEF StoredOf
<1>3. \A k \in 0..m : g[k] = Storing(g, state, selected, k)
  <2> HIDE DEF g
  <2> QED
    BY <1>2 DEF StoredFor
<1> QED
  BY <1>3

LEMMA StoredAll ==
  ASSUME DraftAssumption, NEW state, Story(state), NEW selected \in Seq(DraftSources)
  PROVE  Story(StoreCandidates(state, selected)) /\ ShowsFirst(state.drafts, StoreCandidates(state, selected).drafts)
<1> DEFINE m == Len(selected)
           f == StoredOf(state, selected, m)
           Good(k) == Story(f[k]) /\ ShowsFirst(state.drafts, f[k].drafts)
           Other == {k \in 0..m : ~Good(k)}
<1>1. m \in Nat /\ \A k \in 1..m : selected[k] \in DraftSources
  BY LenProperties
<1>2. \A k \in 0..m : f[k] = Storing(f, state, selected, k)
  BY <1>1, StoredEquation
<1>3. \A s : Story(s) => s.drafts \in Seq(DraftRecordType)
  BY DEF Story, WorkflowsType
<1> HIDE DEF f, m
<1>4. 0 \in 0..m /\ Good(0)
  <2>1. 0 \in 0..m /\ f[0] = state
    BY <1>1, <1>2 DEF Storing
  <2> QED
    BY <2>1, <1>3, ShowsItself
<1>5. ASSUME NEW n \in 1..m, Good(n - 1) PROVE Good(n)
  <2>1. n \in 0..m /\ n # 0
    BY <1>1
  <2>2. f[n] = StoreCandidate(f[n - 1], selected[n])
    BY <1>2, <2>1 DEF Storing
  <2> DEFINE s == f[n - 1]
             source == selected[n]
  <2>3. Story(s) /\ source \in DraftSources /\ ShowsFirst(state.drafts, s.drafts)
    BY <1>1, <1>5
  <2> HIDE DEF s, source
  <2>4. Story(StoreCandidate(s, source)) /\ ShowsFirst(s.drafts, StoreCandidate(s, source).drafts)
    BY <2>3, StoredOnce
  <2>5. ShowsFirst(state.drafts, StoreCandidate(s, source).drafts)
    BY <1>3, <2>3, <2>4, ShowsThrough
  <2> QED
    BY <2>2, <2>4, <2>5 DEF s, source
<1> HIDE DEF Good
<1>6. Other = {}
  <2> SUFFICES ASSUME Other # {} PROVE FALSE
    OBVIOUS
  <2>1. PICK n \in Other : \A k \in Other : n <= k
    <3>1. Other \subseteq Nat
      BY <1>1
    <3> HIDE DEF Other
    <3> QED
      BY <3>1, LeastNumber
  <2>2. n \in 0..m /\ ~Good(n) /\ n # 0
    BY <1>4, <2>1
  <2>3. n \in 1..m /\ n - 1 \in 0..m /\ ~(n <= n - 1)
    BY <1>1, <2>2
  <2>4. Good(n - 1)
    BY <2>1, <2>3
  <2> QED
    BY <1>5, <2>2, <2>3, <2>4
<1>7. Good(m)
  BY <1>1, <1>6
<1> QED
  BY <1>7, StoredIs DEF Good, f, m

-----------------------------------------------------------------------------
(* The steps of the drafts.                                                  *)

LEMMA RunFields ==
  ASSUME NEW c \in DraftRunType
  PROVE  c.selected \in Seq(DraftSources) /\ c.read \in Seq(DraftRecordType)
BY DEF DraftRunType

LEMMA DraftIdleType == DraftIdle \in DraftRunType /\ DraftIdle.read = <<>>
<1>1. <<>> \in Seq(DraftSources) /\ <<>> \in Seq(DraftRecordType)
  OBVIOUS
<1> QED
  BY <1>1 DEF DraftIdle, DraftRunType

LEMMA DraftsAreRecords == ASSUME DraftInv PROVE workflows.drafts \in Seq(DraftRecordType)
BY DEF DraftInv, Story, WorkflowsType

\* One run moves on, and shows first drafts still.
LEMMA RunMoves ==
  ASSUME DraftInv, UNCHANGED <<workflows, draftLines>>, NEW r \in Runners, NEW c \in DraftRunType,
         ShowsFirst(c.read, workflows.drafts), runs' = [runs EXCEPT ![r] = c]
  PROVE  DraftInv'
<1>1. runs' \in [Runners -> DraftRunType] /\ \A v \in Runners : runs'[v] = runs[v] \/ runs'[v] = c
  BY DEF DraftInv
<1>2. \A v \in Runners : ShowsFirst(runs'[v].read, workflows'.drafts)
  BY <1>1 DEF DraftInv
<1>3. draftLines' \in Seq(DraftRecordType) /\ ShowsFirst(draftLines', workflows'.drafts)
  BY DEF DraftInv
<1>4. Story(workflows')
  BY DEF DraftInv
<1>5. DraftInv' = (/\ Story(workflows') /\ runs' \in [Runners -> DraftRunType] /\ draftLines' \in Seq(DraftRecordType)
                   /\ ShowsFirst(draftLines', workflows'.drafts)
                   /\ \A v \in Runners : ShowsFirst(runs'[v].read, workflows'.drafts))
  BY DEF DraftInv
<1> QED
  BY <1>1, <1>2, <1>3, <1>4, <1>5

LEMMA SelectKeeps == ASSUME DraftAssumption, DraftInv, NEW r \in Runners, Select(r) PROVE DraftInv'
<1>1. PICK ranking \in Rankings :
        runs' = [runs EXCEPT ![r] =
                   [stage |-> IF SelectCandidates(ranking, workflows) = <<>> THEN "write" ELSE "commit",
                    selected |-> SelectCandidates(ranking, workflows), read |-> workflows.drafts]]
  BY DEF Select
<1> DEFINE selected == SelectCandidates(ranking, workflows)
           c == [stage |-> IF selected = <<>> THEN "write" ELSE "commit", selected |-> selected,
                 read |-> workflows.drafts]
<1>2. ranking \in Seq(DraftSources)
  BY DEF DraftAssumption
<1>3. selected \in Seq(DraftSources)
  BY <1>2, SelectsSources
<1>4. runs' = [runs EXCEPT ![r] = c]
  BY <1>1
<1> HIDE DEF selected
<1>5. c \in DraftRunType /\ c.read = workflows.drafts
  BY <1>3, DraftsAreRecords DEF DraftRunType
<1> HIDE DEF c
<1>6. ShowsFirst(c.read, workflows.drafts)
  BY <1>5, DraftsAreRecords, ShowsItself
<1>7. UNCHANGED <<workflows, draftLines>>
  BY DEF Select
<1> QED
  BY <1>4, <1>5, <1>6, <1>7, RunMoves

LEMMA RunEndKeeps ==
  ASSUME DraftInv, NEW r \in Runners, UNCHANGED <<workflows, draftLines>>, runs' = [runs EXCEPT ![r] = DraftIdle]
  PROVE  DraftInv'
<1>1. ShowsFirst(DraftIdle.read, workflows.drafts)
  BY DraftIdleType, DraftsAreRecords, ShowsNone
<1> QED
  BY <1>1, DraftIdleType, RunMoves

LEMMA ReadAgainKeeps ==
  ASSUME DraftInv, NEW r \in Runners, UNCHANGED <<workflows, draftLines>>,
         runs' = [runs EXCEPT ![r].stage = "write", ![r].read = workflows.drafts]
  PROVE  DraftInv'
<1> DEFINE b == [runs[r] EXCEPT !.stage = "write"]
           c == [b EXCEPT !.read = workflows.drafts]
<1>1. runs[r] \in DraftRunType
  BY DEF DraftInv
<1>2. b \in DraftRunType
  BY <1>1 DEF DraftRunType
<1>4. runs' = [runs EXCEPT ![r] = c]
  BY DEF DraftInv
<1> HIDE DEF b
<1>5. c \in DraftRunType /\ c.read = workflows.drafts
  BY <1>2, DraftsAreRecords DEF DraftRunType
<1> HIDE DEF c
<1>6. ShowsFirst(c.read, workflows.drafts)
  BY <1>5, DraftsAreRecords, ShowsItself
<1> QED
  BY <1>1, <1>4, <1>5, <1>6, RunMoves

LEMMA RefreshKeeps == ASSUME DraftInv, NEW r \in Runners, Refresh(r) \/ ReconcileArtifact(r) PROVE DraftInv'
<1>1. CASE ReconcileArtifact(r)
  BY <1>1, ReadAgainKeeps DEF ReconcileArtifact
<1>2. CASE Refresh(r) /\ DraftReplayVerifies(workflows)
  BY <1>2, ReadAgainKeeps DEF Refresh
<1>3. CASE Refresh(r) /\ ~DraftReplayVerifies(workflows)
  BY <1>3, RunEndKeeps DEF Refresh
<1> QED
  BY <1>1, <1>2, <1>3

LEMMA ArtifactWriteKeeps == ASSUME DraftInv, NEW r \in Runners, WriteArtifact(r) PROVE DraftInv'
<1>1. workflows' = workflows /\ draftLines' = runs[r].read /\ runs' = [runs EXCEPT ![r] = DraftIdle]
  BY DEF WriteArtifact, ArtifactLines
<1>2. ShowsFirst(<<>>, workflows.drafts) /\ DraftIdle.read = <<>> /\ DraftIdle \in DraftRunType
  BY DraftIdleType, DraftsAreRecords, ShowsNone
<1>3. draftLines' \in Seq(DraftRecordType) /\ ShowsFirst(draftLines', workflows'.drafts)
  <2>1. runs[r] \in DraftRunType /\ ShowsFirst(runs[r].read, workflows.drafts)
    BY DEF DraftInv
  <2> QED
    BY <1>1, <2>1, RunFields
<1>4. runs' \in [Runners -> DraftRunType] /\ \A v \in Runners : ShowsFirst(runs'[v].read, workflows'.drafts)
  BY <1>1, <1>2 DEF DraftInv
<1>5. Story(workflows')
  BY <1>1 DEF DraftInv
<1>6. DraftInv' = (/\ Story(workflows') /\ runs' \in [Runners -> DraftRunType] /\ draftLines' \in Seq(DraftRecordType)
                   /\ ShowsFirst(draftLines', workflows'.drafts)
                   /\ \A v \in Runners : ShowsFirst(runs'[v].read, workflows'.drafts))
  BY DEF DraftInv
<1> QED
  BY <1>3, <1>4, <1>5, <1>6

\* The workflows move on, and every first draft stays one.
LEMMA WorkflowsMove ==
  ASSUME DraftInv, NEW new, Story(new), ShowsFirst(workflows.drafts, new.drafts), workflows' = new, draftLines' = draftLines,
         runs' \in [Runners -> DraftRunType], \A r \in Runners : runs'[r].read = runs[r].read
  PROVE  DraftInv'
<1>1. workflows.drafts \in Seq(DraftRecordType) /\ new.drafts \in Seq(DraftRecordType)
  BY DEF DraftInv, Story, WorkflowsType
<1>2. draftLines \in Seq(DraftRecordType) /\ ShowsFirst(draftLines, workflows.drafts)
  BY DEF DraftInv
<1>3. ShowsFirst(draftLines, new.drafts)
  BY <1>1, <1>2, ShowsThrough
<1>4. ASSUME NEW r \in Runners PROVE ShowsFirst(runs'[r].read, new.drafts)
  <2>1. runs[r].read \in Seq(DraftRecordType) /\ ShowsFirst(runs[r].read, workflows.drafts)
    BY RunFields DEF DraftInv
  <2>2. ShowsFirst(runs[r].read, new.drafts)
    BY <1>1, <2>1, ShowsThrough
  <2> QED
    BY <2>2
<1>5. DraftInv' = (/\ Story(workflows') /\ runs' \in [Runners -> DraftRunType] /\ draftLines' \in Seq(DraftRecordType)
                   /\ ShowsFirst(draftLines', workflows'.drafts)
                   /\ \A v \in Runners : ShowsFirst(runs'[v].read, workflows'.drafts))
  BY DEF DraftInv
<1> QED
  BY <1>2, <1>3, <1>4, <1>5

LEMMA CommitKeeps == ASSUME DraftAssumption, DraftInv, NEW r \in Runners, Commit(r) PROVE DraftInv'
<1> DEFINE selected == runs[r].selected
           new == StoreCandidates(workflows, selected)
<1>1. selected \in Seq(DraftSources) /\ Story(workflows)
  BY RunFields DEF DraftInv
<1> HIDE DEF selected
<1>2. Story(new) /\ ShowsFirst(workflows.drafts, new.drafts)
  BY <1>1, StoredAll
<1>3. workflows' = new /\ draftLines' = draftLines
  BY DEF Commit, selected
<1>4. runs' \in [Runners -> DraftRunType] /\ \A v \in Runners : runs'[v].read = runs[v].read
  <2> DEFINE b == [runs[r] EXCEPT !.stage = "refresh"]
  <2>1. runs[r] \in DraftRunType /\ runs \in [Runners -> DraftRunType]
    BY DEF DraftInv
  <2>2. b \in DraftRunType /\ b.read = runs[r].read
    BY <2>1 DEF DraftRunType
  <2>3. runs' = [runs EXCEPT ![r] = b]
    BY DEF Commit
  <2> HIDE DEF b
  <2> QED
    BY <2>1, <2>2, <2>3
<1> HIDE DEF new
<1> QED
  BY <1>2, <1>3, <1>4, WorkflowsMove

LEMMA TaskDraftKeeps ==
  ASSUME DraftAssumption, DraftInv, NEW source \in TaskSources, GenerateTaskDraft(source)
  PROVE  DraftInv'
<1> DEFINE new == StoreTaskDraft(workflows, source)
<1>1. Story(workflows)
  BY DEF DraftInv
<1>2. Story(new) /\ ShowsFirst(workflows.drafts, new.drafts)
  BY <1>1, TaskDraftStored
<1>3. workflows' = new /\ draftLines' = draftLines /\ runs' = runs
  BY DEF GenerateTaskDraft
<1>4. runs' \in [Runners -> DraftRunType] /\ \A v \in Runners : runs'[v].read = runs[v].read
  BY <1>3 DEF DraftInv
<1> HIDE DEF new
<1> QED
  BY <1>2, <1>3, <1>4, WorkflowsMove

\* A list with the status of some entries changed.
LEMMA Restated ==
  ASSUME NEW T, NEW list \in Seq(T), NEW new, DOMAIN new = DOMAIN list,
         \A i \in DOMAIN list : new[i] \in T, new = [i \in DOMAIN list |-> new[i]]
  PROVE  new \in Seq(T) /\ Len(new) = Len(list)
<1>1. Len(list) \in Nat /\ DOMAIN list = 1..Len(list)
  BY LenProperties
<1>2. new \in [1..Len(list) -> T]
  BY <1>1
<1>3. new \in Seq(T)
  BY <1>1, <1>2, SeqDef
<1>4. Len(new) \in Nat /\ DOMAIN new = 1..Len(new)
  BY <1>3, LenProperties
<1>5. Len(new) = Len(list)
  BY <1>1, <1>4
<1> QED
  BY <1>3, <1>5

LEMMA TransitionKeeps ==
  ASSUME DraftInv, NEW sequence, NEW to \in DraftStatuses, TransitionStatus(sequence, to)
  PROVE  DraftInv'
<1> DEFINE drafts == workflows.drafts
           reviews == workflows.reviewQueue
           n == Len(drafts)
           ds == [i \in DOMAIN drafts |-> IF drafts[i].sequence = sequence THEN [drafts[i] EXCEPT !.status = to] ELSE drafts[i]]
           rs == [i \in DOMAIN reviews |->
                    IF reviews[i].draft = sequence THEN [reviews[i] EXCEPT !.status = to] ELSE reviews[i]]
           b == [workflows EXCEPT !.drafts = ds]
           new == [b EXCEPT !.reviewQueue = rs]
<1>1. /\ workflows \in WorkflowsType /\ drafts \in Seq(DraftRecordType) /\ reviews \in Seq(ReviewRecordType)
      /\ DraftsNumbered(workflows) /\ ReviewsFollow(workflows) /\ CandidatesName(workflows) /\ QueueNumbered(workflows)
  BY DEF DraftInv, Story, WorkflowsType
<1>2. /\ n \in Nat /\ DOMAIN drafts = 1..n /\ DOMAIN reviews = 1..n /\ Len(reviews) = n
      /\ (\A i \in 1..n : drafts[i] \in DraftRecordType) /\ \A i \in 1..n : reviews[i] \in ReviewRecordType
  BY <1>1, LenProperties DEF ReviewsFollow
<1>3. \A i \in 1..n : /\ ds[i] \in DraftRecordType /\ ds[i].sequence = drafts[i].sequence
                      /\ ds[i].source = drafts[i].source
                      /\ ds[i].status = IF drafts[i].sequence = sequence THEN to ELSE drafts[i].status
  BY <1>2 DEF DraftRecordType
<1>4. \A i \in 1..n : /\ rs[i] \in ReviewRecordType /\ rs[i].draft = reviews[i].draft
                      /\ rs[i].queueSequence = reviews[i].queueSequence
                      /\ rs[i].status = IF reviews[i].draft = sequence THEN to ELSE reviews[i].status
  BY <1>2 DEF ReviewRecordType
<1>5. DOMAIN ds = 1..n /\ DOMAIN rs = 1..n /\ ds = [i \in DOMAIN drafts |-> ds[i]] /\ rs = [i \in DOMAIN reviews |-> rs[i]]
  BY <1>2
<1>6. workflows' = new /\ UNCHANGED <<runs, draftLines>>
  BY <1>1 DEF TransitionStatus, WorkflowsType
<1> HIDE DEF ds, rs
<1>7. ds \in Seq(DraftRecordType) /\ Len(ds) = n
  <2>1. DOMAIN ds = DOMAIN drafts /\ ds = [i \in DOMAIN drafts |-> ds[i]]
        /\ \A i \in DOMAIN drafts : ds[i] \in DraftRecordType
    BY <1>2, <1>3, <1>5
  <2> HIDE DEF drafts
  <2> QED
    BY <1>1, <2>1, Restated DEF n
<1>8. rs \in Seq(ReviewRecordType) /\ Len(rs) = n
  <2>1. DOMAIN rs = DOMAIN reviews /\ rs = [i \in DOMAIN reviews |-> rs[i]]
        /\ \A i \in DOMAIN reviews : rs[i] \in ReviewRecordType
    BY <1>2, <1>4, <1>5
  <2> HIDE DEF reviews
  <2>2. rs \in Seq(ReviewRecordType) /\ Len(rs) = Len(reviews)
    BY <1>1, <2>1, Restated
  <2> QED
    BY <1>2, <2>2
<1>9. /\ b \in WorkflowsType /\ b.drafts = ds /\ b.candidateQueue = workflows.candidateQueue
      /\ b.nextQueueSequence = workflows.nextQueueSequence /\ b.nextDraftSequence = workflows.nextDraftSequence
  BY <1>1, <1>7 DEF WorkflowsType
<1> HIDE DEF b
<1>10. /\ new \in WorkflowsType /\ new.drafts = ds /\ new.candidateQueue = workflows.candidateQueue
       /\ new.nextQueueSequence = workflows.nextQueueSequence /\ new.nextDraftSequence = workflows.nextDraftSequence
       /\ new.reviewQueue = rs
  BY <1>8, <1>9 DEF WorkflowsType
<1> HIDE DEF new
<1>11. DraftsNumbered(new)
  <2>1. /\ workflows.nextDraftSequence = n
        /\ \A i \in 1..n : drafts[i].sequence = i
        /\ \A i, j \in 1..n : drafts[i].source \in DraftSources /\ drafts[i].source = drafts[j].source => i = j
    BY <1>1, <1>2 DEF DraftsNumbered
  <2>2. DOMAIN new.drafts = 1..n /\ Len(new.drafts) = n /\ new.nextDraftSequence = n
    BY <1>5, <1>7, <1>10, <2>1
  <2>3. \A i \in 1..n : new.drafts[i].sequence = drafts[i].sequence /\ new.drafts[i].source = drafts[i].source
    BY <1>3, <1>10
  <2> HIDE DEF n, drafts
  <2> QED
    BY <2>1, <2>2, <2>3 DEF DraftsNumbered
<1>12. ReviewsFollow(new)
  <2>1. \A i \in 1..n : reviews[i].draft = i /\ reviews[i].status = drafts[i].status /\ drafts[i].sequence = i
    BY <1>1, <1>2 DEF ReviewsFollow, DraftsNumbered
  <2>2. \A i \in 1..n : rs[i].draft = i /\ rs[i].status = ds[i].status
    BY <1>3, <1>4, <2>1
  <2> QED
    BY <1>5, <1>7, <1>8, <1>10, <2>2 DEF ReviewsFollow
<1>13. CandidatesName(new)
  <2> DEFINE candidates == workflows.candidateQueue
  <2>1. /\ \A k \in DOMAIN candidates : candidates[k].draft \in 0..n
        /\ \A k, l \in DOMAIN candidates : candidates[k].draft = candidates[l].draft => k = l \/ candidates[k].draft = 0
        /\ \A k \in DOMAIN candidates : candidates[k].draft = 0 \/ candidates[k].source = drafts[candidates[k].draft].source
        /\ \A i \in 1..n : drafts[i].source \in DraftSources => \E k \in DOMAIN candidates : candidates[k].draft = i
    BY <1>1, <1>2 DEF CandidatesName
  <2>2. DOMAIN new.drafts = 1..n /\ Len(new.drafts) = n /\ new.candidateQueue = candidates
    BY <1>5, <1>7, <1>10
  <2>3. \A i \in 1..n : new.drafts[i].source = drafts[i].source
    BY <1>3, <1>10
  <2>4. \A x \in 0..n : x = 0 \/ x \in 1..n
    BY <1>2
  <2> HIDE DEF n, drafts, candidates
  <2>5. \A k \in DOMAIN candidates :
          candidates[k].draft = 0 \/ candidates[k].source = new.drafts[candidates[k].draft].source
    BY <2>1, <2>3, <2>4
  <2> QED
    BY <2>1, <2>2, <2>3, <2>5 DEF CandidatesName
<1>14. QueueNumbered(new)
  <2> DEFINE candidates == workflows.candidateQueue
             next == workflows.nextQueueSequence
  <2>1. /\ \A i \in DOMAIN candidates : candidates[i].queueSequence <= next
        /\ \A i \in 1..n : reviews[i].queueSequence <= next
        /\ \A i, j \in DOMAIN candidates : candidates[i].queueSequence = candidates[j].queueSequence => i = j
        /\ \A i, j \in 1..n : reviews[i].queueSequence = reviews[j].queueSequence => i = j
        /\ \A i \in DOMAIN candidates, j \in 1..n : candidates[i].queueSequence # reviews[j].queueSequence
    BY <1>1, <1>2 DEF QueueNumbered
  <2>2. DOMAIN new.reviewQueue = 1..n /\ new.candidateQueue = candidates /\ new.nextQueueSequence = next
    BY <1>5, <1>10
  <2>3. \A i \in 1..n : new.reviewQueue[i].queueSequence = reviews[i].queueSequence
    BY <1>4, <1>10
  <2> HIDE DEF n, reviews, candidates, next
  <2> QED
    BY <2>1, <2>2, <2>3 DEF QueueNumbered
<1>15. Story(new)
  BY <1>10, <1>11, <1>12, <1>13, <1>14 DEF Story
<1>16. ShowsFirst(workflows.drafts, new.drafts)
  BY <1>2, <1>3, <1>7, <1>10 DEF ShowsFirst
<1>17. runs' \in [Runners -> DraftRunType] /\ \A v \in Runners : runs'[v].read = runs[v].read
  BY <1>6 DEF DraftInv
<1> QED
  BY <1>6, <1>15, <1>16, <1>17, WorkflowsMove

LEMMA DraftInitHolds == DraftInit => DraftInv
<1> SUFFICES ASSUME DraftInit PROVE DraftInv
  OBVIOUS
<1>1. /\ <<>> \in Seq(DraftRecordType) /\ <<>> \in Seq(CandidateRecordType) /\ <<>> \in Seq(ReviewRecordType)
      /\ DOMAIN <<>> = {} /\ Len(<<>>) = 0
  OBVIOUS
<1>2. /\ workflows \in WorkflowsType /\ workflows.drafts = <<>> /\ workflows.candidateQueue = <<>>
      /\ workflows.reviewQueue = <<>> /\ workflows.nextDraftSequence = 0
  BY <1>1 DEF DraftInit, WorkflowsType
<1>3. Story(workflows)
  BY <1>1, <1>2 DEF Story, DraftsNumbered, ReviewsFollow, CandidatesName, QueueNumbered
<1>4. ShowsFirst(<<>>, <<>>)
  BY <1>1, ShowsNone
<1>5. \A r \in Runners : runs[r] = DraftIdle
  BY DEF DraftInit
<1>6. runs \in [Runners -> DraftRunType]
  BY DraftIdleType DEF DraftInit
<1> QED
  BY <1>1, <1>2, <1>3, <1>4, <1>5, <1>6, DraftIdleType DEF DraftInit, DraftInv

\* A step of the drafts keeps the invariant.
LEMMA DraftKeeps == DraftAssumption /\ DraftInv /\ [DraftNext]_draftVars => DraftInv'
<1> SUFFICES ASSUME DraftAssumption, DraftInv, [DraftNext]_draftVars PROVE DraftInv'
  OBVIOUS
<1>1. CASE \E r \in Runners : Select(r) \/ Commit(r) \/ Refresh(r)
  BY <1>1, SelectKeeps, CommitKeeps, RefreshKeeps
<1>2. CASE \E r \in Runners : WriteArtifact(r) \/ EndRun(r) \/ ReconcileArtifact(r)
  BY <1>2, ArtifactWriteKeeps, RunEndKeeps, RefreshKeeps DEF EndRun
<1>5. CASE \E source \in TaskSources : GenerateTaskDraft(source)
  BY <1>5, TaskDraftKeeps
<1>3. CASE \E sequence \in 1..Len(workflows.drafts), to \in DraftStatuses : TransitionStatus(sequence, to)
  BY <1>3, TransitionKeeps
<1>4. CASE UNCHANGED draftVars
  BY <1>4 DEF draftVars, DraftInv
<1> QED
  BY <1>1, <1>2, <1>3, <1>4, <1>5 DEF DraftNext

\* The invariant of the drafts holds in every behaviour.
LEMMA DraftInvariant == DraftSpec => []DraftInv
BY DraftInitHolds, DraftKeeps, DraftAssumption, PTL DEF DraftSpec

\* Drafts, queues and runs stay well formed (pipeline-runner.js, rlhf-review.js).
THEOREM DraftTypes == DraftSpec => []DraftTypeOK
<1>1. DraftInv => DraftTypeOK
  <2> SUFFICES ASSUME DraftInv PROVE DraftTypeOK
    OBVIOUS
  <2>1. \A i \in DOMAIN workflows.drafts : workflows.drafts[i] \in DraftRecordType
    BY DraftsAreRecords, LenProperties
  <2>2. workflows.nextQueueSequence \in Nat /\ workflows.nextDraftSequence \in Nat
    BY DEF DraftInv, Story, WorkflowsType
  <2>3. runs \in [Runners -> DraftRunType]
    BY DEF DraftInv
  <2> QED
    BY <2>1, <2>2, <2>3 DEF DraftTypeOK, DraftRecordType, DraftRunType
<1> QED
  BY <1>1, DraftInvariant, PTL

\* Runs that overlap do not draft a paper twice, for every number of runs and every
\* ranking, beside the drafts of tasks (pipeline-runner.js, run).
THEOREM OneDraftPerPaperHolds == DraftSpec => []OneDraftPerPaper
<1>1. DraftInv => OneDraftPerPaper
  BY DEF DraftInv, Story, DraftsNumbered, OneDraftPerPaper
<1> QED
  BY <1>1, DraftInvariant, PTL

\* The queues and the drafts tell one story, whoever added the drafts (pipeline-runner.js,
\* rlhf-review.js, governance-bridge.js).
THEOREM QueuesAgreeHolds == DraftSpec => []QueuesAgree
<1>1. DraftAssumption /\ DraftInv => QueuesAgree
  <2> SUFFICES ASSUME DraftAssumption, DraftInv PROVE QueuesAgree
    OBVIOUS
  <2> DEFINE drafts == workflows.drafts
             candidates == workflows.candidateQueue
             reviews == workflows.reviewQueue
             n == Len(drafts)
  <2>1. /\ drafts \in Seq(DraftRecordType) /\ reviews \in Seq(ReviewRecordType)
        /\ DraftsNumbered(workflows) /\ ReviewsFollow(workflows) /\ CandidatesName(workflows) /\ QueueNumbered(workflows)
    BY DEF DraftInv, Story, WorkflowsType
  <2>2. n \in Nat /\ DOMAIN drafts = 1..n /\ DOMAIN reviews = 1..n /\ Len(reviews) = n
    BY <2>1, LenProperties DEF ReviewsFollow
  <2>3. \A i \in 1..n : drafts[i].sequence = i /\ reviews[i].draft = i /\ reviews[i].status = drafts[i].status
    BY <2>1, <2>2 DEF ReviewsFollow, DraftsNumbered
  <2>4. ASSUME NEW i \in 1..n, drafts[i].source \in DraftSources
        PROVE  \E k \in DOMAIN candidates : {l \in DOMAIN candidates : candidates[l].draft = i} = {k}
                                            /\ candidates[k].source = drafts[i].source
    <3>1. PICK k \in DOMAIN candidates : candidates[k].draft = i
      BY <2>1, <2>2, <2>4 DEF CandidatesName
    <3>2. i # 0
      BY <2>2
    <3>4. candidates[k].source = drafts[i].source
      BY <2>1, <3>1, <3>2 DEF CandidatesName
    <3>3. \A l \in DOMAIN candidates : candidates[l].draft = i => l = k
      BY <2>1, <3>1, <3>2 DEF CandidatesName
    <3> QED
      BY <3>1, <3>3, <3>4
  <2>8. ASSUME NEW i \in 1..n, drafts[i].source \in TaskSources
        PROVE  {l \in DOMAIN candidates : candidates[l].draft = i} = {}
    <3> SUFFICES ASSUME NEW l \in DOMAIN candidates, candidates[l].draft = i PROVE FALSE
      OBVIOUS
    <3>1. candidates[l].source = drafts[i].source
      <4>1. i # 0
        BY <2>2
      <4> QED
        BY <2>1, <4>1 DEF CandidatesName
    <3>2. candidates[l].source \in DraftSources
      <4>1. candidates \in Seq(CandidateRecordType)
        BY DEF DraftInv, Story, WorkflowsType
      <4>2. candidates[l] \in CandidateRecordType
        BY <4>1, LenProperties
      <4> QED
        BY <4>2 DEF CandidateRecordType
    <3> QED
      BY <2>8, <3>1, <3>2 DEF DraftAssumption
  <2>5. \A i, j \in 1..n : drafts[i].sequence = drafts[j].sequence => i = j
    BY <2>3
  <2>6. \A i \in 1..n : \E k \in 1..n : reviews[k].draft = drafts[i].sequence /\ reviews[k].status = drafts[i].status
    BY <2>3
  <2>7. \A i \in 1..n : drafts[i].source \in DraftSources => \E k \in DOMAIN candidates :
          {l \in DOMAIN candidates : candidates[l].draft = drafts[i].sequence} = {k}
          /\ candidates[k].source = drafts[i].source
    BY <2>3, <2>4
  <2>9. \A i \in 1..n : drafts[i].source \in TaskSources =>
          {l \in DOMAIN candidates : candidates[l].draft = drafts[i].sequence} = {}
    BY <2>3, <2>8
  <2> QED
    BY <2>1, <2>2, <2>5, <2>6, <2>7, <2>9 DEF QueuesAgree, QueueNumbered
<1> QED
  BY <1>1, DraftInvariant, DraftAssumption, PTL

\* The artifact shows the first drafts, none skipped or twice, whatever runs overlapped
\* or ended between (reconcileDraftArtifactStoreFromState).
THEOREM ArtifactShowsAStateHolds == DraftSpec => []ArtifactShowsAState
<1>1. DraftInv => ArtifactShowsAState
  BY DEF DraftInv, ShowsFirst, ArtifactShowsAState
<1> QED
  BY <1>1, DraftInvariant, PTL
-----------------------------------------------------------------------------
(* Packages: ManualPackage.                                                   *)

\* The types, one field at a time.
PackageStages == {"idle", "open", "write", "verify", "check", "built", "failed"}
PackageTexts == Texts \cup {"none", "part"}
PackageSummaries == Summaries \cup {"none", "part"}
PackageManifestType == [text : PackageTexts, summary : PackageSummaries]
PackageBuildType == [stage : PackageStages, file : PackageFiles, text : Texts \cup {"none"},
                     summary : Summaries \cup {"none"}, read : PackageManifestType]

PackageShape ==
  /\ packageBuilds \in [Packagers -> PackageBuildType]
  /\ package = [file \in PackageFiles |-> package[file]]
  /\ package["text"] \in PackageTexts /\ package["summary"] \in PackageSummaries
  /\ package["manifest"] \in PackageManifestType

PackageConsistent == package["manifest"] = [text |-> package["text"], summary |-> package["summary"]]

\* A build that will verify what the package is now, or has ended without it: it has still
\* to write or to read, or the package is as it was when it read.
WillReport(build) ==
  \/ build.stage \in {"open", "write", "verify", "failed"}
  \/ /\ build.stage = "check" /\ build.read = package["manifest"]
     /\ build.file = "text" \/ build.read.text = package["text"]

\* The files belong together, or a build will report that they do not.
MixedInv == PackageConsistent \/ \E p \in Packagers : WillReport(packageBuilds[p])

PackageInv == PackageShape /\ MixedInv

LEMMA PackageTypeIs == PackageShape => PackageTypeOK
BY DEF PackageTypeOK, PackageShape, PackageBuildType, PackageManifestType, PackageTexts, PackageSummaries,
       PackageStages

\* A build that goes on, with the package as it is: it reports what it would have
\* reported, or the package needs no report.
LEMMA BuildGoes ==
  ASSUME PackageInv, NEW p \in Packagers, NEW build \in PackageBuildType, package' = package,
         packageBuilds' = [packageBuilds EXCEPT ![p] = build],
         WillReport(packageBuilds[p]) => WillReport(build) \/ PackageConsistent
  PROVE  PackageInv'
<1>1. packageBuilds' \in [Packagers -> PackageBuildType] /\ packageBuilds'[p] = build
      /\ \A q \in Packagers : q # p => packageBuilds'[q] = packageBuilds[q]
  BY DEF PackageInv, PackageShape
<1>2. PackageShape'
  BY <1>1 DEF PackageInv, PackageShape
<1>3. \A b : WillReport(b)' <=> WillReport(b)
  BY DEF WillReport
<1>4. PackageConsistent' <=> PackageConsistent
  BY DEF PackageConsistent
<1>5. MixedInv'
  <2>1. CASE PackageConsistent
    BY <2>1, <1>4 DEF MixedInv
  <2>2. ASSUME NEW q \in Packagers, WillReport(packageBuilds[q]), q # p PROVE MixedInv'
    <3>1. packageBuilds'[q] = packageBuilds[q]
      BY <1>1, <2>2
    <3> QED
      BY <2>2, <3>1 DEF MixedInv, WillReport
  <2>3. ASSUME WillReport(packageBuilds[p]), ~PackageConsistent PROVE MixedInv'
    <3>1. WillReport(build)
      BY <2>3
    <3> QED
      BY <1>1, <3>1 DEF MixedInv, WillReport
  <2> QED
    BY <2>1, <2>2, <2>3 DEF PackageInv, MixedInv
<1> QED
  BY <1>2, <1>5 DEF PackageInv

\* A build that has still to write or to read, whatever it does to the package.
LEMMA BuildWrites ==
  ASSUME PackageInv, NEW p \in Packagers, NEW build \in PackageBuildType, PackageShape',
         packageBuilds' = [packageBuilds EXCEPT ![p] = build], build.stage \in {"open", "write", "verify", "failed"}
  PROVE  PackageInv'
<1>1. packageBuilds'[p] = build
  BY DEF PackageInv, PackageShape
<1> QED
  BY <1>1 DEF PackageInv, MixedInv, WillReport

LEMMA BuildStands ==
  ASSUME PackageInv, NEW p \in Packagers
  PROVE  /\ packageBuilds[p] \in PackageBuildType /\ packageBuilds[p].file \in PackageFiles
         /\ packageBuilds[p].text \in Texts \cup {"none"} /\ packageBuilds[p].summary \in Summaries \cup {"none"}
         /\ packageBuilds[p].read \in PackageManifestType /\ package["manifest"] \in PackageManifestType
BY DEF PackageInv, PackageShape, PackageBuildType

\* One file replaced, by what such a file can be.
LEMMA FileReplaced ==
  ASSUME PackageShape, NEW file \in PackageFiles, NEW body,
         file = "text" => body \in PackageTexts, file = "summary" => body \in PackageSummaries,
         file = "manifest" => body \in PackageManifestType,
         package' = [package EXCEPT ![file] = body], packageBuilds' \in [Packagers -> PackageBuildType]
  PROVE  PackageShape'
<1>1. package' = [f \in PackageFiles |-> IF f = file THEN body ELSE package[f]]
  BY DEF PackageShape
<1>2. "text" \in PackageFiles /\ "summary" \in PackageFiles /\ "manifest" \in PackageFiles
  BY DEF PackageFiles
<1>3. \A f \in PackageFiles : package'[f] = IF f = file THEN body ELSE package[f]
  BY <1>1
<1>4. package' = [f \in PackageFiles |-> package'[f]]
  BY <1>1
<1> QED
  BY <1>2, <1>3, <1>4 DEF PackageShape

LEMMA PartIs ==
  ASSUME NEW file \in PackageFiles
  PROVE  /\ file = "text" => Part(file) \in PackageTexts
         /\ file = "summary" => Part(file) \in PackageSummaries
         /\ file = "manifest" => Part(file) \in PackageManifestType
BY DEF Part, PackageTexts, PackageSummaries, PackageManifestType

LEMMA PackageStep ==
  ASSUME PackageInv, NEW p \in Packagers,
         \/ \E text \in Texts, summary \in Summaries : StartPackage(p, text, summary)
         \/ OpenFile(p) \/ WriteFile(p) \/ BreakOff(p) \/ ReadManifest(p) \/ CheckFile(p) \/ NextBuild(p)
  PROVE  PackageInv'
<1> DEFINE was == packageBuilds[p]
<1>0. packageBuilds \in [Packagers -> PackageBuildType]
  BY DEF PackageInv, PackageShape
<1>1. NotBuilding = [stage |-> "idle", file |-> "text", text |-> "none", summary |-> "none", read |-> NoManifest]
      /\ NoManifest \in PackageManifestType /\ NotBuilding \in PackageBuildType
  BY DEF NotBuilding, NoManifest, PackageManifestType, PackageTexts, PackageSummaries, PackageBuildType,
         PackageStages, PackageFiles
<1>2. ASSUME NEW text \in Texts, NEW summary \in Summaries, StartPackage(p, text, summary) PROVE PackageInv'
  <2> DEFINE b == [NotBuilding EXCEPT !.stage = "open"]
             c == [b EXCEPT !.text = text]
             d == [c EXCEPT !.summary = summary]
  <2>1. b \in PackageBuildType /\ b.stage = "open"
    BY <1>1 DEF PackageBuildType, PackageStages
  <2>2. packageBuilds' = [packageBuilds EXCEPT ![p] = d] /\ package' = package
    BY <1>2 DEF StartPackage
  <2> HIDE DEF b
  <2>3. c \in PackageBuildType /\ c.stage = "open"
    BY <2>1 DEF PackageBuildType
  <2> HIDE DEF c
  <2>4. d \in PackageBuildType /\ d.stage = "open"
    BY <2>3 DEF PackageBuildType
  <2> HIDE DEF d
  <2> QED
    BY <2>2, <2>4, BuildGoes DEF WillReport
<1>3. CASE OpenFile(p)
  <2> DEFINE b == [was EXCEPT !.stage = "write"]
             file == was.file
  <2>1. b \in PackageBuildType /\ b.stage = "write"
    BY BuildStands DEF PackageBuildType, PackageStages
  <2>2. packageBuilds' = [packageBuilds EXCEPT ![p] = b] /\ package' = [package EXCEPT ![file] = Part(file)]
    BY <1>3 DEF OpenFile
  <2>3. file \in PackageFiles /\ PackageShape
    BY BuildStands DEF PackageInv
  <2> HIDE DEF b, file
  <2>4. packageBuilds' \in [Packagers -> PackageBuildType]
    BY <1>0, <2>1, <2>2
  <2>5. PackageShape'
    BY <2>2, <2>3, <2>4, PartIs, FileReplaced
  <2> QED
    BY <2>1, <2>2, <2>5, BuildWrites
<1>4. CASE WriteFile(p)
  <2> DEFINE file == was.file
             stage == IF file = "manifest" THEN "verify" ELSE "open"
             next == IF file = "text" THEN "summary" ELSE "manifest"
             b == [was EXCEPT !.stage = stage]
             c == [b EXCEPT !.file = next]
  <2>1. PICK body \in {Body(p), Part(file)} : package' = [package EXCEPT ![file] = body]
    BY <1>4 DEF WriteFile
  <2>2. packageBuilds' = [packageBuilds EXCEPT ![p] = c]
    BY <1>0, <1>4 DEF WriteFile
  <2>3. file \in PackageFiles /\ PackageShape
    BY BuildStands DEF PackageInv
  <2>4. /\ file = "text" => Body(p) \in PackageTexts
        /\ file = "summary" => Body(p) \in PackageSummaries
        /\ file = "manifest" => Body(p) \in PackageManifestType
    BY BuildStands DEF Body, PackageTexts, PackageSummaries, PackageManifestType
  <2>5. stage \in {"open", "verify"} /\ stage \in PackageStages /\ next \in PackageFiles
    BY DEF PackageStages, PackageFiles
  <2> HIDE DEF file, stage, next
  <2>6. b \in PackageBuildType /\ b.stage = stage
    BY <2>5, BuildStands DEF PackageBuildType
  <2> HIDE DEF b
  <2>7. c \in PackageBuildType /\ c.stage = stage
    BY <2>5, <2>6 DEF PackageBuildType
  <2> HIDE DEF c
  <2>8. packageBuilds' \in [Packagers -> PackageBuildType]
    BY <1>0, <2>2, <2>7
  <2>9. PackageShape'
    BY <2>1, <2>3, <2>4, <2>8, PartIs, FileReplaced
  <2> QED
    BY <2>2, <2>5, <2>7, <2>9, BuildWrites
<1>5. CASE BreakOff(p)
  <2> DEFINE b == [was EXCEPT !.stage = "failed"]
  <2>1. b \in PackageBuildType /\ b.stage = "failed"
    BY BuildStands DEF PackageBuildType, PackageStages
  <2>2. packageBuilds' = [packageBuilds EXCEPT ![p] = b] /\ package' = package
    BY <1>5 DEF BreakOff
  <2> HIDE DEF b
  <2> QED
    BY <2>1, <2>2, BuildGoes DEF WillReport
<1>6. CASE ReadManifest(p)
  <2> DEFINE stage == IF package["manifest"] = Part("manifest") THEN "failed" ELSE "check"
             b == [was EXCEPT !.stage = stage]
             c == [b EXCEPT !.read = package["manifest"]]
             d == [c EXCEPT !.file = "text"]
  <2>1. packageBuilds' = [packageBuilds EXCEPT ![p] = d] /\ package' = package
    BY <1>0, <1>6 DEF ReadManifest
  <2>2. stage \in {"failed", "check"} /\ stage \in PackageStages
    BY DEF PackageStages
  <2> HIDE DEF stage
  <2>3. b \in PackageBuildType /\ b.stage = stage
    BY <2>2, BuildStands DEF PackageBuildType
  <2> HIDE DEF b
  <2>4. c \in PackageBuildType /\ c.stage = stage /\ c.read = package["manifest"]
    BY <2>3, BuildStands DEF PackageBuildType
  <2> HIDE DEF c
  <2>5. d \in PackageBuildType /\ d.stage = stage /\ d.read = package["manifest"] /\ d.file = "text"
    BY <2>4 DEF PackageBuildType, PackageFiles
  <2> HIDE DEF d
  <2> QED
    BY <2>1, <2>2, <2>5, BuildGoes DEF WillReport
<1>7. CASE CheckFile(p)
  <2> DEFINE file == was.file
             stage == IF ~FileVerifies(p, file) THEN "failed" ELSE IF file = "text" THEN "check" ELSE "built"
             b == [was EXCEPT !.stage = stage]
             c == [b EXCEPT !.file = "summary"]
  <2>1. packageBuilds' = [packageBuilds EXCEPT ![p] = c] /\ package' = package
    BY <1>0, <1>7 DEF CheckFile
  <2>2. stage \in PackageStages
    BY DEF PackageStages
  <2>3. was.stage = "check"
    BY <1>7 DEF CheckFile
  <2>4. \/ stage = "failed"
        \/ stage = "check" /\ file = "text" /\ package["text"] = was.read.text
        \/ stage = "built" /\ file # "text" /\ package["summary"] = was.read.summary
    BY DEF FileVerifies
  <2> HIDE DEF stage
  <2>5. b \in PackageBuildType /\ b.stage = stage /\ b.read = was.read
    BY <2>2, BuildStands DEF PackageBuildType
  <2> HIDE DEF b
  <2>6. c \in PackageBuildType /\ c.stage = stage /\ c.read = was.read
    BY <2>5 DEF PackageBuildType, PackageFiles
  <2> HIDE DEF c
  <2>7. ASSUME WillReport(was) PROVE WillReport(c) \/ PackageConsistent
    <3>1. was.read = package["manifest"] /\ (file = "text" \/ was.read.text = package["text"])
      BY <2>3, <2>7 DEF WillReport
    <3>2. CASE stage \in {"failed", "check"}
      BY <2>4, <2>6, <3>1, <3>2 DEF WillReport
    <3>3. CASE stage = "built"
      <4>1. package["manifest"].text = package["text"] /\ package["manifest"].summary = package["summary"]
        BY <2>4, <3>1, <3>3
      <4> QED
        BY <4>1, BuildStands DEF PackageConsistent, PackageManifestType
    <3> QED
      BY <2>4, <3>2, <3>3
  <2> QED
    BY <2>1, <2>6, <2>7, BuildGoes
<1>8. CASE NextBuild(p)
  <2>1. ~WillReport(was) /\ packageBuilds' = [packageBuilds EXCEPT ![p] = NotBuilding] /\ package' = package
    BY <1>8 DEF NextBuild, WillReport
  <2> QED
    BY <1>1, <2>1, BuildGoes
<1> QED
  BY <1>2, <1>3, <1>4, <1>5, <1>6, <1>7, <1>8

LEMMA PackageSteps == PackageSpec => []PackageInv
<1>1. PackageInit => PackageInv
  <2> SUFFICES ASSUME PackageInit PROVE PackageInv
    OBVIOUS
  <2>1. NotBuilding \in PackageBuildType /\ NoManifest \in PackageManifestType
    BY DEF NotBuilding, PackageBuildType, PackageStages, PackageFiles, NoManifest, PackageManifestType,
           PackageTexts, PackageSummaries
  <2>2. package["text"] = "none" /\ package["summary"] = "none" /\ package["manifest"] = NoManifest
    BY DEF PackageInit, PackageFiles
  <2>3. PackageShape
    BY <2>1, <2>2 DEF PackageInit, PackageShape, PackageTexts, PackageSummaries
  <2>4. MixedInv
    BY <2>2 DEF MixedInv, PackageConsistent, NoManifest
  <2> QED
    BY <2>3, <2>4 DEF PackageInv
<1>2. PackageInv /\ UNCHANGED packageVars => PackageInv'
  BY DEF packageVars, PackageInv, PackageShape, MixedInv, PackageConsistent, WillReport
<1>3. PackageInv /\ [PackageNext]_packageVars => PackageInv'
  BY <1>2, PackageStep DEF PackageNext
<1> QED
  BY <1>1, <1>3, PTL DEF PackageSpec

\* The builds and the files of a package keep their types.
THEOREM PackageTypes == PackageSpec => []PackageTypeOK
<1>1. PackageInv => PackageTypeOK
  BY PackageTypeIs DEF PackageInv
<1> QED
  BY <1>1, PackageSteps, PTL

\* When no build is under way, a package whose files do not belong together is one that a
\* build has ended without: for every number of builds, texts and summaries.
THEOREM MixedPackageReportedHolds == PackageSpec => []MixedPackageReported
<1>1. PackageInv => MixedPackageReported
  BY DEF PackageInv, MixedInv, WillReport, PackageConsistent, MixedPackageReported
<1> QED
  BY <1>1, PackageSteps, PTL
-----------------------------------------------------------------------------
(* Outcomes: DraftOutcomes.                                                   *)

OutcomeStages ==
  {"idle", "startup", "startup artifact", "snapshot", "commit", "refresh", "examine", "write", "opened", "written",
   "verify", "verify artifact", "answered", "conflict", "refused", "failed"}
ChainEntryType == [key : Keys, payload : Payloads]
OutcomeRecordType == [key : Keys, payload : Payloads, previous : Seq(ChainEntryType)]
OutcomeCallType ==
  [stage : OutcomeStages, for : {"record", "repair", "restore"}, key : Keys \cup {"none"},
   payload : Payloads \cup {"none"}, head : Seq(ChainEntryType), read : Seq(OutcomeRecordType),
   name : Recorders \cup {"none"}, open : {"none", "temp", "artifact", "gone"}]
OutcomeFileType == [present : BOOLEAN, torn : BOOLEAN, lines : Seq(OutcomeRecordType)]

\* The first records.
FirstOf(list, all) == Len(list) <= Len(all) /\ \A i \in DOMAIN list : list[i] = all[i]

\* A file that holds first records, and a call that has read them: it knows what it
\* records as long as it may record it, and the name it writes under.
FileFits(file, all) == file \in OutcomeFileType /\ FirstOf(file.lines, all)
CallFits(call, all) ==
  /\ call \in OutcomeCallType
  /\ call.stage \in {"startup", "startup artifact", "snapshot", "commit"} => call.key \in Keys /\ call.payload \in Payloads
  /\ call.stage \in {"opened", "written"} => call.name \in Recorders
  /\ FirstOf(call.read, all)
FilesFit(files_, all) == files_ \in [Recorders -> OutcomeFileType] /\ \A v \in Recorders : FileFits(files_[v], all)
CallsFit(calls_, all) == calls_ \in [Recorders -> OutcomeCallType] /\ \A v \in Recorders : CallFits(calls_[v], all)

OutcomeInv ==
  /\ records \in Seq(OutcomeRecordType) /\ chainHead \in Seq(ChainEntryType) /\ checked \in BOOLEAN
  /\ FileFits(outcomeLines, records) /\ FilesFit(temps, records) /\ CallsFit(recorders, records)
  /\ OneRecordPerKey

LEMMA FirstOfItself == ASSUME NEW s \in Seq(OutcomeRecordType) PROVE FirstOf(s, s)
<1>1. Len(s) \in Nat
  BY LenProperties
<1> QED
  BY <1>1 DEF FirstOf

LEMMA FirstOfMore ==
  ASSUME NEW s \in Seq(OutcomeRecordType), NEW t \in Seq(OutcomeRecordType), NEW x \in OutcomeRecordType, FirstOf(s, t)
  PROVE  FirstOf(s, Append(t, x))
<1>1. /\ Len(s) \in Nat /\ Len(t) \in Nat /\ Len(Append(t, x)) = Len(t) + 1 /\ DOMAIN s = 1..Len(s)
      /\ \A i \in 1..Len(t) : Append(t, x)[i] = t[i]
  BY AppendProperties, LenProperties
<1>2. Len(s) <= Len(t) /\ \A i \in 1..Len(s) : s[i] = t[i]
  BY <1>1 DEF FirstOf
<1>3. \A i \in 1..Len(s) : i \in 1..Len(t)
  BY <1>1, <1>2
<1> QED
  BY <1>1, <1>2, <1>3 DEF FirstOf

LEMMA FirstOfNone == ASSUME NEW t \in Seq(OutcomeRecordType) PROVE FirstOf(<<>>, t)
<1>1. Len(t) \in Nat /\ Len(<<>>) = 0 /\ DOMAIN <<>> = {}
  BY LenProperties
<1> QED
  BY <1>1 DEF FirstOf

\* The start of a list.
LEMMA FirstOfStart ==
  ASSUME NEW s \in Seq(OutcomeRecordType), NEW t \in Seq(OutcomeRecordType), FirstOf(s, t), NEW n \in 0..Len(s)
  PROVE  SubSeq(s, 1, n) \in Seq(OutcomeRecordType) /\ FirstOf(SubSeq(s, 1, n), t)
<1>1. Len(s) \in Nat /\ Len(t) \in Nat /\ DOMAIN s = 1..Len(s) /\ Len(s) <= Len(t)
  BY LenProperties DEF FirstOf
<1>2. n \in Nat /\ n <= Len(s)
  BY <1>1
<1>3. SubSeq(s, 1, n) = [i \in 1..n |-> s[i]]
  BY <1>1, <1>2
<1>4. \A i \in 1..n : i \in 1..Len(s) /\ s[i] \in OutcomeRecordType
  BY <1>1, <1>2
<1>5. SubSeq(s, 1, n) \in [1..n -> OutcomeRecordType]
  BY <1>3, <1>4
<1>6. SubSeq(s, 1, n) \in Seq(OutcomeRecordType)
  BY <1>2, <1>5, SeqDef
<1>7. DOMAIN SubSeq(s, 1, n) = 1..n /\ Len(SubSeq(s, 1, n)) = n
  <2>1. DOMAIN SubSeq(s, 1, n) = 1..n /\ DOMAIN SubSeq(s, 1, n) = 1..Len(SubSeq(s, 1, n)) /\ Len(SubSeq(s, 1, n)) \in Nat
    BY <1>3, <1>6, LenProperties
  <2> QED
    BY <2>1, <1>2
<1>8. n <= Len(t) /\ \A i \in 1..n : SubSeq(s, 1, n)[i] = t[i]
  BY <1>1, <1>2, <1>3, <1>4 DEF FirstOf
<1> QED
  BY <1>6, <1>7, <1>8 DEF FirstOf

\* A list that lost its end.
LEMMA FirstOfFront ==
  ASSUME NEW s \in Seq(OutcomeRecordType), s # <<>>, NEW t \in Seq(OutcomeRecordType), FirstOf(s, t)
  PROVE  Front(s) \in Seq(OutcomeRecordType) /\ FirstOf(Front(s), t)
<1>1. Len(s) \in Nat /\ Len(s) # 0
  BY LenProperties, EmptySeq
<1>2. Len(s) - 1 \in 0..Len(s)
  BY <1>1
<1> QED
  BY <1>2, FirstOfStart DEF Front

\* A file that is missing or empty.
LEMMA EmptyFits ==
  ASSUME NEW all \in Seq(OutcomeRecordType)
  PROVE  FileFits(NoArtifact, all) /\ FileFits([NoArtifact EXCEPT !.present = TRUE], all)
<1>1. <<>> \in Seq(OutcomeRecordType) /\ FirstOf(<<>>, all)
  BY FirstOfNone
<1> DEFINE e == [NoArtifact EXCEPT !.present = TRUE]
<1>2. NoArtifact \in OutcomeFileType /\ NoArtifact.lines = <<>>
  BY <1>1 DEF NoArtifact, OutcomeFileType
<1>3. e \in OutcomeFileType /\ e.lines = <<>>
  BY <1>1 DEF NoArtifact, OutcomeFileType
<1> HIDE DEF e
<1> QED
  BY <1>1, <1>2, <1>3 DEF FileFits, e

LEMMA OverlaidFits ==
  ASSUME NEW all \in Seq(OutcomeRecordType), NEW file, FileFits(file, all), NEW body, FileFits(body, all)
  PROVE  FileFits(Overlaid(file, body), all)
<1> DEFINE torn == body.torn \/ (file.torn /\ Len(file.lines) = Len(body.lines))
           laid == [present |-> TRUE, lines |-> body.lines, torn |-> torn]
<1>1. torn \in BOOLEAN /\ body.lines \in Seq(OutcomeRecordType)
  BY DEF FileFits, OutcomeFileType
<1> HIDE DEF torn
<1>2. laid \in OutcomeFileType /\ laid.lines = body.lines
  BY <1>1 DEF OutcomeFileType
<1>3. FileFits(laid, all)
  BY <1>2 DEF FileFits
<1>4. Overlaid(file, body) = file \/ Overlaid(file, body) = laid
  BY DEF Overlaid, torn
<1> HIDE DEF laid
<1> QED
  BY <1>3, <1>4

LEMMA OutcomeIdleFits ==
  ASSUME NEW all \in Seq(OutcomeRecordType)
  PROVE  /\ CallFits(OutcomeIdle, all)
         /\ \A stage \in OutcomeStages \ {"startup", "startup artifact", "snapshot", "commit", "opened", "written"} :
              CallFits([OutcomeIdle EXCEPT !.stage = stage], all)
<1>1. <<>> \in Seq(OutcomeRecordType) /\ <<>> \in Seq(ChainEntryType) /\ FirstOf(<<>>, all)
  BY FirstOfNone
<1>2. OutcomeIdle \in OutcomeCallType /\ OutcomeIdle.stage = "idle" /\ OutcomeIdle.read = <<>>
  BY <1>1 DEF OutcomeIdle, OutcomeCallType, OutcomeStages
<1>3. ASSUME NEW stage \in OutcomeStages \ {"startup", "startup artifact", "snapshot", "commit", "opened", "written"}
      PROVE  CallFits([OutcomeIdle EXCEPT !.stage = stage], all)
  <2> DEFINE c == [OutcomeIdle EXCEPT !.stage = stage]
  <2>1. c \in OutcomeCallType /\ c.stage = stage /\ c.read = <<>>
    BY <1>2 DEF OutcomeCallType
  <2> HIDE DEF c
  <2>2. CallFits(c, all)
    BY <1>1, <2>1 DEF CallFits
  <2> QED
    BY <2>2 DEF c
<1>4. CallFits(OutcomeIdle, all)
  BY <1>1, <1>2 DEF CallFits
<1> QED
  BY <1>3, <1>4

\* A call at another stage.
LEMMA CallGoes ==
  ASSUME NEW all \in Seq(OutcomeRecordType), NEW call, CallFits(call, all), NEW stage \in OutcomeStages,
         stage \in {"startup", "startup artifact", "snapshot", "commit"}
           => call.stage \in {"startup", "startup artifact", "snapshot", "commit"},
         stage \in {"opened", "written"} => call.name \in Recorders
  PROVE  CallFits([call EXCEPT !.stage = stage], all)
<1> DEFINE c == [call EXCEPT !.stage = stage]
<1>1. call \in OutcomeCallType
  BY DEF CallFits
<1>2. /\ c \in OutcomeCallType /\ c.stage = stage /\ c.read = call.read /\ c.key = call.key /\ c.payload = call.payload
      /\ c.name = call.name
  BY <1>1 DEF OutcomeCallType
<1> HIDE DEF c
<1>3. CallFits(c, all)
  BY <1>2 DEF CallFits
<1> QED
  BY <1>3 DEF c

LEMMA CallReadsHead ==
  ASSUME NEW all \in Seq(OutcomeRecordType), NEW call, CallFits(call, all), NEW head \in Seq(ChainEntryType)
  PROVE  CallFits([call EXCEPT !.head = head], all)
<1> DEFINE c == [call EXCEPT !.head = head]
<1>1. call \in OutcomeCallType
  BY DEF CallFits
<1>2. /\ c \in OutcomeCallType /\ c.stage = call.stage /\ c.read = call.read /\ c.key = call.key
      /\ c.payload = call.payload /\ c.name = call.name
  BY <1>1 DEF OutcomeCallType
<1> HIDE DEF c
<1>3. CallFits(c, all)
  BY <1>2 DEF CallFits
<1> QED
  BY <1>3 DEF c

LEMMA CallReadsLines ==
  ASSUME NEW all \in Seq(OutcomeRecordType), NEW call, CallFits(call, all),
         NEW lines \in Seq(OutcomeRecordType), FirstOf(lines, all)
  PROVE  CallFits([call EXCEPT !.read = lines], all)
<1> DEFINE c == [call EXCEPT !.read = lines]
<1>1. call \in OutcomeCallType
  BY DEF CallFits
<1>2. /\ c \in OutcomeCallType /\ c.stage = call.stage /\ c.read = lines /\ c.key = call.key
      /\ c.payload = call.payload /\ c.name = call.name
  BY <1>1 DEF OutcomeCallType
<1> HIDE DEF c
<1>3. CallFits(c, all)
  BY <1>2 DEF CallFits
<1> QED
  BY <1>3 DEF c

LEMMA CallIsFor ==
  ASSUME NEW all \in Seq(OutcomeRecordType), NEW call, CallFits(call, all), NEW for \in {"record", "repair", "restore"}
  PROVE  CallFits([call EXCEPT !.for = for], all)
<1> DEFINE c == [call EXCEPT !.for = for]
<1>1. call \in OutcomeCallType
  BY DEF CallFits
<1>2. /\ c \in OutcomeCallType /\ c.stage = call.stage /\ c.read = call.read /\ c.key = call.key
      /\ c.payload = call.payload /\ c.name = call.name
  BY <1>1 DEF OutcomeCallType
<1> HIDE DEF c
<1>3. CallFits(c, all)
  BY <1>2 DEF CallFits
<1> QED
  BY <1>3 DEF c

LEMMA CallOpens ==
  ASSUME NEW all \in Seq(OutcomeRecordType), NEW call, CallFits(call, all), NEW open \in {"none", "temp", "artifact", "gone"}
  PROVE  CallFits([call EXCEPT !.open = open], all)
<1> DEFINE c == [call EXCEPT !.open = open]
<1>1. call \in OutcomeCallType
  BY DEF CallFits
<1>2. /\ c \in OutcomeCallType /\ c.stage = call.stage /\ c.read = call.read /\ c.key = call.key
      /\ c.payload = call.payload /\ c.name = call.name
  BY <1>1 DEF OutcomeCallType
<1> HIDE DEF c
<1>3. CallFits(c, all)
  BY <1>2 DEF CallFits
<1> QED
  BY <1>3 DEF c

LEMMA CallNames ==
  ASSUME NEW all \in Seq(OutcomeRecordType), NEW call, CallFits(call, all), NEW name \in Recorders
  PROVE  CallFits([call EXCEPT !.name = name], all) /\ [call EXCEPT !.name = name].name = name
<1> DEFINE c == [call EXCEPT !.name = name]
<1>1. call \in OutcomeCallType
  BY DEF CallFits
<1>2. /\ c \in OutcomeCallType /\ c.stage = call.stage /\ c.read = call.read /\ c.key = call.key
      /\ c.payload = call.payload /\ c.name = name
  BY <1>1 DEF OutcomeCallType
<1> HIDE DEF c
<1>3. CallFits(c, all)
  BY <1>2 DEF CallFits
<1> QED
  BY <1>2, <1>3 DEF c

LEMMA MovedFits ==
  ASSUME NEW all \in Seq(OutcomeRecordType), NEW call, CallFits(call, all), NEW name
  PROVE  CallFits(Moved(call, name), all)
<1>1. CallFits([call EXCEPT !.open = "gone"], all) /\ CallFits([call EXCEPT !.open = "artifact"], all)
  BY CallOpens
<1>2. \/ Moved(call, name) = call \/ Moved(call, name) = [call EXCEPT !.open = "gone"]
      \/ Moved(call, name) = [call EXCEPT !.open = "artifact"]
  BY DEF Moved
<1> QED
  BY <1>1, <1>2
-----------------------------------------------------------------------------
(* The steps of the outcomes.                                                *)

\* A step that leaves the records.
LEMMA OutcomeMoves ==
  ASSUME OutcomeInv, UNCHANGED <<records, chainHead>>, checked' \in BOOLEAN,
         FileFits(outcomeLines', records), FilesFit(temps', records), CallsFit(recorders', records)
  PROVE  OutcomeInv'
<1>1. OneRecordPerKey'
  BY DEF OutcomeInv, OneRecordPerKey, Linked, ChainOf, OutcomeEntry
<1>2. FileFits(outcomeLines', records') /\ FilesFit(temps', records') /\ CallsFit(recorders', records')
  OBVIOUS
<1>3. records' \in Seq(OutcomeRecordType) /\ chainHead' \in Seq(ChainEntryType)
  BY DEF OutcomeInv
<1> QED
  BY <1>1, <1>2, <1>3 DEF OutcomeInv, FileFits, FilesFit, CallsFit, CallFits, FirstOf

\* One that moves one call, and leaves the files too.
LEMMA OneCallMoves ==
  ASSUME OutcomeInv, NEW w \in Recorders, UNCHANGED <<records, chainHead, outcomeLines, temps>>, checked' \in BOOLEAN,
         NEW c, CallFits(c, records), recorders' = [recorders EXCEPT ![w] = c]
  PROVE  OutcomeInv'
<1>1. CallsFit(recorders', records)
  BY DEF OutcomeInv, CallsFit, CallFits
<1>2. FileFits(outcomeLines', records) /\ FilesFit(temps', records)
  BY DEF OutcomeInv
<1> QED
  BY <1>1, <1>2, OutcomeMoves

LEMMA CallsStand ==
  ASSUME OutcomeInv, NEW w \in Recorders
  PROVE  /\ CallFits(recorders[w], records) /\ recorders[w] \in OutcomeCallType /\ records \in Seq(OutcomeRecordType)
         /\ chainHead \in Seq(ChainEntryType) /\ checked \in BOOLEAN
BY DEF OutcomeInv, CallsFit, CallFits

LEMMA OutcomeCallKeeps ==
  ASSUME OutcomeInv, NEW w \in Recorders, NEW key \in Keys, NEW payload \in Payloads, OutcomeCall(w, key, payload)
  PROVE  OutcomeInv'
<1> DEFINE stage == IF checked THEN "snapshot" ELSE "startup"
           a == [OutcomeIdle EXCEPT !.stage = stage]
           b == [a EXCEPT !.key = key]
           c == [b EXCEPT !.payload = payload]
           d == [stage |-> stage, for |-> "record", key |-> key, payload |-> payload,
                 head |-> <<>>, read |-> <<>>, name |-> "none", open |-> "none"]
<1>1. stage \in OutcomeStages /\ stage \notin {"opened", "written"}
  BY DEF OutcomeStages
<1>2. recorders' = [recorders EXCEPT ![w] = c]
  BY DEF OutcomeCall
<1> HIDE DEF stage
<1>3. c = d
  <2>1. a = [stage |-> stage, for |-> "record", key |-> "none", payload |-> "none",
             head |-> <<>>, read |-> <<>>, name |-> "none", open |-> "none"]
    BY DEF OutcomeIdle
  <2> HIDE DEF a
  <2>2. b = [stage |-> stage, for |-> "record", key |-> key, payload |-> "none",
             head |-> <<>>, read |-> <<>>, name |-> "none", open |-> "none"]
    BY <2>1
  <2> HIDE DEF b
  <2> QED
    BY <2>2
<1>4. <<>> \in Seq(OutcomeRecordType) /\ <<>> \in Seq(ChainEntryType) /\ FirstOf(<<>>, records)
  BY FirstOfNone DEF OutcomeInv
<1>5. CallFits(d, records)
  BY <1>1, <1>4 DEF CallFits, OutcomeCallType
<1> HIDE DEF c, d
<1>6. UNCHANGED <<records, chainHead, outcomeLines, temps, checked>> /\ checked' \in BOOLEAN
  BY DEF OutcomeCall, OutcomeInv
<1>7. CallFits(c, records)
  BY <1>3, <1>5
<1> QED
  BY <1>2, <1>6, <1>7, OneCallMoves

LEMMA ReadHeadKeeps == ASSUME OutcomeInv, NEW w \in Recorders, ReadHead(w) PROVE OutcomeInv'
<1>1. PICK stage \in {"startup", "verify"} :
        /\ At(w, stage)
        /\ recorders' = [recorders EXCEPT
             ![w].stage = IF stage = "startup" THEN "startup artifact" ELSE "verify artifact",
             ![w].head = chainHead]
  BY DEF ReadHead
<1> DEFINE next == IF stage = "startup" THEN "startup artifact" ELSE "verify artifact"
           b == [recorders[w] EXCEPT !.stage = next]
           c == [b EXCEPT !.head = chainHead]
<1>2. /\ next \in OutcomeStages /\ next \notin {"opened", "written"}
      /\ next \in {"startup", "startup artifact", "snapshot", "commit"} => recorders[w].stage = "startup"
  BY <1>1 DEF OutcomeStages, At
<1>3. recorders' = [recorders EXCEPT ![w] = c]
  BY <1>1 DEF OutcomeInv, CallsFit
<1> HIDE DEF next
<1>4. CallFits(b, records)
  BY <1>2, CallsStand, CallGoes
<1> HIDE DEF b
<1>5. CallFits(c, records)
  BY <1>4, CallsStand, CallReadsHead
<1> HIDE DEF c
<1>6. UNCHANGED <<records, chainHead, outcomeLines, temps, checked>> /\ checked' \in BOOLEAN
  BY DEF ReadHead, OutcomeInv
<1> QED
  BY <1>3, <1>5, <1>6, OneCallMoves

LEMMA CheckStartupKeeps == ASSUME OutcomeInv, NEW w \in Recorders, CheckStartup(w) PROVE OutcomeInv'
<1>1. UNCHANGED <<records, chainHead, outcomeLines, temps>> /\ checked' \in BOOLEAN /\ recorders[w].stage = "startup artifact"
  BY CallsStand DEF CheckStartup, At
<1>2. CASE Goto(w, "snapshot")
  <2>1. CallFits([recorders[w] EXCEPT !.stage = "snapshot"], records)
    <3>1. "snapshot" \in OutcomeStages
      BY DEF OutcomeStages
    <3> QED
      BY <1>1, <3>1, CallsStand, CallGoes
  <2>2. recorders' = [recorders EXCEPT ![w] = [recorders[w] EXCEPT !.stage = "snapshot"]]
    BY <1>2 DEF Goto
  <2> QED
    BY <1>1, <2>1, <2>2, OneCallMoves
<1>3. CASE Fresh(w, "refused")
  <2>1. CallFits([OutcomeIdle EXCEPT !.stage = "refused"], records)
    BY CallsStand, OutcomeIdleFits DEF OutcomeStages
  <2> QED
    BY <1>1, <1>3, <2>1, OneCallMoves DEF Fresh
<1> QED
  BY <1>2, <1>3 DEF CheckStartup

LEMMA ReadSnapshotKeeps == ASSUME OutcomeInv, NEW w \in Recorders, ReadSnapshot(w) PROVE OutcomeInv'
<1>1. UNCHANGED <<records, chainHead, outcomeLines, temps>> /\ checked' \in BOOLEAN /\ recorders[w].stage = "snapshot"
  BY CallsStand DEF ReadSnapshot, At
<1>2. CASE recorders' = [recorders EXCEPT ![w].stage = "commit", ![w].head = chainHead]
  <2> DEFINE b == [recorders[w] EXCEPT !.stage = "commit"]
             c == [b EXCEPT !.head = chainHead]
  <2>1. recorders' = [recorders EXCEPT ![w] = c]
    BY <1>2 DEF OutcomeInv, CallsFit
  <2>2. CallFits(b, records)
    <3>1. "commit" \in OutcomeStages
      BY DEF OutcomeStages
    <3> QED
      BY <1>1, <3>1, CallsStand, CallGoes
  <2> HIDE DEF b
  <2>3. CallFits(c, records)
    BY <2>2, CallsStand, CallReadsHead
  <2> HIDE DEF c
  <2> QED
    BY <1>1, <2>1, <2>3, OneCallMoves
<1>3. CASE \E stage \in {"answered", "conflict"} : Fresh(w, stage)
  <2>1. PICK stage \in {"answered", "conflict"} : Fresh(w, stage)
    BY <1>3
  <2>2. CallFits([OutcomeIdle EXCEPT !.stage = stage], records)
    BY CallsStand, OutcomeIdleFits DEF OutcomeStages
  <2> QED
    BY <1>1, <2>1, <2>2, OneCallMoves DEF Fresh
<1> QED
  BY <1>2, <1>3 DEF ReadSnapshot

\* The chain of the records and one more.
LEMMA OutcomeChainGoesOn ==
  ASSUME NEW list \in Seq(OutcomeRecordType), NEW head \in Seq(ChainEntryType), Linked(list), head = ChainOf(list),
         NEW key \in Keys, NEW payload \in Payloads, NEW entry \in ChainEntryType,
         entry = [key |-> key, payload |-> payload],
         NEW record \in OutcomeRecordType, record = [key |-> key, payload |-> payload, previous |-> head]
  PROVE  Linked(Append(list, record)) /\ Append(head, entry) = ChainOf(Append(list, record))
<1> DEFINE n == Len(list)
           more == Append(list, record)
<1>1. /\ n \in Nat /\ DOMAIN list = 1..n /\ DOMAIN more = 1..(n + 1) /\ \A i \in 1..n : more[i] = list[i]
      /\ more[n + 1] = record
  BY AppendProperties, LenProperties
<1>2. head = [j \in 1..n |-> OutcomeEntry(list[j])]
  BY <1>1 DEF ChainOf
<1>3. Len(head) = n /\ \A j \in 1..n : head[j] = OutcomeEntry(more[j])
  <2>1. DOMAIN head = 1..n /\ DOMAIN head = 1..Len(head) /\ Len(head) \in Nat
    BY <1>2, LenProperties
  <2>2. Len(head) = n
    BY <2>1, <1>1
  <2> QED
    BY <2>2, <1>1, <1>2
<1>4. OutcomeEntry(record) = entry
  BY DEF OutcomeEntry
<1>5. ASSUME NEW i \in 1..(n + 1)
      PROVE  more[i].previous = [j \in 1..(i - 1) |-> OutcomeEntry(more[j])]
  <2>1. CASE i \in 1..n
    <3>1. more[i].previous = [j \in 1..(i - 1) |-> OutcomeEntry(list[j])]
      BY <1>1, <2>1 DEF Linked
    <3>2. \A j \in 1..(i - 1) : more[j] = list[j]
      BY <1>1, <2>1
    <3> QED
      BY <3>1, <3>2
  <2>2. CASE i = n + 1
    <3>1. i - 1 = n /\ more[i] = record
      BY <1>1, <2>2
    <3>2. record.previous = head
      OBVIOUS
    <3>3. more[i].previous = [j \in 1..n |-> OutcomeEntry(list[j])]
      <4> HIDE DEF more, n
      <4> QED
        BY <3>1, <3>2, <1>2
    <3> QED
      BY <3>1, <3>3, <1>1
  <2>3. i \in 1..n \/ i = n + 1
    BY <1>1
  <2> QED
    BY <2>1, <2>2, <2>3
<1>6. Append(head, entry) = ChainOf(more)
  <2>1. /\ DOMAIN Append(head, entry) = 1..(n + 1) /\ \A j \in 1..n : Append(head, entry)[j] = head[j]
        /\ Append(head, entry)[n + 1] = entry /\ Append(head, entry) \in [1..(n + 1) -> ChainEntryType]
    <3>1. Append(head, entry) \in Seq(ChainEntryType) /\ Len(Append(head, entry)) = Len(head) + 1
      BY AppendProperties
    <3>2. Append(head, entry) \in [1..(n + 1) -> ChainEntryType] /\ DOMAIN Append(head, entry) = 1..(n + 1)
      BY <3>1, <1>3, LenProperties
    <3>3. \A j \in 1..Len(head) : Append(head, entry)[j] = head[j]
      BY AppendProperties
    <3>4. Append(head, entry)[Len(head) + 1] = entry
      BY AppendProperties
    <3> QED
      BY <3>2, <3>3, <3>4, <1>3
  <2>2. \A j \in 1..(n + 1) : Append(head, entry)[j] = OutcomeEntry(more[j])
    <3>1. \A j \in 1..(n + 1) : j \in 1..n \/ j = n + 1
      BY <1>1
    <3> QED
      BY <3>1, <2>1, <1>1, <1>3, <1>4
  <2>3. Append(head, entry) = [j \in 1..(n + 1) |-> Append(head, entry)[j]]
    BY <2>1
  <2> QED
    BY <2>2, <2>3, <1>1 DEF ChainOf
<1> QED
  BY <1>1, <1>5, <1>6 DEF Linked

LEMMA OutcomeCommitKeeps == ASSUME OutcomeInv, NEW w \in Recorders, OutcomeCommit(w) PROVE OutcomeInv'
<1> DEFINE call == recorders[w]
<1>1. call \in OutcomeCallType /\ call.key \in Keys /\ call.payload \in Payloads
  BY CallsStand DEF OutcomeCommit, At, CallFits
<1>2. UNCHANGED <<outcomeLines, temps, checked>> /\ checked' \in BOOLEAN
  BY CallsStand DEF OutcomeCommit
<1>3. CASE UNCHANGED <<records, chainHead>> /\ \E stage \in {"refresh", "conflict"} : Fresh(w, stage)
  <2>1. PICK stage \in {"refresh", "conflict"} : Fresh(w, stage)
    BY <1>3
  <2>2. CallFits([OutcomeIdle EXCEPT !.stage = stage], records)
    BY CallsStand, OutcomeIdleFits DEF OutcomeStages
  <2> QED
    BY <1>2, <1>3, <2>1, <2>2, OneCallMoves DEF Fresh
<1>4. CASE /\ OutcomeRecorded(call.key) = {}
           /\ records' = Append(records, [key |-> call.key, payload |-> call.payload, previous |-> chainHead])
           /\ chainHead' = Append(chainHead, OutcomeEntry(call))
           /\ Fresh(w, "refresh")
  <2> DEFINE record == [key |-> call.key, payload |-> call.payload, previous |-> chainHead]
             entry == [key |-> call.key, payload |-> call.payload]
  <2>0. records \in Seq(OutcomeRecordType) /\ chainHead \in Seq(ChainEntryType)
    BY DEF OutcomeInv
  <2>1. record \in OutcomeRecordType /\ entry \in ChainEntryType
    BY <1>1, <2>0 DEF OutcomeRecordType, ChainEntryType
  <2>2. records' = Append(records, record) /\ chainHead' = Append(chainHead, entry)
    BY <1>4 DEF OutcomeEntry
  <2>3. Linked(records') /\ chainHead' = ChainOf(records')
    <3>1. Linked(records) /\ chainHead = ChainOf(records)
      BY DEF OutcomeInv, OneRecordPerKey
    <3>2. Linked(Append(records, record)) /\ Append(chainHead, entry) = ChainOf(Append(records, record))
      BY <1>1, <2>0, <2>1, <3>1, OutcomeChainGoesOn
    <3> QED
      BY <2>2, <3>2
  <2>4. \A i, j \in DOMAIN records' : records'[i].key = records'[j].key => i = j
    <3>1. /\ Len(records) \in Nat /\ DOMAIN records = 1..Len(records) /\ DOMAIN records' = 1..(Len(records) + 1)
          /\ \A i \in 1..Len(records) : records'[i] = records[i]
          /\ records'[Len(records) + 1] = record
      BY <2>0, <2>1, <2>2, AppendProperties, LenProperties
    <3>2. \A i \in 1..Len(records) : records[i].key # call.key
      BY <1>4, <3>1 DEF OutcomeRecorded
    <3>3. \A i, j \in 1..Len(records) : records[i].key = records[j].key => i = j
      BY <3>1 DEF OutcomeInv, OneRecordPerKey
    <3>4. \A i \in 1..(Len(records) + 1) : i \in 1..Len(records) \/ i = Len(records) + 1
      BY <3>1
    <3>5. record.key = call.key
      OBVIOUS
    <3> QED
      BY <3>1, <3>2, <3>3, <3>4, <3>5
  <2>5. records' \in Seq(OutcomeRecordType) /\ chainHead' \in Seq(ChainEntryType)
    BY <2>0, <2>1, <2>2, AppendProperties
  <2>6. ASSUME NEW lines \in Seq(OutcomeRecordType), FirstOf(lines, records) PROVE FirstOf(lines, records')
    <3> HIDE DEF record
    <3> QED
      BY <2>0, <2>1, <2>2, <2>6, FirstOfMore
  <2> HIDE DEF record, entry, call
  <2>7. ASSUME NEW file, FileFits(file, records) PROVE FileFits(file, records')
    BY <2>6, <2>7 DEF FileFits, OutcomeFileType
  <2>8. ASSUME NEW c, CallFits(c, records) PROVE CallFits(c, records')
    BY <2>6, <2>8 DEF CallFits, OutcomeCallType
  <2>9. FileFits(outcomeLines', records') /\ FilesFit(temps', records')
    BY <1>2, <2>7 DEF OutcomeInv, FilesFit
  <2>10. CallsFit(recorders', records')
    <3> DEFINE c == [OutcomeIdle EXCEPT !.stage = "refresh"]
    <3>1. CallFits(c, records')
      BY <2>5, OutcomeIdleFits DEF OutcomeStages
    <3>2. recorders' = [recorders EXCEPT ![w] = c]
      BY <1>4 DEF Fresh
    <3> HIDE DEF c
    <3>3. recorders \in [Recorders -> OutcomeCallType] /\ \A v \in Recorders : CallFits(recorders[v], records')
      BY <2>8 DEF OutcomeInv, CallsFit
    <3>4. c \in OutcomeCallType
      BY <3>1 DEF CallFits
    <3>5. recorders' \in [Recorders -> OutcomeCallType] /\ \A v \in Recorders : CallFits(recorders'[v], records')
      BY <3>1, <3>2, <3>3, <3>4
    <3> QED
      BY <3>5 DEF CallsFit
  <2>11. OneRecordPerKey'
    BY <2>3, <2>4 DEF OneRecordPerKey, Linked, ChainOf, OutcomeEntry
  <2> QED
    BY <1>2, <2>5, <2>9, <2>10, <2>11 DEF OutcomeInv, FileFits, FilesFit, CallsFit, CallFits, FirstOf
<1> QED
  BY <1>3, <1>4 DEF OutcomeCommit, KnownInTransaction, PreviousChain

LEMMA OutcomeRefreshKeeps == ASSUME OutcomeInv, NEW w \in Recorders, OutcomeRefresh(w) PROVE OutcomeInv'
<1> DEFINE b == [OutcomeIdle EXCEPT !.stage = "write"]
           c == [b EXCEPT !.read = records]
<1>1. recorders' = [recorders EXCEPT ![w] = c]
  BY DEF OutcomeRefresh, OutcomeIdle
<1>2. CallFits(b, records)
  BY CallsStand, OutcomeIdleFits DEF OutcomeStages
<1> HIDE DEF b
<1>3. CallFits(c, records)
  BY <1>2, CallsStand, FirstOfItself, CallReadsLines
<1> HIDE DEF c
<1>4. UNCHANGED <<records, chainHead, outcomeLines, temps, checked>> /\ checked' \in BOOLEAN
  BY CallsStand DEF OutcomeRefresh
<1> QED
  BY <1>1, <1>3, <1>4, OneCallMoves

LEMMA OpenTempKeeps == ASSUME OutcomeInv, NEW w \in Recorders, NEW v \in Recorders, OpenTemp(w, v) PROVE OutcomeInv'
<1> DEFINE name == IF v = w THEN w ELSE recorders[v].name
           a == [recorders[w] EXCEPT !.name = name]
           b == [a EXCEPT !.stage = "opened"]
           c == [b EXCEPT !.open = "temp"]
<1>1. /\ recorders' = [recorders EXCEPT ![w].stage = "opened", ![w].name = name, ![w].open = "temp"]
      /\ temps' = [temps EXCEPT ![name] = [NoArtifact EXCEPT !.present = TRUE]]
      /\ UNCHANGED <<records, chainHead, outcomeLines, checked>> /\ checked' \in BOOLEAN
      /\ v = w \/ Writing(v)
  BY CallsStand DEF OpenTemp
<1>2. name \in Recorders
  BY <1>1, CallsStand DEF Writing, CallFits
<1>3. recorders' = [recorders EXCEPT ![w] = c]
  BY <1>1 DEF OutcomeInv, CallsFit, OutcomeCallType
<1> HIDE DEF name
<1>4. CallFits(a, records) /\ a.name = name
  BY <1>2, CallsStand, CallNames
<1> HIDE DEF a
<1>5. CallFits(b, records)
  BY <1>2, <1>4, CallsStand, CallGoes DEF OutcomeStages
<1> HIDE DEF b
<1>6. CallFits(c, records)
  BY <1>5, CallsStand, CallOpens
<1> HIDE DEF c
<1>7. CallsFit(recorders', records)
  BY <1>3, <1>6 DEF OutcomeInv, CallsFit, CallFits
<1>8. FilesFit(temps', records)
  <2> DEFINE e == [NoArtifact EXCEPT !.present = TRUE]
  <2>1. FileFits(e, records)
    BY CallsStand, EmptyFits
  <2>2. temps' = [temps EXCEPT ![name] = e]
    BY <1>1
  <2> HIDE DEF e
  <2> QED
    BY <2>1, <2>2 DEF OutcomeInv, FilesFit, FileFits
<1>9. FileFits(outcomeLines', records)
  BY <1>1 DEF OutcomeInv
<1> QED
  BY <1>1, <1>7, <1>8, <1>9, OutcomeMoves

LEMMA WriteTempKeeps == ASSUME OutcomeInv, NEW w \in Recorders, WriteTemp(w) PROVE OutcomeInv'
<1>1. PICK torn \in BOOLEAN, n \in 0..Len(Lines(w)) :
        LET body == [present |-> TRUE, torn |-> torn, lines |-> SubSeq(Lines(w), 1, n)] IN
        /\ Goto(w, "written") \/ Fresh(w, "failed")
        /\ outcomeLines' = IF recorders[w].open = "artifact" THEN Overlaid(outcomeLines, body) ELSE outcomeLines
        /\ temps' = IF recorders[w].open = "temp" THEN [temps EXCEPT ![recorders[w].name] = Overlaid(@, body)]
                    ELSE temps
  BY DEF WriteTemp
<1> DEFINE body == [present |-> TRUE, torn |-> torn, lines |-> SubSeq(Lines(w), 1, n)]
           name == recorders[w].name
<1>2. /\ outcomeLines' = IF recorders[w].open = "artifact" THEN Overlaid(outcomeLines, body) ELSE outcomeLines
      /\ temps' = IF recorders[w].open = "temp" THEN [temps EXCEPT ![name] = Overlaid(temps[name], body)] ELSE temps
      /\ UNCHANGED <<records, chainHead, checked>> /\ checked' \in BOOLEAN /\ recorders[w].stage = "opened"
  BY <1>1, CallsStand DEF WriteTemp, At
<1>3. FileFits(body, records)
  <2>1. Lines(w) \in Seq(OutcomeRecordType) /\ FirstOf(Lines(w), records) /\ records \in Seq(OutcomeRecordType)
    BY CallsStand DEF Lines, CallFits, OutcomeCallType
  <2>2. SubSeq(Lines(w), 1, n) \in Seq(OutcomeRecordType) /\ FirstOf(SubSeq(Lines(w), 1, n), records)
    BY <2>1, FirstOfStart
  <2> QED
    BY <2>2 DEF FileFits, OutcomeFileType
<1>4. name \in Recorders
  BY <1>2, CallsStand DEF CallFits
<1> HIDE DEF body, name
<1>5. FileFits(outcomeLines', records)
  BY <1>2, <1>3, CallsStand, OverlaidFits DEF OutcomeInv
<1>6. FilesFit(temps', records)
  <2> DEFINE laid == Overlaid(temps[name], body)
  <2>1. FileFits(laid, records)
    BY <1>3, <1>4, CallsStand, OverlaidFits DEF OutcomeInv, FilesFit
  <2>2. temps' = temps \/ temps' = [temps EXCEPT ![name] = laid]
    BY <1>2
  <2> HIDE DEF laid
  <2> QED
    BY <2>1, <2>2 DEF OutcomeInv, FilesFit, FileFits
<1>7. CallsFit(recorders', records)
  <2> DEFINE c == [recorders[w] EXCEPT !.stage = "written"]
             d == [OutcomeIdle EXCEPT !.stage = "failed"]
  <2>1. CallFits(c, records)
    BY <1>4, CallsStand, CallGoes DEF OutcomeStages, name
  <2>2. CallFits(d, records)
    BY CallsStand, OutcomeIdleFits DEF OutcomeStages
  <2>3. recorders' = [recorders EXCEPT ![w] = c] \/ recorders' = [recorders EXCEPT ![w] = d]
    BY <1>1 DEF Goto, Fresh
  <2> HIDE DEF c, d
  <2>4. recorders \in [Recorders -> OutcomeCallType] /\ \A v \in Recorders : CallFits(recorders[v], records)
    BY CallsStand DEF OutcomeInv, CallsFit
  <2>5. CASE recorders' = [recorders EXCEPT ![w] = c]
    BY <2>1, <2>4, <2>5 DEF CallsFit, CallFits
  <2>6. CASE recorders' = [recorders EXCEPT ![w] = d]
    BY <2>2, <2>4, <2>6 DEF CallsFit, CallFits
  <2> QED
    BY <2>3, <2>5, <2>6
<1> QED
  BY <1>2, <1>5, <1>6, <1>7, OutcomeMoves

LEMMA RenameTempKeeps == ASSUME OutcomeInv, NEW w \in Recorders, RenameTemp(w) PROVE OutcomeInv'
<1> DEFINE name == recorders[w].name
           restoring == recorders[w].for = "restore"
           next == IF restoring THEN "answered" ELSE "verify"
           b == [OutcomeIdle EXCEPT !.stage = next]
           c == [b EXCEPT !.for = recorders[w].for]
<1>1. UNCHANGED <<records, chainHead>> /\ checked' \in BOOLEAN /\ name \in Recorders
  BY CallsStand DEF RenameTemp, At, CallFits
<1>2. CASE Fresh(w, "failed") /\ UNCHANGED <<outcomeLines, temps>>
  <2>1. CallFits([OutcomeIdle EXCEPT !.stage = "failed"], records)
    BY CallsStand, OutcomeIdleFits DEF OutcomeStages
  <2> QED
    BY <1>1, <1>2, <2>1, OneCallMoves DEF Fresh
<1>3. CASE /\ outcomeLines' = temps[name]
           /\ temps' = [temps EXCEPT ![name] = NoArtifact]
           /\ recorders' = [v \in Recorders |-> IF v = w THEN c ELSE Moved(recorders[v], name)]
  <2>1. FileFits(outcomeLines', records) /\ FilesFit(temps', records)
    <3>1. FileFits(NoArtifact, records)
      BY CallsStand, EmptyFits
    <3> HIDE DEF name
    <3>2. FileFits(temps[name], records) /\ temps \in [Recorders -> OutcomeFileType]
          /\ \A v \in Recorders : FileFits(temps[v], records)
      BY <1>1 DEF OutcomeInv, FilesFit
    <3> QED
      BY <1>3, <3>1, <3>2 DEF FilesFit, FileFits
  <2>2. CallFits(b, records)
    <3>1. next \in OutcomeStages \ {"startup", "startup artifact", "snapshot", "commit", "opened", "written"}
      BY DEF OutcomeStages
    <3> HIDE DEF next
    <3> QED
      BY <3>1, CallsStand, OutcomeIdleFits
  <2> HIDE DEF b
  <2>3. CallFits(c, records)
    <3>1. recorders[w].for \in {"record", "repair", "restore"}
      BY CallsStand DEF OutcomeCallType
    <3> QED
      BY <2>2, <3>1, CallsStand, CallIsFor
  <2> HIDE DEF c, name
  <2>4. \A v \in Recorders : CallFits(Moved(recorders[v], name), records)
    BY CallsStand, MovedFits
  <2>5. \A v \in Recorders : CallFits(recorders'[v], records) /\ recorders'[v] \in OutcomeCallType
    BY <1>3, <2>3, <2>4 DEF CallFits
  <2>6. CallsFit(recorders', records)
    BY <1>3, <2>5 DEF CallsFit
  <2> QED
    BY <1>1, <2>1, <2>6, OutcomeMoves
<1> QED
  BY <1>2, <1>3 DEF RenameTemp

LEMMA OutcomeVerifyKeeps == ASSUME OutcomeInv, NEW w \in Recorders, Verify(w) PROVE OutcomeInv'
<1>1. PICK stage \in {"answered", "failed"} : Fresh(w, stage)
  BY DEF Verify
<1>2. CallFits([OutcomeIdle EXCEPT !.stage = stage], records)
  BY CallsStand, OutcomeIdleFits DEF OutcomeStages
<1>3. UNCHANGED <<records, chainHead, outcomeLines, temps>> /\ checked' \in BOOLEAN
  BY CallsStand DEF Verify
<1> QED
  BY <1>1, <1>2, <1>3, OneCallMoves DEF Fresh

LEMMA OutcomeAnswerKeeps == ASSUME OutcomeInv, NEW w \in Recorders, TakeAnswer(w) PROVE OutcomeInv'
<1>1. UNCHANGED <<records, chainHead, outcomeLines, temps, checked>> /\ checked' \in BOOLEAN
  BY CallsStand DEF TakeAnswer
<1>2. CallFits(OutcomeIdle, records)
  BY CallsStand, OutcomeIdleFits
<1> QED
  BY <1>1, <1>2, OneCallMoves DEF TakeAnswer

LEMMA RepairArtifactKeeps == ASSUME OutcomeInv, NEW w \in Recorders, RepairArtifact(w) PROVE OutcomeInv'
<1> DEFINE a == [OutcomeIdle EXCEPT !.stage = "examine"]
           b == [a EXCEPT !.for = "repair"]
           c == [b EXCEPT !.read = records]
<1>1. recorders' = [recorders EXCEPT ![w] = c]
  BY DEF RepairArtifact, OutcomeIdle
<1>2. CallFits(a, records)
  BY CallsStand, OutcomeIdleFits DEF OutcomeStages
<1> HIDE DEF a
<1>3. CallFits(b, records)
  BY <1>2, CallsStand, CallIsFor
<1> HIDE DEF b
<1>4. CallFits(c, records)
  BY <1>3, CallsStand, FirstOfItself, CallReadsLines
<1> HIDE DEF c
<1>5. UNCHANGED <<records, chainHead, outcomeLines, temps, checked>> /\ checked' \in BOOLEAN
  BY CallsStand DEF RepairArtifact
<1> QED
  BY <1>1, <1>4, <1>5, OneCallMoves

LEMMA ExamineArtifactKeeps == ASSUME OutcomeInv, NEW w \in Recorders, ExamineArtifact(w) PROVE OutcomeInv'
<1>1. UNCHANGED <<records, chainHead, outcomeLines, temps, checked>> /\ checked' \in BOOLEAN
  BY CallsStand DEF ExamineArtifact
<1>2. recorders \in [Recorders -> OutcomeCallType]
  BY DEF OutcomeInv, CallsFit
<1> DEFINE b == [recorders[w] EXCEPT !.stage = "write"]
           v == [recorders[w] EXCEPT !.stage = "verify"]
<1>3. CallFits(b, records) /\ CallFits(v, records)
  BY CallsStand, CallGoes DEF OutcomeStages
<1>4. CASE recorders' = [recorders EXCEPT ![w].stage = "write", ![w].for = "restore"]
  <2> DEFINE c == [b EXCEPT !.for = "restore"]
  <2>1. recorders' = [recorders EXCEPT ![w] = c]
    BY <1>2, <1>4
  <2> HIDE DEF b
  <2>2. CallFits(c, records)
    BY <1>3, CallsStand, CallIsFor
  <2> HIDE DEF c
  <2> QED
    BY <1>1, <2>1, <2>2, OneCallMoves
<1>5. CASE recorders' = [recorders EXCEPT ![w].stage = "write", ![w].read = outcomeLines.lines]
  <2> DEFINE c == [b EXCEPT !.read = outcomeLines.lines]
  <2>1. recorders' = [recorders EXCEPT ![w] = c]
    BY <1>2, <1>5
  <2> HIDE DEF b
  <2>2. outcomeLines.lines \in Seq(OutcomeRecordType) /\ FirstOf(outcomeLines.lines, records)
    BY DEF OutcomeInv, FileFits, OutcomeFileType
  <2>3. CallFits(c, records)
    BY <1>3, <2>2, CallsStand, CallReadsLines
  <2> HIDE DEF c
  <2> QED
    BY <1>1, <2>1, <2>3, OneCallMoves
<1>6. CASE recorders' = [recorders EXCEPT ![w].stage = "verify", ![w].read = <<>>]
  <2> DEFINE c == [v EXCEPT !.read = <<>>]
  <2>1. recorders' = [recorders EXCEPT ![w] = c]
    BY <1>2, <1>6
  <2> HIDE DEF v
  <2>2. <<>> \in Seq(OutcomeRecordType) /\ FirstOf(<<>>, records)
    BY CallsStand, FirstOfNone
  <2>3. CallFits(c, records)
    BY <1>3, <2>2, CallsStand, CallReadsLines
  <2> HIDE DEF c
  <2> QED
    BY <1>1, <2>1, <2>3, OneCallMoves
<1> QED
  BY <1>4, <1>5, <1>6 DEF ExamineArtifact

LEMMA DamageKeeps == ASSUME OutcomeInv, Damage PROVE OutcomeInv'
<1>1. /\ UNCHANGED <<records, chainHead, checked, temps>> /\ outcomeLines.lines \in Seq(OutcomeRecordType)
      /\ outcomeLines \in OutcomeFileType /\ FirstOf(outcomeLines.lines, records) /\ records \in Seq(OutcomeRecordType)
      /\ checked' \in BOOLEAN
  BY DEF Damage, OutcomeInv, FileFits, OutcomeFileType
<1>2. FilesFit(temps', records)
  BY <1>1 DEF OutcomeInv
<1>3. CASE /\ outcomeLines.lines # <<>> /\ outcomeLines' = [outcomeLines EXCEPT !.torn = TRUE, !.lines = Front(@)]
           /\ UNCHANGED recorders
  <2> DEFINE b == [outcomeLines EXCEPT !.torn = TRUE]
             front == Front(outcomeLines.lines)
  <2>1. front \in Seq(OutcomeRecordType) /\ FirstOf(front, records)
    BY <1>1, <1>3, FirstOfFront
  <2>2. b \in OutcomeFileType
    BY <1>1 DEF OutcomeFileType
  <2>3. outcomeLines' = [b EXCEPT !.lines = front]
    BY <1>1, <1>3 DEF OutcomeFileType
  <2> HIDE DEF b, front
  <2>4. FileFits(outcomeLines', records)
    BY <2>1, <2>2, <2>3 DEF OutcomeFileType, FileFits
  <2>5. CallsFit(recorders', records)
    BY <1>3 DEF OutcomeInv
  <2> QED
    BY <1>1, <1>2, <2>4, <2>5, OutcomeMoves
<1>4. CASE outcomeLines' = [outcomeLines EXCEPT !.torn = TRUE] /\ UNCHANGED recorders
  <2>1. FileFits(outcomeLines', records)
    BY <1>1, <1>4 DEF OutcomeFileType, FileFits
  <2>2. CallsFit(recorders', records)
    BY <1>4 DEF OutcomeInv
  <2> QED
    BY <1>1, <1>2, <2>1, <2>2, OutcomeMoves
<1>5. CASE outcomeLines' = NoArtifact /\ recorders' = [v \in Recorders |-> Moved(recorders[v], "none")]
  <2>1. FileFits(outcomeLines', records)
    BY <1>1, <1>5, EmptyFits
  <2>2. \A v \in Recorders : CallFits(recorders'[v], records) /\ recorders'[v] \in OutcomeCallType
    <3>1. ASSUME NEW v \in Recorders PROVE CallFits(Moved(recorders[v], "none"), records)
      BY CallsStand, MovedFits
    <3> QED
      BY <1>5, <3>1 DEF CallFits
  <2>3. CallsFit(recorders', records)
    BY <1>5, <2>2 DEF CallsFit
  <2> QED
    BY <1>1, <1>2, <2>1, <2>3, OutcomeMoves
<1> QED
  BY <1>3, <1>4, <1>5 DEF Damage

LEMMA OutcomeRestartKeeps == ASSUME OutcomeInv, OutcomeRestart PROVE OutcomeInv'
<1>1. UNCHANGED <<records, chainHead, outcomeLines>> /\ checked' \in BOOLEAN /\ FileFits(outcomeLines', records)
  BY DEF OutcomeRestart, OutcomeInv
<1>2. FileFits(NoArtifact, records) /\ CallFits(OutcomeIdle, records)
  BY EmptyFits, OutcomeIdleFits DEF OutcomeInv
<1>3. FilesFit(temps', records) /\ CallsFit(recorders', records)
  BY <1>2 DEF OutcomeRestart, FilesFit, FileFits, CallsFit, CallFits
<1> QED
  BY <1>1, <1>3, OutcomeMoves

LEMMA OutcomeInitHolds == OutcomeInit => OutcomeInv
<1> SUFFICES ASSUME OutcomeInit PROVE OutcomeInv
  OBVIOUS
<1>1. <<>> \in Seq(OutcomeRecordType) /\ <<>> \in Seq(ChainEntryType) /\ DOMAIN <<>> = {}
  OBVIOUS
<1>2. FileFits(NoArtifact, <<>>) /\ CallFits(OutcomeIdle, <<>>)
  BY <1>1, EmptyFits, OutcomeIdleFits
<1>3. FileFits(outcomeLines, records) /\ FilesFit(temps, records) /\ CallsFit(recorders, records)
  BY <1>2 DEF OutcomeInit, FilesFit, FileFits, CallsFit, CallFits
<1>4. Linked(<<>>) /\ <<>> = ChainOf(<<>>)
  <2>1. ChainOf(<<>>) = [j \in {} |-> OutcomeEntry(<<>>[j])]
    BY <1>1 DEF ChainOf
  <2>2. <<>> \in [{} -> ChainEntryType]
    BY <1>1
  <2> QED
    BY <1>1, <2>1, <2>2 DEF Linked
<1>5. OneRecordPerKey
  BY <1>1, <1>4 DEF OutcomeInit, OneRecordPerKey
<1> QED
  BY <1>1, <1>3, <1>5 DEF OutcomeInit, OutcomeInv

\* A step of the outcomes keeps the invariant.
LEMMA OutcomeKeeps == OutcomeInv /\ [OutcomeNext]_outcomeVars => OutcomeInv'
<1> SUFFICES ASSUME OutcomeInv, [OutcomeNext]_outcomeVars PROVE OutcomeInv'
  OBVIOUS
<1>1. CASE \E w \in Recorders, key \in Keys, payload \in Payloads : OutcomeCall(w, key, payload)
  BY <1>1, OutcomeCallKeeps
<1>2. CASE \E w \in Recorders : ReadHead(w) \/ CheckStartup(w) \/ ReadSnapshot(w) \/ OutcomeCommit(w)
  BY <1>2, ReadHeadKeeps, CheckStartupKeeps, ReadSnapshotKeeps, OutcomeCommitKeeps
<1>3. CASE \E w \in Recorders :
             OutcomeRefresh(w) \/ (\E v \in Recorders : OpenTemp(w, v)) \/ WriteTemp(w) \/ RenameTemp(w)
  BY <1>3, OutcomeRefreshKeeps, OpenTempKeeps, WriteTempKeeps, RenameTempKeeps
<1>4. CASE \E w \in Recorders : Verify(w) \/ TakeAnswer(w) \/ RepairArtifact(w) \/ ExamineArtifact(w)
  BY <1>4, OutcomeVerifyKeeps, OutcomeAnswerKeeps, RepairArtifactKeeps, ExamineArtifactKeeps
<1>5. CASE OutcomeRestart \/ Damage
  BY <1>5, OutcomeRestartKeeps, DamageKeeps
<1>6. CASE UNCHANGED outcomeVars
  <2>1. /\ UNCHANGED <<records, chainHead>> /\ checked' \in BOOLEAN
        /\ FileFits(outcomeLines', records) /\ FilesFit(temps', records) /\ CallsFit(recorders', records)
    BY <1>6 DEF outcomeVars, OutcomeInv
  <2> QED
    BY <2>1, OutcomeMoves
<1> QED
  BY <1>1, <1>2, <1>3, <1>4, <1>5, <1>6 DEF OutcomeNext

\* The invariant of the outcomes holds in every behaviour.
LEMMA OutcomeInvariant == OutcomeSpec => []OutcomeInv
BY OutcomeInitHolds, OutcomeKeeps, PTL DEF OutcomeSpec

\* Records, calls and the artifact stay well formed (outcome-capture.js).
THEOREM OutcomeTypes == OutcomeSpec => []OutcomeTypeOK
<1>1. OutcomeInv => OutcomeTypeOK
  <2> SUFFICES ASSUME OutcomeInv PROVE OutcomeTypeOK
    OBVIOUS
  <2>1. \A i \in DOMAIN records : records[i] \in OutcomeRecordType
    BY LenProperties DEF OutcomeInv
  <2>2. \A w \in Recorders : recorders[w] \in OutcomeCallType
    BY DEF OutcomeInv, CallsFit
  <2>3. DOMAIN outcomeLines = {"present", "torn", "lines"}
    BY DEF OutcomeInv, FileFits, OutcomeFileType
  <2> QED
    BY <2>1, <2>2, <2>3 DEF OutcomeInv, OutcomeTypeOK, OutcomeRecordType, OutcomeCallType, ChainEntryType
<1> QED
  BY <1>1, OutcomeInvariant, PTL

\* Calls that overlap store a key once, and the chain is unbroken up to its head, for
\* every number of calls and records (outcome-capture.js, recordOutcome).
THEOREM OneRecordPerKeyHolds == OutcomeSpec => []OneRecordPerKey
<1>1. OutcomeInv => OneRecordPerKey
  BY DEF OutcomeInv
<1> QED
  BY <1>1, OutcomeInvariant, PTL

\* The artifact never holds anything but the first records, whatever calls and repairs
\* overlap, two writing one file included, and whatever is lost or damaged
\* (reconcileArtifactFromState, repairOutcomeArtifactTail, writeAtomic).
THEOREM ArtifactIsPrefixHolds == OutcomeSpec => []ArtifactIsPrefix
<1>1. OutcomeInv => ArtifactIsPrefix
  <2> SUFFICES ASSUME OutcomeInv PROVE IsPrefix(outcomeLines.lines, records)
    BY DEF ArtifactIsPrefix
  <2> DEFINE s == outcomeLines.lines
  <2>1. s \in Seq(OutcomeRecordType) /\ records \in Seq(OutcomeRecordType) /\ FirstOf(s, records)
    BY DEF OutcomeInv, FileFits, OutcomeFileType
  <2> HIDE DEF s
  <2>2. /\ Len(s) \in Nat /\ Len(records) \in Nat /\ Len(s) <= Len(records) /\ DOMAIN s = 1..Len(s)
        /\ \A i \in 1..Len(s) : s[i] = records[i]
    BY <2>1, LenProperties DEF FirstOf
  <2>3. SubSeq(s, 1, Len(s)) = [i \in 1..Len(s) |-> s[i]] /\ SubSeq(records, 1, Len(s)) = [i \in 1..Len(s) |-> records[i]]
    OBVIOUS
  <2>4. SubSeq(s, 1, Len(s)) = SubSeq(records, 1, Len(s))
    BY <2>2, <2>3
  <2> QED
    BY <2>2, <2>4 DEF IsPrefix, s
<1> QED
  BY <1>1, OutcomeInvariant, PTL

-----------------------------------------------------------------------------
(* Limits: GovernanceQuota.                                                   *)

LEMMA Divides ==
  ASSUME NEW a \in Nat, NEW k \in Nat \ {0}
  PROVE  a \div k \in Nat /\ (a \div k) * k <= a /\ a < (a \div k) * k + k
OBVIOUS

LEMMA Multiples ==
  ASSUME NEW a \in Nat, NEW b \in Nat, a < b, NEW k \in Nat \ {0}
  PROVE  a * k + k <= b * k
OBVIOUS

LEMMA DivGrows ==
  ASSUME NEW a \in Nat, NEW b \in Nat, a <= b, NEW k \in Nat \ {0}
  PROVE  a \div k <= b \div k
<1> DEFINE q == a \div k r == b \div k
<1>1. q \in Nat /\ r \in Nat /\ q * k <= a /\ b < r * k + k
  BY Divides
<1> HIDE DEF q, r
<1>2. ASSUME r < q PROVE FALSE
  <2>1. r * k + k <= q * k
    BY <1>1, <1>2, Multiples
  <2>2. r * k \in Nat /\ q * k \in Nat
    BY <1>1
  <2> QED
    BY <1>1, <2>1, <2>2
<1>3. q <= r
  BY <1>1, <1>2
<1> QED
  BY <1>3 DEF q, r

LEMMA QuotaNumbers ==
  /\ McpPerMinute \in Nat /\ GlobalPerMinute \in Nat /\ RequestsPerDay \in Nat /\ TokensPerDay \in Nat
  /\ PublishesPerHour \in Nat /\ PublishesPerDay \in Nat /\ WriteTokensPerDay \in Nat /\ TogglesPerMinute \in Nat
  /\ AttemptTtl \in Nat /\ MaxQuotaMinutes \in Nat /\ MaxEvents \in Nat
  /\ MinutesPerHour \in Nat \ {0} /\ MinutesPerDay \in Nat \ {0}
  /\ \A tokens \in TokenCosts : tokens \in Nat
BY QuotaAssumption

EventKinds == {"use", "excess", "publish", "publication excess", "toggle", "toggle excess", "trip", "timeout", "restart"}
Everyone == Mcps \union {"none"}
EventType ==
  [kind : EventKinds, mcp : Everyone, tokens : Nat, attempt : Attempts \union {"none"}, minute : 0..MaxQuotaMinutes]

-----------------------------------------------------------------------------
(* The tokens of a set of places, one place at a time.                      *)

Adding(f, h, places, k) == IF k = 0 THEN 0 ELSE f[k - 1] + (IF k \in places THEN h[k].tokens ELSE 0)
Adds(f, h, places, m) == f = [k \in 0..m |-> Adding(f, h, places, k)]
AddedTo(h, places, m) == CHOOSE f : Adds(f, h, places, m)
TokensIn(h, places) == AddedTo(h, places, Len(h))[Len(h)]

LEMMA TokensAre == ASSUME NEW places PROVE TokensOf(places) = TokensIn(history, places)
BY DEF TokensOf, TokensIn, AddedTo, Adds, Adding

LEMMA AddingExists ==
  ASSUME NEW h, NEW places, NEW m \in Nat
  PROVE  \E f : Adds(f, h, places, m)
<1> USE DEF Adds
<1> DEFINE Defined(n) == \E f : Adds(f, h, places, n)
           Without == {n \in Nat : ~Defined(n)}
<1>1. Defined(0)
  <2> DEFINE g == [k \in 0..0 |-> 0]
  <2>1. \A k \in 0..0 : g[k] = Adding(g, h, places, k)
    BY DEF Adding
  <2>2. g = [k \in 0..0 |-> Adding(g, h, places, k)]
    BY <2>1
  <2> QED
    BY <2>2
<1>2. ASSUME NEW n \in Nat, n # 0, Defined(n - 1) PROVE Defined(n)
  <2>1. PICK f : f = [k \in 0..(n - 1) |-> Adding(f, h, places, k)]
    BY <1>2
  <2> DEFINE g == [k \in 0..n |-> IF k = n THEN Adding(f, h, places, n) ELSE f[k]]
  <2>2. \A k \in 0..n : k # 0 => k - 1 \in 0..(n - 1) /\ g[k - 1] = f[k - 1]
    OBVIOUS
  <2>3. ASSUME NEW k \in 0..n PROVE Adding(g, h, places, k) = Adding(f, h, places, k)
    <3> HIDE DEF g
    <3> QED
      BY <2>2 DEF Adding
  <2>4. \A k \in 0..(n - 1) : f[k] = Adding(f, h, places, k)
    BY <2>1
  <2>5. \A k \in 0..n : g[k] = Adding(g, h, places, k)
    BY <2>3, <2>4
  <2>6. g = [k \in 0..n |-> Adding(g, h, places, k)]
    BY <2>5
  <2> QED
    BY <2>6
<1> HIDE DEF Defined
<1>3. Without = {}
  <2> SUFFICES ASSUME Without # {} PROVE FALSE
    OBVIOUS
  <2>1. PICK n \in Without : \A k \in Without : n <= k
    <3>1. Without \subseteq Nat
      OBVIOUS
    <3> HIDE DEF Without
    <3> QED
      BY <3>1, LeastNumber
  <2>2. n \in Nat /\ n # 0 /\ ~Defined(n) /\ n - 1 \in Nat
    BY <1>1, <2>1
  <2>3. n - 1 \notin Without
    BY <2>1, <2>2
  <2> QED
    BY <1>2, <2>2, <2>3
<1> QED
  BY <1>3 DEF Defined

LEMMA AddingEquation ==
  ASSUME NEW h, NEW places, NEW m \in Nat
  PROVE  \A k \in 0..m : AddedTo(h, places, m)[k] = Adding(AddedTo(h, places, m), h, places, k)
<1> DEFINE g == AddedTo(h, places, m)
<1>1. \E f : Adds(f, h, places, m)
  BY AddingExists
<1>2. Adds(g, h, places, m)
  BY <1>1 DEF AddedTo
<1>3. \A k \in 0..m : g[k] = Adding(g, h, places, k)
  <2> HIDE DEF g
  <2> QED
    BY <1>2 DEF Adds
<1> QED
  BY <1>3

\* The sum over a history that has one event more.
LEMMA TokensAdded ==
  ASSUME NEW T, NEW h \in Seq(T), NEW e \in T, NEW places, NEW more,
         \A k \in 1..Len(h) : k \in more <=> k \in places
  PROVE  TokensIn(Append(h, e), more) = TokensIn(h, places) + (IF Len(h) + 1 \in more THEN e.tokens ELSE 0)
<1> DEFINE m == Len(h)
           t == Append(h, e)
           f == AddedTo(h, places, m)
           g == AddedTo(t, more, m + 1)
<1>1. m \in Nat /\ Len(t) = m + 1 /\ t[m + 1] = e /\ (\A k \in 1..m : t[k] = h[k])
      /\ \A k \in 1..m : k \in more <=> k \in places
  BY AppendProperties, LenProperties
<1>2. \A k \in 0..m : f[k] = Adding(f, h, places, k)
  BY <1>1, AddingEquation
<1>3. \A k \in 0..(m + 1) : g[k] = Adding(g, t, more, k)
  <2>1. m + 1 \in Nat
    BY <1>1
  <2> HIDE DEF m, t
  <2> QED
    BY <2>1, AddingEquation
<1> DEFINE Differ == {k \in 0..m : f[k] # g[k]}
<1> HIDE DEF f, g, m, t
<1>4. Differ = {}
  <2> SUFFICES ASSUME Differ # {} PROVE FALSE
    OBVIOUS
  <2>1. PICK n \in Differ : \A k \in Differ : n <= k
    <3>1. Differ \subseteq Nat
      BY <1>1
    <3> HIDE DEF Differ
    <3> QED
      BY <3>1, LeastNumber
  <2>2. n \in 0..m /\ n \in 0..(m + 1) /\ f[n] # g[n]
    BY <1>1, <2>1
  <2>3. n # 0
    BY <1>2, <1>3, <2>2 DEF Adding
  <2>4. n - 1 \in 0..m /\ n \in 1..m /\ ~(n <= n - 1)
    BY <1>1, <2>2, <2>3
  <2>5. f[n - 1] = g[n - 1]
    BY <2>1, <2>4
  <2> QED
    BY <1>1, <1>2, <1>3, <2>2, <2>3, <2>4, <2>5 DEF Adding
<1>5. g[m + 1] = f[m] + (IF m + 1 \in more THEN e.tokens ELSE 0)
  <2>1. m \in 0..m /\ m + 1 \in 0..(m + 1) /\ m + 1 # 0 /\ (m + 1) - 1 = m
    BY <1>1
  <2>2. f[m] = g[m]
    BY <1>4, <2>1
  <2> QED
    BY <1>1, <1>3, <2>1, <2>2 DEF Adding
<1> QED
  BY <1>1, <1>5 DEF TokensIn, f, g, m, t

LEMMA NoTokens == ASSUME NEW places PROVE TokensIn(<<>>, places) = 0
<1>1. Len(<<>>) = 0 /\ 0 \in Nat /\ 0 \in 0..0
  OBVIOUS
<1>2. AddedTo(<<>>, places, 0)[0] = Adding(AddedTo(<<>>, places, 0), <<>>, places, 0)
  BY <1>1, AddingEquation
<1> QED
  BY <1>1, <1>2 DEF TokensIn, Adding

-----------------------------------------------------------------------------
(* Windows.                                                                 *)

Places(h, kind, who, minutes, n) ==
  {i \in DOMAIN h : h[i].kind = kind /\ h[i].mcp \in who /\ h[i].minute \div minutes = n}

\* How often, or with how many tokens.
Measure(h, of, places) == IF of = "times" THEN Cardinality(places) ELSE TokensIn(h, places)
Gain(e, of) == IF of = "times" THEN 1 ELSE e.tokens

LEMMA MeasureGrows ==
  ASSUME NEW h \in Seq(EventType), NEW e \in EventType, NEW of, NEW kind, NEW who, NEW minutes, NEW n,
         Measure(h, of, Places(h, kind, who, minutes, n)) \in Nat
  PROVE  Measure(Append(h, e), of, Places(Append(h, e), kind, who, minutes, n))
           = Measure(h, of, Places(h, kind, who, minutes, n))
             + (IF e.kind = kind /\ e.mcp \in who /\ e.minute \div minutes = n THEN Gain(e, of) ELSE 0)
<1> DEFINE m == Len(h)
           t == Append(h, e)
           few == Places(h, kind, who, minutes, n)
           more == Places(t, kind, who, minutes, n)
<1>1. /\ m \in Nat /\ DOMAIN h = 1..m /\ DOMAIN t = 1..(m + 1) /\ t[m + 1] = e
      /\ \A k \in 1..m : t[k] = h[k]
  BY AppendProperties, LenProperties
<1>2. /\ few \subseteq 1..m /\ more \subseteq 1..(m + 1)
      /\ \A k \in 1..m : k \in more <=> k \in few
      /\ m + 1 \in more <=> e.kind = kind /\ e.mcp \in who /\ e.minute \div minutes = n
      /\ m + 1 \notin few /\ m + 1 \in 1..(m + 1) /\ \A k \in 1..(m + 1) : k \in 1..m \/ k = m + 1
  BY <1>1 DEF Places
<1>3. more = few \union (IF m + 1 \in more THEN {m + 1} ELSE {})
  <2> HIDE DEF few, more, m
  <2> QED
    BY <1>1, <1>2
<1>4. IsFiniteSet(few)
  <2>1. IsFiniteSet(1..m)
    <3>1. 1 \in Int /\ m \in Int
      BY <1>1
    <3> HIDE DEF m
    <3> QED
      BY <3>1, FS_Interval
  <2> HIDE DEF few
  <2> QED
    BY <1>2, <2>1, FS_Subset
<1>5. CASE of = "times"
  <2>1. Cardinality(few \union {m + 1}) = Cardinality(few) + 1
    <3> HIDE DEF few, m
    <3> QED
      BY <1>2, <1>4, FS_AddElement
  <2>2. Cardinality(few) \in Nat
    <3> HIDE DEF few
    <3> QED
      BY <1>4, FS_CardinalityType
  <2>3. Cardinality(more) = Cardinality(few) + (IF m + 1 \in more THEN 1 ELSE 0)
    <3>1. m + 1 \in more => more = few \union {m + 1}
      <4> HIDE DEF few, more, m
      <4> QED
        BY <1>3
    <3>2. m + 1 \notin more => more = few
      <4> HIDE DEF few, more, m
      <4> QED
        BY <1>3
    <3>3. Cardinality(few) + 0 = Cardinality(few)
      <4> HIDE DEF few
      <4> QED
        BY <2>2
    <3>4. CASE m + 1 \in more
      BY <2>1, <3>1, <3>4, Zenon
    <3>5. CASE m + 1 \notin more
      BY <3>2, <3>3, <3>5, Zenon
    <3> QED
      BY <3>4, <3>5
  <2> HIDE DEF few, more, m, t
  <2> QED
    BY <1>2, <1>5, <2>3 DEF Measure, Gain, few, more, t
<1>6. CASE of # "times"
  <2>1. \A k \in 1..Len(h) : k \in more <=> k \in few
    BY <1>2
  <2>2. TokensIn(t, more) = TokensIn(h, few) + (IF m + 1 \in more THEN e.tokens ELSE 0)
    <3> HIDE DEF few, more
    <3> QED
      BY <2>1, TokensAdded
  <2> HIDE DEF few, more, m, t
  <2> QED
    BY <1>2, <1>6, <2>2 DEF Measure, Gain, few, more, t
<1> QED
  BY <1>5, <1>6

\* What was measured in the current window, nothing in a later one, and no window has
\* more than its limit.
WindowKept(h, of, kind, who, minutes, current, count, limit) ==
  /\ Measure(h, of, Places(h, kind, who, minutes, current)) = count
  /\ \A n \in Nat : /\ Measure(h, of, Places(h, kind, who, minutes, n)) \in Nat
                    /\ Measure(h, of, Places(h, kind, who, minutes, n)) <= limit
                    /\ n > current => Measure(h, of, Places(h, kind, who, minutes, n)) = 0

LEMMA WindowBegins ==
  ASSUME NEW of, NEW kind, NEW who, NEW minutes, NEW limit \in Nat
  PROVE  WindowKept(<<>>, of, kind, who, minutes, 0, 0, limit)
<1>1. ASSUME NEW n PROVE Measure(<<>>, of, Places(<<>>, kind, who, minutes, n)) = 0
  <2>1. Places(<<>>, kind, who, minutes, n) = {}
    BY DEF Places
  <2>2. Cardinality({}) = 0
    BY FS_EmptySet
  <2>3. TokensIn(<<>>, {}) = 0
    BY NoTokens
  <2> QED
    BY <2>1, <2>2, <2>3 DEF Measure
<1> QED
  BY <1>1 DEF WindowKept

\* An event of the kind is counted in the current window or begins one; any other event
\* leaves the count of the window it is in.
LEMMA WindowMoves ==
  ASSUME NEW h \in Seq(EventType), NEW e \in EventType, NEW of, NEW kind, NEW who, NEW minutes,
         NEW current \in Nat, NEW later \in Nat, current <= later,
         NEW count \in Nat, NEW next, NEW limit \in Nat,
         WindowKept(h, of, kind, who, minutes, current, count, limit),
         e.kind = kind /\ e.mcp \in who => e.minute \div minutes = later,
         next = (IF later = current THEN count ELSE 0)
                + (IF e.kind = kind /\ e.mcp \in who THEN Gain(e, of) ELSE 0),
         next <= limit
  PROVE  WindowKept(Append(h, e), of, kind, who, minutes, later, next, limit)
<1> DEFINE was(n) == Measure(h, of, Places(h, kind, who, minutes, n))
           is(n) == Measure(Append(h, e), of, Places(Append(h, e), kind, who, minutes, n))
           gain == IF e.kind = kind /\ e.mcp \in who THEN Gain(e, of) ELSE 0
<1>1. gain \in Nat
  BY DEF Gain, EventType
<1>2. /\ was(current) = count
      /\ \A n \in Nat : was(n) \in Nat /\ was(n) <= limit /\ (n > current => was(n) = 0)
  BY DEF WindowKept
<1>3. \A n \in Nat : is(n) = was(n) + (IF e.kind = kind /\ e.mcp \in who /\ e.minute \div minutes = n
                                         THEN Gain(e, of) ELSE 0)
  <2> TAKE n \in Nat
  <2>1. was(n) \in Nat
    BY <1>2
  <2> QED
    BY <2>1, MeasureGrows
<1>4. \A n \in Nat : is(n) = was(n) + (IF n = later THEN gain ELSE 0)
  <2> HIDE DEF was, is
  <2> QED
    BY <1>2, <1>3
<1>5. is(later) = next /\ was(later) = (IF later = current THEN count ELSE 0)
  <2> HIDE DEF was, is
  <2>1. was(later) = (IF later = current THEN count ELSE 0)
    <3>1. later = current \/ later > current
      OBVIOUS
    <3>2. later > current => was(later) = 0
      BY <1>2
    <3>3. later > current => later # current
      OBVIOUS
    <3> QED
      BY <1>2, <3>1, <3>2, <3>3
  <2>2. is(later) = was(later) + gain
    BY <1>4
  <2> QED
    BY <2>1, <2>2
<1>6. \A n \in Nat : is(n) \in Nat /\ is(n) <= limit /\ (n > later => is(n) = 0)
  <2> TAKE n \in Nat
  <2> HIDE DEF was, is, gain
  <2>1. CASE n = later
    <3>1. next \in Nat
      BY <1>1 DEF gain
    <3> QED
      BY <2>1, <1>5, <3>1
  <2>2. CASE n # later
    <3>1. n \in Nat /\ n # later
      BY <2>2
    <3>2. was(n) \in Nat /\ was(n) <= limit /\ (n > current => was(n) = 0)
      BY <1>2, <3>1
    <3>3. is(n) = was(n)
      <4>1. is(n) = was(n) + 0
        BY <1>4, <3>1
      <4> QED
        BY <3>2, <4>1
    <3>4. n > later => n > current
      OBVIOUS
    <3> QED
      BY <3>2, <3>3, <3>4
  <2> QED
    BY <2>1, <2>2
<1> QED
  BY <1>5, <1>6 DEF WindowKept

-----------------------------------------------------------------------------
(* The state beside its history.                                            *)

UsageType ==
  [minute : 0..MaxQuotaMinutes, perMcp : [Mcps -> Nat], inMinute : Nat, day : Nat, inDay : Nat, tokens : Nat]
MutationType ==
  [hour : Nat, inHour : Nat, day : Nat, inDay : Nat, writeTokens : Nat, minute : 0..MaxQuotaMinutes,
   toggles : Nat, accounted : [Attempts -> 0..(MaxQuotaMinutes + 1)]]

QuotaShape ==
  /\ minuteNow \in 0..MaxQuotaMinutes /\ tripped \in BOOLEAN /\ breaker \in QuotaBreaker!Entry
  /\ usage \in UsageType /\ mutation \in MutationType
  /\ history \in Seq(EventType) /\ Len(history) <= MaxEvents

UsageKept(h, u) ==
  /\ WindowKept(h, "times", "use", Everyone, 1, u.minute, u.inMinute, GlobalPerMinute)
  /\ \A mcp \in Mcps : WindowKept(h, "times", "use", {mcp}, 1, u.minute, u.perMcp[mcp], McpPerMinute)
  /\ WindowKept(h, "times", "use", Everyone, MinutesPerDay, u.day, u.inDay, RequestsPerDay)
  /\ WindowKept(h, "tokens", "use", Everyone, MinutesPerDay, u.day, u.tokens, TokensPerDay)

PublishesKept(h, m) ==
  /\ WindowKept(h, "times", "publish", Everyone, MinutesPerHour, m.hour, m.inHour, PublishesPerHour)
  /\ WindowKept(h, "times", "publish", Everyone, MinutesPerDay, m.day, m.inDay, PublishesPerDay)
  /\ WindowKept(h, "tokens", "publish", Everyone, MinutesPerDay, m.day, m.writeTokens, WriteTokensPerDay)

TogglesKept(h, m) == WindowKept(h, "times", "toggle", Everyone, 1, m.minute, m.toggles, TogglesPerMinute)

\* No window begins in the future.
WindowsBegun ==
  /\ usage.minute <= minuteNow /\ usage.day <= DayOf(minuteNow)
  /\ mutation.hour <= HourOf(minuteNow) /\ mutation.day <= DayOf(minuteNow) /\ mutation.minute <= minuteNow

WindowsInv == WindowsBegun /\ UsageKept(history, usage) /\ PublishesKept(history, mutation) /\ TogglesKept(history, mutation)

LEMMA MinutesNow ==
  ASSUME QuotaShape
  PROVE  /\ minuteNow \in Nat /\ HourOf(minuteNow) \in Nat /\ DayOf(minuteNow) \in Nat
         /\ minuteNow \div 1 = minuteNow
<1>1. minuteNow \in Nat
  BY QuotaNumbers DEF QuotaShape
<1> QED
  BY <1>1, QuotaNumbers, Divides DEF HourOf, DayOf

LEMMA WindowStays ==
  ASSUME NEW h \in Seq(EventType), NEW e \in EventType, NEW of, NEW kind, NEW who, NEW minutes,
         NEW current \in Nat, NEW count \in Nat, NEW limit \in Nat,
         WindowKept(h, of, kind, who, minutes, current, count, limit),
         ~(e.kind = kind /\ e.mcp \in who)
  PROVE  WindowKept(Append(h, e), of, kind, who, minutes, current, count, limit)
<1>1. count <= limit
  BY DEF WindowKept
<1>2. count = (IF current = current THEN count ELSE 0)
              + (IF e.kind = kind /\ e.mcp \in who THEN Gain(e, of) ELSE 0)
  OBVIOUS
<1>3. current <= current
  OBVIOUS
<1> QED
  BY <1>1, <1>2, <1>3, WindowMoves

LEMMA UsageStays ==
  ASSUME NEW h \in Seq(EventType), NEW e \in EventType, NEW u \in UsageType, UsageKept(h, u), e.kind # "use"
  PROVE  UsageKept(Append(h, e), u)
<1>1. /\ u.minute \in Nat /\ u.inMinute \in Nat /\ u.day \in Nat /\ u.inDay \in Nat /\ u.tokens \in Nat
      /\ \A mcp \in Mcps : u.perMcp[mcp] \in Nat
  BY QuotaNumbers DEF UsageType
<1> QED
  BY <1>1, QuotaNumbers, WindowStays DEF UsageKept

LEMMA PublishesStay ==
  ASSUME NEW h \in Seq(EventType), NEW e \in EventType, NEW m \in MutationType, PublishesKept(h, m), e.kind # "publish"
  PROVE  PublishesKept(Append(h, e), m)
<1>1. m.hour \in Nat /\ m.inHour \in Nat /\ m.day \in Nat /\ m.inDay \in Nat /\ m.writeTokens \in Nat
  BY DEF MutationType
<1> QED
  BY <1>1, QuotaNumbers, WindowStays DEF PublishesKept

LEMMA TogglesStay ==
  ASSUME NEW h \in Seq(EventType), NEW e \in EventType, NEW m \in MutationType, TogglesKept(h, m), e.kind # "toggle"
  PROVE  TogglesKept(Append(h, e), m)
<1>1. m.minute \in Nat /\ m.toggles \in Nat
  BY QuotaNumbers DEF MutationType
<1> QED
  BY <1>1, QuotaNumbers, WindowStays DEF TogglesKept

LEMMA EventsTyped ==
  ASSUME QuotaShape, NEW kind \in EventKinds, NEW mcp \in Everyone, NEW tokens \in Nat,
         NEW attempt \in Attempts \union {"none"}
  PROVE  /\ Event(kind, mcp, tokens, attempt) \in EventType
         /\ Event(kind, mcp, tokens, attempt).kind = kind /\ Event(kind, mcp, tokens, attempt).mcp = mcp
         /\ Event(kind, mcp, tokens, attempt).tokens = tokens
         /\ Event(kind, mcp, tokens, attempt).attempt = attempt
         /\ Event(kind, mcp, tokens, attempt).minute = minuteNow
BY DEF Event, EventType, QuotaShape

\* An event that is appended to the history.
LEMMA HistoryGrows ==
  ASSUME QuotaShape, HasRoom, NEW e \in EventType
  PROVE  /\ Append(history, e) \in Seq(EventType) /\ Len(Append(history, e)) <= MaxEvents
         /\ Len(history) \in Nat /\ DOMAIN history = 1..Len(history)
         /\ DOMAIN Append(history, e) = 1..(Len(history) + 1)
         /\ Append(history, e)[Len(history) + 1] = e
         /\ \A i \in 1..Len(history) : Append(history, e)[i] = history[i]
<1>1. history \in Seq(EventType) /\ Len(history) < MaxEvents
  BY DEF QuotaShape, HasRoom
<1>2. /\ Append(history, e) \in Seq(EventType) /\ Len(Append(history, e)) = Len(history) + 1
      /\ Len(history) \in Nat /\ DOMAIN history = 1..Len(history)
      /\ DOMAIN Append(history, e) = 1..(Len(history) + 1)
      /\ Append(history, e)[Len(history) + 1] = e
      /\ \A i \in 1..Len(history) : Append(history, e)[i] = history[i]
  BY <1>1, AppendProperties, LenProperties
<1> QED
  BY <1>1, <1>2, QuotaNumbers

\* What a request counts.
LEMMA CountedIs ==
  ASSUME QuotaShape, NEW mcp \in Mcps, NEW tokens \in Nat, NEW u, u = Counted(usage, mcp, tokens)
  PROVE  /\ u \in UsageType /\ u.minute = minuteNow /\ u.day = DayOf(minuteNow)
         /\ u.inMinute = (IF minuteNow = usage.minute THEN usage.inMinute ELSE 0) + 1
         /\ \A m \in Mcps : u.perMcp[m] = (IF minuteNow = usage.minute THEN usage.perMcp[m] ELSE 0)
                                          + (IF m = mcp THEN 1 ELSE 0)
         /\ u.inDay = (IF DayOf(minuteNow) = usage.day THEN usage.inDay ELSE 0) + 1
         /\ u.tokens = (IF DayOf(minuteNow) = usage.day THEN usage.tokens ELSE 0) + tokens
<1> DEFINE r == Rolled(usage)
           p == [r.perMcp EXCEPT ![mcp] = @ + 1]
<1>1. usage \in UsageType /\ minuteNow \in 0..MaxQuotaMinutes /\ DayOf(minuteNow) \in Nat
  BY MinutesNow DEF QuotaShape
<1>2. /\ r \in UsageType /\ r.minute = minuteNow /\ r.day = DayOf(minuteNow)
      /\ r.inMinute = (IF minuteNow = usage.minute THEN usage.inMinute ELSE 0)
      /\ r.perMcp = (IF minuteNow = usage.minute THEN usage.perMcp ELSE [m \in Mcps |-> 0])
      /\ r.inDay = (IF DayOf(minuteNow) = usage.day THEN usage.inDay ELSE 0)
      /\ r.tokens = (IF DayOf(minuteNow) = usage.day THEN usage.tokens ELSE 0)
  <2> DEFINE P == IF usage.minute = minuteNow THEN usage.perMcp ELSE [m \in Mcps |-> 0]
             A == IF usage.minute = minuteNow THEN usage.inMinute ELSE 0
             B == IF usage.day = DayOf(minuteNow) THEN usage.inDay ELSE 0
             C == IF usage.day = DayOf(minuteNow) THEN usage.tokens ELSE 0
  <2>1. P \in [Mcps -> Nat] /\ A \in Nat /\ B \in Nat /\ C \in Nat
    BY <1>1 DEF UsageType
  <2>2. r = [minute |-> minuteNow, perMcp |-> P, inMinute |-> A, day |-> DayOf(minuteNow), inDay |-> B, tokens |-> C]
    BY DEF Rolled
  <2>3. /\ r \in UsageType /\ r.minute = minuteNow /\ r.day = DayOf(minuteNow)
        /\ r.inMinute = A /\ r.perMcp = P /\ r.inDay = B /\ r.tokens = C
    <3> HIDE DEF r, P, A, B, C
    <3> QED
      BY <1>1, <2>1, <2>2 DEF UsageType
  <2> HIDE DEF r
  <2> QED
    BY <2>3
<1>3. u = [r EXCEPT !.perMcp = p, !.inMinute = @ + 1, !.inDay = @ + 1, !.tokens = @ + tokens]
  BY DEF Counted
<1> HIDE DEF r
<1>4. p \in [Mcps -> Nat] /\ \A m \in Mcps : p[m] = r.perMcp[m] + (IF m = mcp THEN 1 ELSE 0)
  <2>1. r.perMcp \in [Mcps -> Nat]
    BY <1>2 DEF UsageType
  <2> QED
    BY <2>1
<1> HIDE DEF p
<1>5. /\ u \in UsageType /\ u.minute = r.minute /\ u.day = r.day /\ u.perMcp = p
      /\ u.inMinute = r.inMinute + 1 /\ u.inDay = r.inDay + 1 /\ u.tokens = r.tokens + tokens
  <2> DEFINE a == [r EXCEPT !.perMcp = p]
             b == [a EXCEPT !.inMinute = @ + 1]
             c == [b EXCEPT !.inDay = @ + 1]
  <2>1. r \in UsageType /\ r.inMinute \in Nat /\ r.inDay \in Nat /\ r.tokens \in Nat
    BY <1>2 DEF UsageType
  <2>2. u = [c EXCEPT !.tokens = @ + tokens]
    BY <1>3, <2>1 DEF UsageType
  <2>3. /\ a \in UsageType /\ a.minute = r.minute /\ a.day = r.day /\ a.perMcp = p
        /\ a.inMinute = r.inMinute /\ a.inDay = r.inDay /\ a.tokens = r.tokens
    BY <1>4, <2>1 DEF UsageType
  <2> HIDE DEF a
  <2>4. /\ b \in UsageType /\ b.minute = r.minute /\ b.day = r.day /\ b.perMcp = p
        /\ b.inMinute = r.inMinute + 1 /\ b.inDay = r.inDay /\ b.tokens = r.tokens
    BY <2>1, <2>3 DEF UsageType
  <2> HIDE DEF b
  <2>5. /\ c \in UsageType /\ c.minute = r.minute /\ c.day = r.day /\ c.perMcp = p
        /\ c.inMinute = r.inMinute + 1 /\ c.inDay = r.inDay + 1 /\ c.tokens = r.tokens
    BY <2>1, <2>4 DEF UsageType
  <2> HIDE DEF c
  <2> QED
    BY <2>1, <2>2, <2>5 DEF UsageType
<1>6. \A m \in Mcps : r.perMcp[m] = (IF minuteNow = usage.minute THEN usage.perMcp[m] ELSE 0)
  BY <1>2
<1> QED
  BY <1>2, <1>4, <1>5, <1>6

LEMMA UseKept ==
  ASSUME QuotaShape, WindowsInv, NEW mcp \in Mcps, NEW tokens \in Nat, NEW u, u = Counted(usage, mcp, tokens),
         WithinUsage(u), NEW e, e = Event("use", mcp, tokens, "none")
  PROVE  UsageKept(Append(history, e), u)
<1>1. /\ u.minute = minuteNow /\ u.day = DayOf(minuteNow)
      /\ u.inMinute = (IF minuteNow = usage.minute THEN usage.inMinute ELSE 0) + 1
      /\ \A m \in Mcps : u.perMcp[m] = (IF minuteNow = usage.minute THEN usage.perMcp[m] ELSE 0)
                                       + (IF m = mcp THEN 1 ELSE 0)
      /\ u.inDay = (IF DayOf(minuteNow) = usage.day THEN usage.inDay ELSE 0) + 1
      /\ u.tokens = (IF DayOf(minuteNow) = usage.day THEN usage.tokens ELSE 0) + tokens
  BY CountedIs
<1>2. e \in EventType /\ e.kind = "use" /\ e.mcp = mcp /\ e.tokens = tokens /\ e.minute = minuteNow
  <2>1. "use" \in EventKinds /\ mcp \in Everyone /\ "none" \in Attempts \union {"none"}
    BY DEF EventKinds, Everyone
  <2> QED
    BY <2>1, EventsTyped
<1>3. /\ usage.minute \in Nat /\ usage.inMinute \in Nat /\ usage.day \in Nat /\ usage.inDay \in Nat
      /\ usage.tokens \in Nat /\ (\A m \in Mcps : usage.perMcp[m] \in Nat) /\ history \in Seq(EventType)
  BY QuotaNumbers DEF QuotaShape, UsageType
<1>4. /\ minuteNow \in Nat /\ DayOf(minuteNow) \in Nat /\ minuteNow \div 1 = minuteNow
      /\ usage.minute <= minuteNow /\ usage.day <= DayOf(minuteNow)
  BY MinutesNow DEF WindowsInv, WindowsBegun
<1>5. UsageKept(history, usage)
  BY DEF WindowsInv
<1>6. e.mcp \in Everyone /\ e.minute \div 1 = minuteNow /\ e.minute \div MinutesPerDay = DayOf(minuteNow)
      /\ Gain(e, "times") = 1 /\ Gain(e, "tokens") = tokens
  BY <1>2, <1>4 DEF Everyone, Gain, DayOf
<1>7. WindowKept(Append(history, e), "times", "use", Everyone, 1, u.minute, u.inMinute, GlobalPerMinute)
  <2>1. u.inMinute <= GlobalPerMinute /\ GlobalPerMinute \in Nat
    BY QuotaNumbers DEF WithinUsage
  <2>2. WindowKept(history, "times", "use", Everyone, 1, usage.minute, usage.inMinute, GlobalPerMinute)
    BY <1>5 DEF UsageKept
  <2>3. u.inMinute = (IF minuteNow = usage.minute THEN usage.inMinute ELSE 0)
                     + (IF e.kind = "use" /\ e.mcp \in Everyone THEN Gain(e, "times") ELSE 0)
    BY <1>1, <1>2, <1>6
  <2> QED
    BY <1>1, <1>2, <1>3, <1>4, <1>6, <2>1, <2>2, <2>3, WindowMoves
<1>8. ASSUME NEW m \in Mcps
      PROVE  WindowKept(Append(history, e), "times", "use", {m}, 1, u.minute, u.perMcp[m], McpPerMinute)
  <2>1. u.perMcp[m] <= McpPerMinute /\ McpPerMinute \in Nat
    BY QuotaNumbers DEF WithinUsage
  <2>2. WindowKept(history, "times", "use", {m}, 1, usage.minute, usage.perMcp[m], McpPerMinute)
    BY <1>5 DEF UsageKept
  <2>3. u.perMcp[m] = (IF minuteNow = usage.minute THEN usage.perMcp[m] ELSE 0)
                      + (IF e.kind = "use" /\ e.mcp \in {m} THEN Gain(e, "times") ELSE 0)
    BY <1>1, <1>2, <1>6
  <2> QED
    BY <1>1, <1>2, <1>3, <1>4, <1>6, <2>1, <2>2, <2>3, WindowMoves
<1>9. WindowKept(Append(history, e), "times", "use", Everyone, MinutesPerDay, u.day, u.inDay, RequestsPerDay)
  <2>1. u.inDay <= RequestsPerDay /\ RequestsPerDay \in Nat
    BY QuotaNumbers DEF WithinUsage
  <2>2. WindowKept(history, "times", "use", Everyone, MinutesPerDay, usage.day, usage.inDay, RequestsPerDay)
    BY <1>5 DEF UsageKept
  <2>3. u.inDay = (IF DayOf(minuteNow) = usage.day THEN usage.inDay ELSE 0)
                  + (IF e.kind = "use" /\ e.mcp \in Everyone THEN Gain(e, "times") ELSE 0)
    BY <1>1, <1>2, <1>6
  <2> QED
    BY <1>1, <1>2, <1>3, <1>4, <1>6, <2>1, <2>2, <2>3, WindowMoves
<1>10. WindowKept(Append(history, e), "tokens", "use", Everyone, MinutesPerDay, u.day, u.tokens, TokensPerDay)
  <2>1. u.tokens <= TokensPerDay /\ TokensPerDay \in Nat
    BY QuotaNumbers DEF WithinUsage
  <2>2. WindowKept(history, "tokens", "use", Everyone, MinutesPerDay, usage.day, usage.tokens, TokensPerDay)
    BY <1>5 DEF UsageKept
  <2>3. u.tokens = (IF DayOf(minuteNow) = usage.day THEN usage.tokens ELSE 0)
                   + (IF e.kind = "use" /\ e.mcp \in Everyone THEN Gain(e, "tokens") ELSE 0)
    BY <1>1, <1>2, <1>6
  <2> QED
    BY <1>1, <1>2, <1>3, <1>4, <1>6, <2>1, <2>2, <2>3, WindowMoves
<1> QED
  BY <1>7, <1>8, <1>9, <1>10 DEF UsageKept

\* What a publication counts.
PublishedAs(m, attempt, tokens) ==
  /\ m \in MutationType /\ m.hour = HourOf(minuteNow) /\ m.day = DayOf(minuteNow)
  /\ m.minute = mutation.minute /\ m.toggles = mutation.toggles
  /\ m.inHour = (IF HourOf(minuteNow) = mutation.hour THEN mutation.inHour ELSE 0) + 1
  /\ m.inDay = (IF DayOf(minuteNow) = mutation.day THEN mutation.inDay ELSE 0) + 1
  /\ m.writeTokens = (IF DayOf(minuteNow) = mutation.day THEN mutation.writeTokens ELSE 0) + tokens
  /\ m.accounted = [Pruned(mutation.accounted) EXCEPT ![attempt] = minuteNow + 1]

LEMMA PublishedIs ==
  ASSUME QuotaShape, NEW attempt \in Attempts, NEW tokens \in Nat, NEW m, m = Published(mutation, attempt, tokens)
  PROVE  PublishedAs(m, attempt, tokens)
<1> DEFINE x == mutation
           A == IF x.hour = HourOf(minuteNow) THEN x.inHour + 1 ELSE 1
           B == IF x.day = DayOf(minuteNow) THEN x.inDay + 1 ELSE 1
           C == IF x.day = DayOf(minuteNow) THEN x.writeTokens + tokens ELSE tokens
           D == [Pruned(x.accounted) EXCEPT ![attempt] = minuteNow + 1]
<1>1. /\ x \in MutationType /\ minuteNow \in Nat /\ minuteNow \in 0..MaxQuotaMinutes
      /\ DayOf(minuteNow) \in Nat /\ HourOf(minuteNow) \in Nat
  BY MinutesNow DEF QuotaShape
<1>2. /\ A \in Nat /\ A = (IF HourOf(minuteNow) = x.hour THEN x.inHour ELSE 0) + 1
      /\ B \in Nat /\ B = (IF DayOf(minuteNow) = x.day THEN x.inDay ELSE 0) + 1
      /\ C \in Nat /\ C = (IF DayOf(minuteNow) = x.day THEN x.writeTokens ELSE 0) + tokens
  <2>1. x.inHour \in Nat /\ x.inDay \in Nat /\ x.writeTokens \in Nat
    BY <1>1 DEF MutationType
  <2> QED
    BY <2>1
<1>3. D \in [Attempts -> 0..(MaxQuotaMinutes + 1)]
  <2>1. x.accounted \in [Attempts -> 0..(MaxQuotaMinutes + 1)]
    BY <1>1 DEF MutationType
  <2>2. minuteNow + 1 \in 0..(MaxQuotaMinutes + 1) /\ 0 \in 0..(MaxQuotaMinutes + 1)
    BY <1>1, QuotaNumbers
  <2>3. Pruned(x.accounted) \in [Attempts -> 0..(MaxQuotaMinutes + 1)]
    BY <2>1, <2>2 DEF Pruned
  <2> QED
    BY <2>2, <2>3
<1> DEFINE a == [x EXCEPT !.hour = HourOf(minuteNow)]
           b == [a EXCEPT !.inHour = A]
           c == [b EXCEPT !.day = DayOf(minuteNow)]
           d == [c EXCEPT !.inDay = B]
           f == [d EXCEPT !.writeTokens = C]
<1>4. m = [f EXCEPT !.accounted = D]
  BY <1>1 DEF Published, MutationType
<1> HIDE DEF A, B, C, D, x
<1>5. /\ a \in MutationType /\ a.hour = HourOf(minuteNow) /\ a.minute = x.minute /\ a.toggles = x.toggles
  BY <1>1 DEF MutationType
<1> HIDE DEF a
<1>6. /\ b \in MutationType /\ b.hour = HourOf(minuteNow) /\ b.minute = x.minute /\ b.toggles = x.toggles
      /\ b.inHour = A
  BY <1>2, <1>5 DEF MutationType
<1> HIDE DEF b
<1>7. /\ c \in MutationType /\ c.hour = HourOf(minuteNow) /\ c.minute = x.minute /\ c.toggles = x.toggles
      /\ c.inHour = A /\ c.day = DayOf(minuteNow)
  BY <1>1, <1>6 DEF MutationType
<1> HIDE DEF c
<1>8. /\ d \in MutationType /\ d.hour = HourOf(minuteNow) /\ d.minute = x.minute /\ d.toggles = x.toggles
      /\ d.inHour = A /\ d.day = DayOf(minuteNow) /\ d.inDay = B
  BY <1>2, <1>7 DEF MutationType
<1> HIDE DEF d
<1>9. /\ f \in MutationType /\ f.hour = HourOf(minuteNow) /\ f.minute = x.minute /\ f.toggles = x.toggles
      /\ f.inHour = A /\ f.day = DayOf(minuteNow) /\ f.inDay = B /\ f.writeTokens = C
  BY <1>2, <1>8 DEF MutationType
<1> HIDE DEF f
<1>10. /\ m \in MutationType /\ m.hour = HourOf(minuteNow) /\ m.minute = x.minute /\ m.toggles = x.toggles
       /\ m.inHour = A /\ m.day = DayOf(minuteNow) /\ m.inDay = B /\ m.writeTokens = C /\ m.accounted = D
  BY <1>3, <1>4, <1>9 DEF MutationType
<1> QED
  BY <1>2, <1>10 DEF x, D, PublishedAs

LEMMA PublishKept ==
  ASSUME QuotaShape, WindowsInv, NEW attempt \in Attempts, NEW tokens \in Nat,
         NEW m, m = Published(mutation, attempt, tokens), WithinPublishes(m),
         NEW e, e = Event("publish", "none", tokens, attempt)
  PROVE  PublishesKept(Append(history, e), m)
<1>1. /\ m.hour = HourOf(minuteNow) /\ m.day = DayOf(minuteNow)
      /\ m.inHour = (IF HourOf(minuteNow) = mutation.hour THEN mutation.inHour ELSE 0) + 1
      /\ m.inDay = (IF DayOf(minuteNow) = mutation.day THEN mutation.inDay ELSE 0) + 1
      /\ m.writeTokens = (IF DayOf(minuteNow) = mutation.day THEN mutation.writeTokens ELSE 0) + tokens
  <2>1. PublishedAs(m, attempt, tokens)
    BY PublishedIs
  <2> QED
    BY <2>1 DEF PublishedAs
<1>2. e \in EventType /\ e.kind = "publish" /\ e.mcp = "none" /\ e.tokens = tokens /\ e.minute = minuteNow
  <2>1. "publish" \in EventKinds /\ "none" \in Everyone /\ attempt \in Attempts \union {"none"}
    BY DEF EventKinds, Everyone
  <2> QED
    BY <2>1, EventsTyped
<1>3. /\ mutation.hour \in Nat /\ mutation.inHour \in Nat /\ mutation.day \in Nat /\ mutation.inDay \in Nat
      /\ mutation.writeTokens \in Nat /\ history \in Seq(EventType)
  BY DEF QuotaShape, MutationType
<1>4. /\ HourOf(minuteNow) \in Nat /\ DayOf(minuteNow) \in Nat
      /\ mutation.hour <= HourOf(minuteNow) /\ mutation.day <= DayOf(minuteNow)
  BY MinutesNow DEF WindowsInv, WindowsBegun
<1>5. PublishesKept(history, mutation)
  BY DEF WindowsInv
<1>6. e.mcp \in Everyone /\ e.minute \div MinutesPerHour = HourOf(minuteNow)
      /\ e.minute \div MinutesPerDay = DayOf(minuteNow)
      /\ Gain(e, "times") = 1 /\ Gain(e, "tokens") = tokens
  BY <1>2 DEF Everyone, Gain, DayOf, HourOf
<1>7. WindowKept(Append(history, e), "times", "publish", Everyone, MinutesPerHour, m.hour, m.inHour, PublishesPerHour)
  <2>1. m.inHour <= PublishesPerHour /\ PublishesPerHour \in Nat
    BY QuotaNumbers DEF WithinPublishes
  <2>2. WindowKept(history, "times", "publish", Everyone, MinutesPerHour, mutation.hour, mutation.inHour, PublishesPerHour)
    BY <1>5 DEF PublishesKept
  <2>3. m.inHour = (IF HourOf(minuteNow) = mutation.hour THEN mutation.inHour ELSE 0)
                   + (IF e.kind = "publish" /\ e.mcp \in Everyone THEN Gain(e, "times") ELSE 0)
    BY <1>1, <1>2, <1>6
  <2> QED
    BY SMTT(30), <1>1, <1>2, <1>3, <1>4, <1>6, <2>1, <2>2, <2>3, WindowMoves
<1>8. WindowKept(Append(history, e), "times", "publish", Everyone, MinutesPerDay, m.day, m.inDay, PublishesPerDay)
  <2>1. m.inDay <= PublishesPerDay /\ PublishesPerDay \in Nat
    BY QuotaNumbers DEF WithinPublishes
  <2>2. WindowKept(history, "times", "publish", Everyone, MinutesPerDay, mutation.day, mutation.inDay, PublishesPerDay)
    BY <1>5 DEF PublishesKept
  <2>3. m.inDay = (IF DayOf(minuteNow) = mutation.day THEN mutation.inDay ELSE 0)
                  + (IF e.kind = "publish" /\ e.mcp \in Everyone THEN Gain(e, "times") ELSE 0)
    BY <1>1, <1>2, <1>6
  <2> QED
    BY SMTT(30), <1>1, <1>2, <1>3, <1>4, <1>6, <2>1, <2>2, <2>3, WindowMoves
<1>9. WindowKept(Append(history, e), "tokens", "publish", Everyone, MinutesPerDay, m.day, m.writeTokens, WriteTokensPerDay)
  <2>1. m.writeTokens <= WriteTokensPerDay /\ WriteTokensPerDay \in Nat
    BY QuotaNumbers DEF WithinPublishes
  <2>2. WindowKept(history, "tokens", "publish", Everyone, MinutesPerDay, mutation.day, mutation.writeTokens, WriteTokensPerDay)
    BY <1>5 DEF PublishesKept
  <2>3. m.writeTokens = (IF DayOf(minuteNow) = mutation.day THEN mutation.writeTokens ELSE 0)
                        + (IF e.kind = "publish" /\ e.mcp \in Everyone THEN Gain(e, "tokens") ELSE 0)
    BY <1>1, <1>2, <1>6
  <2> QED
    BY SMTT(30), <1>1, <1>2, <1>3, <1>4, <1>6, <2>1, <2>2, <2>3, WindowMoves
<1> QED
  BY <1>7, <1>8, <1>9 DEF PublishesKept

\* What a toggle counts.
LEMMA ToggledIs ==
  ASSUME QuotaShape, NEW m, m = Toggled(mutation)
  PROVE  /\ m \in MutationType /\ m.minute = minuteNow
         /\ m.toggles = (IF minuteNow = mutation.minute THEN mutation.toggles ELSE 0) + 1
         /\ m.hour = mutation.hour /\ m.inHour = mutation.inHour /\ m.day = mutation.day /\ m.inDay = mutation.inDay
         /\ m.writeTokens = mutation.writeTokens /\ m.accounted = mutation.accounted
<1> DEFINE x == mutation
           A == IF x.minute = minuteNow THEN x.toggles + 1 ELSE 1
           a == [x EXCEPT !.minute = minuteNow]
<1>1. x \in MutationType /\ minuteNow \in 0..MaxQuotaMinutes
  BY DEF QuotaShape
<1>2. A \in Nat /\ A = (IF minuteNow = x.minute THEN x.toggles ELSE 0) + 1
  <2>1. x.toggles \in Nat
    BY <1>1 DEF MutationType
  <2> QED
    BY <2>1
<1>3. m = [a EXCEPT !.toggles = A]
  BY <1>1 DEF Toggled, MutationType
<1> HIDE DEF A, x
<1>4. /\ a \in MutationType /\ a.minute = minuteNow /\ a.hour = x.hour /\ a.inHour = x.inHour /\ a.day = x.day
      /\ a.inDay = x.inDay /\ a.writeTokens = x.writeTokens /\ a.accounted = x.accounted
  BY <1>1 DEF MutationType
<1> HIDE DEF a
<1>5. /\ m \in MutationType /\ m.minute = minuteNow /\ m.hour = x.hour /\ m.inHour = x.inHour /\ m.day = x.day
      /\ m.inDay = x.inDay /\ m.writeTokens = x.writeTokens /\ m.accounted = x.accounted /\ m.toggles = A
  BY <1>2, <1>3, <1>4 DEF MutationType
<1> QED
  BY <1>2, <1>5 DEF x

LEMMA ToggleKept ==
  ASSUME QuotaShape, WindowsInv, NEW m, m = Toggled(mutation), m.toggles <= TogglesPerMinute,
         NEW e, e = Event("toggle", "none", 0, "none")
  PROVE  TogglesKept(Append(history, e), m)
<1>1. m.minute = minuteNow /\ m.toggles = (IF minuteNow = mutation.minute THEN mutation.toggles ELSE 0) + 1
  BY ToggledIs
<1>2. e \in EventType /\ e.kind = "toggle" /\ e.mcp = "none" /\ e.minute = minuteNow
  <2>1. "toggle" \in EventKinds /\ "none" \in Everyone /\ "none" \in Attempts \union {"none"} /\ 0 \in Nat
    BY DEF EventKinds, Everyone
  <2> QED
    BY <2>1, EventsTyped
<1>3. mutation.minute \in Nat /\ mutation.toggles \in Nat /\ history \in Seq(EventType) /\ TogglesPerMinute \in Nat
  BY QuotaNumbers DEF QuotaShape, MutationType
<1>4. minuteNow \in Nat /\ mutation.minute <= minuteNow /\ minuteNow \div 1 = minuteNow
  BY MinutesNow DEF WindowsInv, WindowsBegun
<1>5. e.mcp \in Everyone /\ e.minute \div 1 = minuteNow /\ Gain(e, "times") = 1
  BY <1>2, <1>4 DEF Everyone, Gain
<1>6. WindowKept(history, "times", "toggle", Everyone, 1, mutation.minute, mutation.toggles, TogglesPerMinute)
  BY DEF WindowsInv, TogglesKept
<1>7. m.toggles = (IF minuteNow = mutation.minute THEN mutation.toggles ELSE 0)
                  + (IF e.kind = "toggle" /\ e.mcp \in Everyone THEN Gain(e, "times") ELSE 0)
  BY <1>1, <1>2, <1>5
<1> QED
  BY <1>1, <1>2, <1>3, <1>4, <1>5, <1>6, <1>7, WindowMoves DEF TogglesKept

-----------------------------------------------------------------------------
(* Attempts and refusals.                                                   *)

\* What a publication counted is known by its attempt, or its time is up.
AttemptsInv ==
  \A i \in DOMAIN history : history[i].kind = "publish" =>
    /\ history[i].attempt \in Attempts
    /\ \/ mutation.accounted[history[i].attempt] >= history[i].minute + 1
       \/ history[i].minute + AttemptTtl < minuteNow

LetGo(h, i) ==
  \E k \in i..Len(h) : h[k].kind = "restart" \/ (h[k].kind = "timeout" /\ h[i].kind = "excess")
Stopped(kind, entry, trip) == (kind = "excess" /\ entry.state = "OPEN" /\ ~entry.elapsed) \/ (kind = "trip" /\ trip)

\* A request too many, or a trip, stops the requests until it is let go.
StoppedInv ==
  \A i \in DOMAIN history :
    history[i].kind \in {"excess", "trip"} => LetGo(history, i) \/ Stopped(history[i].kind, breaker, tripped)

LEMMA QuotaBreakerTypes ==
  ASSUME NEW e \in QuotaBreaker!Entry
  PROVE  /\ QuotaBreaker!CheckBeforeRequest(e) \in QuotaBreaker!Entry /\ QuotaBreaker!RecordSuccess(e) \in QuotaBreaker!Entry
         /\ Violated(e) \in QuotaBreaker!Entry /\ Violated(e).state = "OPEN"
         /\ (e.state = "OPEN" => Violated(e) = e) /\ (e.state # "OPEN" => ~Violated(e).elapsed)
         /\ [e EXCEPT !.elapsed = TRUE] \in QuotaBreaker!Entry
<1> USE DEF QuotaBreaker!Entry, QuotaBreaker!Counts
<1>1. 0 \in 0..1 /\ 1 \in 0..1 /\ e.failureCount + 1 >= 1
  OBVIOUS
<1>2. QuotaBreaker!NewEntry \in QuotaBreaker!Entry
  BY <1>1 DEF QuotaBreaker!NewEntry
<1>3. QuotaBreaker!MoveOpenToHalfOpenIfReady(e) \in QuotaBreaker!Entry
  BY <1>1 DEF QuotaBreaker!MoveOpenToHalfOpenIfReady
<1>4. QuotaBreaker!CheckBeforeRequest(e) \in QuotaBreaker!Entry
  <2> DEFINE m == QuotaBreaker!MoveOpenToHalfOpenIfReady(e)
             lease == m.halfOpenInFlight \/ QuotaBreaker!TakesLease(e)
  <2>1. lease \in BOOLEAN
    BY Zenon
  <2>2. QuotaBreaker!CheckBeforeRequest(e) = [m EXCEPT !.halfOpenInFlight = lease]
    BY <1>3 DEF QuotaBreaker!CheckBeforeRequest
  <2>3. m \in QuotaBreaker!Entry
    BY <1>3
  <2> HIDE DEF m, lease
  <2> QED
    BY <2>1, <2>2, <2>3
<1>5. QuotaBreaker!RecordSuccess(e) \in QuotaBreaker!Entry
  <2>1. [e EXCEPT !.failureCount = 0, !.successCount = 0] \in QuotaBreaker!Entry
    BY <1>1
  <2>2. e.successCount + 1 \in Nat /\ e.successCount + 1 >= 1
    OBVIOUS
  <2>3. QuotaBreaker!RecordSuccess(e)
          \in {QuotaBreaker!NewEntry, e, [e EXCEPT !.failureCount = 0, !.successCount = 0]}
    BY <2>2 DEF QuotaBreaker!RecordSuccess
  <2> QED
    BY <1>2, <2>1, <2>3
<1> DEFINE o == QuotaBreaker!Opened(e)
<1>6. o \in QuotaBreaker!Entry /\ o.state = "OPEN" /\ ~o.elapsed
  BY <1>1 DEF QuotaBreaker!Opened
<1>7. Violated(e) \in {e, o, [o EXCEPT !.halfOpenInFlight = FALSE]}
      /\ (e.state = "OPEN" => Violated(e) = e) /\ (e.state # "OPEN" => Violated(e) # e \/ Violated(e) = o
           \/ Violated(e) = [o EXCEPT !.halfOpenInFlight = FALSE])
  BY <1>1 DEF Violated, QuotaBreaker!RecordFailure
<1>8. e.state # "OPEN" => Violated(e) \in {o, [o EXCEPT !.halfOpenInFlight = FALSE]}
  BY <1>1 DEF Violated, QuotaBreaker!RecordFailure
<1> HIDE DEF o
<1>9. [o EXCEPT !.halfOpenInFlight = FALSE] \in QuotaBreaker!Entry
      /\ [o EXCEPT !.halfOpenInFlight = FALSE].state = "OPEN" /\ ~[o EXCEPT !.halfOpenInFlight = FALSE].elapsed
  BY <1>6
<1>10. [e EXCEPT !.elapsed = TRUE] \in QuotaBreaker!Entry
  OBVIOUS
<1> QED
  BY <1>4, <1>5, <1>6, <1>7, <1>8, <1>9, <1>10

LEMMA NewQuotaEntry == QuotaBreaker!NewEntry \in QuotaBreaker!Entry
BY DEF QuotaBreaker!NewEntry, QuotaBreaker!Entry, QuotaBreaker!Counts

\* A request that the breaker lets pass finds it neither open nor waiting.
LEMMA PassesBreaker ==
  ASSUME NEW e \in QuotaBreaker!Entry, QuotaBreaker!Allowed(e)
  PROVE  ~(e.state = "OPEN" /\ ~e.elapsed)
BY DEF QuotaBreaker!Entry, QuotaBreaker!Allowed, QuotaBreaker!MoveOpenToHalfOpenIfReady

LEMMA LetGoStays ==
  ASSUME QuotaShape, HasRoom, NEW e \in EventType, NEW i \in DOMAIN history, LetGo(history, i)
  PROVE  LetGo(Append(history, e), i)
<1> DEFINE m == Len(history)
           h == Append(history, e)
<1>1. /\ m \in Nat /\ DOMAIN history = 1..m /\ \A j \in 1..m : h[j] = history[j]
  BY HistoryGrows
<1>2. Len(h) = m + 1
  BY AppendProperties DEF QuotaShape
<1>3. PICK k \in i..m : history[k].kind = "restart" \/ (history[k].kind = "timeout" /\ history[i].kind = "excess")
  BY DEF LetGo
<1>4. i \in 1..m /\ k \in 1..m /\ k \in i..(m + 1)
  BY <1>1, <1>3
<1> QED
  BY <1>1, <1>2, <1>3, <1>4 DEF LetGo

\* The event that lets go.
LEMMA LetsGo ==
  ASSUME QuotaShape, HasRoom, NEW e \in EventType, NEW i \in DOMAIN history,
         e.kind = "restart" \/ (e.kind = "timeout" /\ history[i].kind = "excess")
  PROVE  LetGo(Append(history, e), i)
<1> DEFINE m == Len(history)
           h == Append(history, e)
<1>1. /\ m \in Nat /\ DOMAIN history = 1..m /\ (\A j \in 1..m : h[j] = history[j]) /\ h[m + 1] = e
  BY HistoryGrows
<1>2. Len(h) = m + 1
  BY AppendProperties DEF QuotaShape
<1>3. i \in 1..m /\ m + 1 \in i..(m + 1)
  BY <1>1
<1> QED
  BY <1>1, <1>2, <1>3 DEF LetGo

\* An event that is counted, counted in turn.
LEMMA TurnKept ==
  ASSUME QuotaShape, AttemptsInv, StoppedInv, CountedInTurn, HasRoom,
         NEW e \in EventType, history' = Append(history, e), e.minute = minuteNow,
         e.kind = "publish" => e.attempt \in Attempts /\ Pruned(mutation.accounted)[e.attempt] = 0,
         e.kind = "use" => ~tripped /\ QuotaBreaker!Allowed(breaker)
  PROVE  CountedInTurn'
<1> DEFINE m == Len(history)
           h == Append(history, e)
<1>1. /\ m \in Nat /\ DOMAIN history = 1..m /\ DOMAIN h = 1..(m + 1) /\ h[m + 1] = e
      /\ \A i \in 1..m : h[i] = history[i]
  BY HistoryGrows
<1> HIDE DEF m, h
<1>2. ASSUME NEW i \in 1..m, h[i].kind = "publish", e.kind = "publish", h[i].attempt = e.attempt
      PROVE  e.minute > h[i].minute + AttemptTtl
  <2>1. \/ mutation.accounted[e.attempt] >= h[i].minute + 1
        \/ h[i].minute + AttemptTtl < minuteNow
    BY <1>1, <1>2 DEF AttemptsInv
  <2>2. Pruned(mutation.accounted)[e.attempt] = 0 /\ e.attempt \in Attempts
    BY <1>2
  <2>3. mutation.accounted[e.attempt] = 0 \/ mutation.accounted[e.attempt] + AttemptTtl < minuteNow + 1
    BY <2>2 DEF Pruned
  <2>4. /\ mutation.accounted[e.attempt] \in Nat /\ h[i].minute \in Nat /\ minuteNow \in Nat /\ AttemptTtl \in Nat
    <3>1. mutation.accounted \in [Attempts -> 0..(MaxQuotaMinutes + 1)]
      BY DEF QuotaShape, MutationType
    <3>2. history[i] \in EventType
      <4>1. history \in Seq(EventType) /\ i \in 1..Len(history)
        BY <1>1 DEF QuotaShape, m
      <4> QED
        BY <4>1
    <3>3. h[i].minute \in 0..MaxQuotaMinutes
      BY <1>1, <3>2 DEF EventType
    <3> QED
      BY <2>2, <3>1, <3>3, QuotaNumbers, MinutesNow
  <2>5. ASSUME NEW x \in Nat, NEW y \in Nat, NEW z \in Nat, NEW ttl \in Nat,
               x >= y + 1 \/ y + ttl < z, x = 0 \/ x + ttl < z + 1
        PROVE  z > y + ttl
    BY <2>5
  <2>6. minuteNow > h[i].minute + AttemptTtl
    BY <2>1, <2>3, <2>4, <2>5
  <2> QED
    BY <2>6
<1>3. ASSUME NEW i \in 1..m, h[i].kind \in {"excess", "trip"}, e.kind = "use"
      PROVE  \E k \in i..(m + 1) : \/ h[k].kind = "restart"
                                   \/ h[k].kind = "timeout" /\ h[i].kind = "excess"
  <2>1. LetGo(history, i) \/ Stopped(history[i].kind, breaker, tripped)
    BY <1>1, <1>3 DEF StoppedInv
  <2>2. ~Stopped(history[i].kind, breaker, tripped)
    <3>1. breaker \in QuotaBreaker!Entry /\ QuotaBreaker!Allowed(breaker) /\ ~tripped
      BY <1>3 DEF QuotaShape
    <3> QED
      BY <3>1, PassesBreaker DEF Stopped
  <2>3. PICK k \in i..m : history[k].kind = "restart" \/ (history[k].kind = "timeout" /\ history[i].kind = "excess")
    BY <2>1, <2>2 DEF LetGo, m
  <2>4. k \in 1..m /\ k \in i..(m + 1)
    BY <1>1, <2>3
  <2> QED
    BY <1>1, <2>3, <2>4
<1>4. \A i, j \in 1..(m + 1) : i < j => i \in 1..m /\ (j \in 1..m \/ j = m + 1)
  BY <1>1
<1> SUFFICES ASSUME NEW i \in 1..(m + 1), NEW j \in 1..(m + 1), i < j
             PROVE  /\ h[i].kind = "publish" /\ h[j].kind = "publish" /\ h[i].attempt = h[j].attempt
                         => h[j].minute > h[i].minute + AttemptTtl
                    /\ h[i].kind \in {"excess", "trip"} /\ h[j].kind = "use"
                         => \E k \in i..j : \/ h[k].kind = "restart"
                                            \/ h[k].kind = "timeout" /\ h[i].kind = "excess"
  BY <1>1 DEF CountedInTurn, h
<1>5. CASE j = m + 1
  BY <1>1, <1>2, <1>3, <1>4, <1>5
<1>6. CASE j \in 1..m
  <2>1. i \in 1..m
    BY <1>4
  <2>2. /\ history[i].kind = "publish" /\ history[j].kind = "publish" /\ history[i].attempt = history[j].attempt
             => history[j].minute > history[i].minute + AttemptTtl
        /\ history[i].kind \in {"excess", "trip"} /\ history[j].kind = "use"
             => \E k \in i..j : \/ history[k].kind = "restart"
                                \/ history[k].kind = "timeout" /\ history[i].kind = "excess"
    BY <1>1, <1>6, <2>1 DEF CountedInTurn
  <2>3. \A k \in i..j : h[k] = history[k]
    BY <1>1, <1>6, <2>1
  <2> QED
    BY <1>1, <1>6, <2>1, <2>2, <2>3
<1> QED
  BY <1>4, <1>5, <1>6

LEMMA StoppedKept ==
  ASSUME QuotaShape, StoppedInv, HasRoom, NEW e \in EventType, history' = Append(history, e),
         \A i \in DOMAIN history :
           Stopped(history[i].kind, breaker, tripped)
             => \/ e.kind = "restart" \/ (e.kind = "timeout" /\ history[i].kind = "excess")
                \/ Stopped(history[i].kind, breaker', tripped'),
         e.kind \in {"excess", "trip"} => Stopped(e.kind, breaker', tripped')
  PROVE  StoppedInv'
<1> DEFINE m == Len(history)
           h == Append(history, e)
<1>1. /\ m \in Nat /\ DOMAIN history = 1..m /\ DOMAIN h = 1..(m + 1) /\ h[m + 1] = e
      /\ \A i \in 1..m : h[i] = history[i]
  BY HistoryGrows
<1>2. ASSUME NEW i \in 1..m, h[i].kind \in {"excess", "trip"}
      PROVE  LetGo(h, i) \/ Stopped(h[i].kind, breaker', tripped')
  <2>1. i \in DOMAIN history /\ h[i] = history[i]
    BY <1>1
  <2>2. LetGo(history, i) \/ Stopped(history[i].kind, breaker, tripped)
    BY <1>2, <2>1 DEF StoppedInv
  <2>3. LetGo(history, i) => LetGo(h, i)
    BY <2>1, LetGoStays
  <2>4. e.kind = "restart" \/ (e.kind = "timeout" /\ history[i].kind = "excess") => LetGo(h, i)
    BY <2>1, LetsGo
  <2> HIDE DEF h
  <2> QED
    BY <2>1, <2>2, <2>3, <2>4
<1> HIDE DEF m, h
<1> SUFFICES ASSUME NEW i \in 1..(m + 1), h[i].kind \in {"excess", "trip"}
             PROVE  LetGo(h, i) \/ Stopped(h[i].kind, breaker', tripped')
  BY <1>1 DEF StoppedInv, h
<1>3. i \in 1..m \/ i = m + 1
  BY <1>1
<1> QED
  BY <1>1, <1>2, <1>3

\* The attempts that are known, after an event.
LEMMA AttemptsKept ==
  ASSUME QuotaShape, AttemptsInv, HasRoom, NEW e \in EventType, history' = Append(history, e), minuteNow' = minuteNow,
         \A i \in DOMAIN history : history[i].minute <= minuteNow,
         \A a \in Attempts : \/ mutation'.accounted[a] = mutation.accounted[a]
                             \/ mutation'.accounted[a] = minuteNow + 1
                             \/ mutation.accounted[a] + AttemptTtl < minuteNow + 1,
         e.kind = "publish" => e.attempt \in Attempts /\ mutation'.accounted[e.attempt] >= e.minute + 1
  PROVE  AttemptsInv'
<1> DEFINE m == Len(history)
           h == Append(history, e)
<1>1. /\ m \in Nat /\ DOMAIN history = 1..m /\ DOMAIN h = 1..(m + 1) /\ h[m + 1] = e
      /\ (\A i \in 1..m : h[i] = history[i]) /\ h \in Seq(EventType)
  BY HistoryGrows
<1>2. ASSUME NEW i \in 1..m, h[i].kind = "publish"
      PROVE  /\ h[i].attempt \in Attempts
             /\ mutation'.accounted[h[i].attempt] >= h[i].minute + 1 \/ h[i].minute + AttemptTtl < minuteNow
  <2>1. /\ h[i].attempt \in Attempts
        /\ mutation.accounted[h[i].attempt] >= h[i].minute + 1 \/ h[i].minute + AttemptTtl < minuteNow
    <3> HIDE DEF h, m
    <3> QED
      BY <1>1, <1>2 DEF AttemptsInv
  <2>2. h[i] \in EventType
    <3>1. i \in DOMAIN h
      BY <1>1
    <3> HIDE DEF h, m
    <3> QED
      BY <1>1, <3>1
  <2> DEFINE a == h[i].attempt
             y == h[i].minute
             x == mutation.accounted[a]
             w == mutation'.accounted[a]
  <2>3. /\ y \in Nat /\ x \in Nat /\ minuteNow \in Nat /\ AttemptTtl \in Nat
        /\ y <= minuteNow
    <3>1. mutation.accounted \in [Attempts -> 0..(MaxQuotaMinutes + 1)]
      BY DEF QuotaShape, MutationType
    <3>2. y \in 0..MaxQuotaMinutes
      BY <2>2 DEF EventType
    <3>3. y <= minuteNow
      BY <1>1
    <3> HIDE DEF h
    <3> QED
      BY <2>1, <3>1, <3>2, <3>3, QuotaNumbers, MinutesNow
  <2>4. w = x \/ w = minuteNow + 1 \/ x + AttemptTtl < minuteNow + 1
    BY <2>1
  <2>5. x >= y + 1 \/ y + AttemptTtl < minuteNow
    BY <2>1
  <2>6. w >= y + 1 \/ y + AttemptTtl < minuteNow
    <3> HIDE DEF a, y, x, w
    <3> QED
      BY <2>3, <2>4, <2>5
  <2> QED
    BY <2>1, <2>6
<1> HIDE DEF m, h
<1> SUFFICES ASSUME NEW i \in 1..(m + 1), h[i].kind = "publish"
             PROVE  /\ h[i].attempt \in Attempts
                    /\ mutation'.accounted[h[i].attempt] >= h[i].minute + 1 \/ h[i].minute + AttemptTtl < minuteNow
  BY <1>1 DEF AttemptsInv, h
<1>3. i \in 1..m \/ i = m + 1
  BY <1>1
<1> QED
  BY <1>1, <1>2, <1>3

PastInv == \A i \in DOMAIN history : history[i].minute <= minuteNow

QuotaInv == QuotaShape /\ WindowsInv /\ PastInv /\ AttemptsInv /\ StoppedInv /\ CountedInTurn

LEMMA PastKept ==
  ASSUME QuotaShape, PastInv, HasRoom, NEW e \in EventType, history' = Append(history, e), minuteNow' = minuteNow,
         e.minute = minuteNow
  PROVE  PastInv'
<1>1. /\ Len(history) \in Nat /\ DOMAIN history = 1..Len(history)
      /\ DOMAIN Append(history, e) = 1..(Len(history) + 1)
      /\ Append(history, e)[Len(history) + 1] = e
      /\ \A i \in 1..Len(history) : Append(history, e)[i] = history[i]
  BY HistoryGrows
<1>2. \A i \in 1..(Len(history) + 1) : i \in 1..Len(history) \/ i = Len(history) + 1
  BY <1>1
<1>3. minuteNow <= minuteNow
  BY MinutesNow
<1> QED
  BY <1>1, <1>2, <1>3 DEF PastInv

\* What happens besides what is counted.
LEMMA QuotaHappens ==
  ASSUME QuotaInv, HasRoom, NEW kind \in EventKinds \ {"use", "publish", "toggle"}, Happens(kind),
         minuteNow' = minuteNow, usage' = usage, mutation' = mutation,
         breaker' \in QuotaBreaker!Entry, tripped' \in BOOLEAN,
         \A i \in DOMAIN history :
           Stopped(history[i].kind, breaker, tripped)
             => \/ kind = "restart" \/ (kind = "timeout" /\ history[i].kind = "excess")
                \/ Stopped(history[i].kind, breaker', tripped'),
         kind \in {"excess", "trip"} => Stopped(kind, breaker', tripped')
  PROVE  QuotaInv'
<1> DEFINE e == Event(kind, "none", 0, "none")
<1>1. history' = Append(history, e)
  BY DEF Happens
<1>2. e \in EventType /\ e.kind = kind /\ e.minute = minuteNow
  <2>1. kind \in EventKinds /\ "none" \in Everyone /\ "none" \in Attempts \union {"none"} /\ 0 \in Nat
    BY DEF Everyone
  <2>2. QuotaShape
    BY DEF QuotaInv
  <2> QED
    BY <2>1, <2>2, EventsTyped
<1>3. kind # "use" /\ kind # "publish" /\ kind # "toggle"
  OBVIOUS
<1> HIDE DEF e
<1>4. QuotaShape /\ WindowsInv /\ PastInv /\ AttemptsInv /\ StoppedInv /\ CountedInTurn
  BY DEF QuotaInv
<1>5. QuotaShape'
  <2>1. history' \in Seq(EventType) /\ Len(history') <= MaxEvents
    BY <1>1, <1>2, <1>4, HistoryGrows
  <2> QED
    BY <1>4, <2>1 DEF QuotaShape
<1>6. WindowsInv'
  <2>1. WindowsBegun'
    BY <1>4 DEF WindowsInv, WindowsBegun, DayOf, HourOf
  <2>2. history \in Seq(EventType) /\ usage \in UsageType /\ mutation \in MutationType
    BY <1>4 DEF QuotaShape
  <2>3. UsageKept(history, usage) /\ PublishesKept(history, mutation) /\ TogglesKept(history, mutation)
    BY <1>4 DEF WindowsInv
  <2>4. /\ UsageKept(Append(history, e), usage) /\ PublishesKept(Append(history, e), mutation)
        /\ TogglesKept(Append(history, e), mutation)
    BY <1>2, <1>3, <2>2, <2>3, UsageStays, PublishesStay, TogglesStay
  <2>5. UsageKept(history', usage') /\ PublishesKept(history', mutation') /\ TogglesKept(history', mutation')
    BY <1>1, <2>4
  <2> QED
    BY <2>1, <2>5 DEF WindowsInv
<1>7. PastInv'
  BY <1>1, <1>2, <1>4, PastKept
<1>8. AttemptsInv'
  <2>1. /\ \A a \in Attempts : mutation'.accounted[a] = mutation.accounted[a]
        /\ \A i \in DOMAIN history : history[i].minute <= minuteNow
    BY <1>4 DEF PastInv
  <2> QED
    BY <1>1, <1>2, <1>3, <1>4, <2>1, AttemptsKept
<1>9. StoppedInv'
  BY <1>1, <1>2, <1>4, StoppedKept
<1>10. CountedInTurn'
  BY <1>1, <1>2, <1>3, <1>4, TurnKept
<1> QED
  BY <1>5, <1>6, <1>7, <1>8, <1>9, <1>10 DEF QuotaInv

LEMMA QuotaUses ==
  ASSUME QuotaInv, NEW mcp \in Mcps, NEW tokens \in TokenCosts, ApplyUsage(mcp, tokens)
  PROVE  QuotaInv'
<1> DEFINE gate == QuotaBreaker!CheckBeforeRequest(breaker)
           u == Counted(usage, mcp, tokens)
<1>1. /\ HasRoom /\ ~tripped /\ QuotaBreaker!Allowed(breaker)
      /\ minuteNow' = minuteNow /\ mutation' = mutation /\ tripped' = tripped
  BY DEF ApplyUsage
<1>2. QuotaShape /\ WindowsInv /\ PastInv /\ AttemptsInv /\ StoppedInv /\ CountedInTurn
  BY DEF QuotaInv
<1>3. breaker \in QuotaBreaker!Entry /\ tokens \in Nat /\ tripped \in BOOLEAN
  BY <1>2, QuotaNumbers DEF QuotaShape
<1>4. gate \in QuotaBreaker!Entry
  BY <1>3, QuotaBreakerTypes
<1>5. /\ Violated(gate) \in QuotaBreaker!Entry /\ Violated(gate).state = "OPEN"
      /\ QuotaBreaker!RecordSuccess(gate) \in QuotaBreaker!Entry
  <2> HIDE DEF gate
  <2> QED
    BY <1>4, QuotaBreakerTypes
<1>6. gate.state # "OPEN"
  BY <1>1, <1>3 DEF QuotaBreaker!CheckBeforeRequest, QuotaBreaker!Allowed, QuotaBreaker!MoveOpenToHalfOpenIfReady,
                    QuotaBreaker!Entry, QuotaBreaker!TakesLease
<1>7. ~Violated(gate).elapsed
  <2> HIDE DEF gate
  <2> QED
    BY <1>4, <1>6, QuotaBreakerTypes
<1>8. \A i \in DOMAIN history : ~Stopped(history[i].kind, breaker, tripped)
  BY <1>1, <1>3, PassesBreaker DEF Stopped
<1>9. CASE ~WithinUsage(u) /\ breaker' = Violated(gate) /\ Happens("excess") /\ UNCHANGED usage
  <2>1. "excess" \in EventKinds \ {"use", "publish", "toggle"}
    BY DEF EventKinds
  <2>2. Stopped("excess", breaker', tripped')
    BY <1>5, <1>7, <1>9 DEF Stopped
  <2>3. breaker' \in QuotaBreaker!Entry /\ tripped' \in BOOLEAN
    BY <1>1, <1>3, <1>5, <1>9
  <2> QED
    BY <1>1, <1>8, <1>9, <2>1, <2>2, <2>3, QuotaHappens
<1>10. CASE WithinUsage(u) /\ breaker' = QuotaBreaker!RecordSuccess(gate)
            /\ usage' = u /\ history' = Append(history, Event("use", mcp, tokens, "none"))
  <2> DEFINE e == Event("use", mcp, tokens, "none")
  <2>1. history' = Append(history, e)
    BY <1>10
  <2>2. e \in EventType /\ e.kind = "use" /\ e.minute = minuteNow
    <3>1. "use" \in EventKinds /\ mcp \in Everyone /\ "none" \in Attempts \union {"none"}
      BY DEF EventKinds, Everyone
    <3> QED
      BY <1>2, <1>3, <3>1, EventsTyped
  <2>3. u \in UsageType /\ u.minute = minuteNow /\ u.day = DayOf(minuteNow)
    <3>1. \A x : x = Counted(usage, mcp, tokens) => x \in UsageType /\ x.minute = minuteNow /\ x.day = DayOf(minuteNow)
      BY <1>2, <1>3, CountedIs
    <3> QED
      BY <3>1
  <2>4. UsageKept(Append(history, e), u)
    <3>1. \A x, y : x = Counted(usage, mcp, tokens) /\ WithinUsage(x) /\ y = Event("use", mcp, tokens, "none")
                      => UsageKept(Append(history, y), x)
      BY <1>2, <1>3, UseKept
    <3> QED
      BY <1>10, <3>1
  <2> HIDE DEF e, u, gate
  <2>5. QuotaShape'
    <3>1. history' \in Seq(EventType) /\ Len(history') <= MaxEvents
      BY <1>1, <1>2, <2>1, <2>2, HistoryGrows
    <3> QED
      BY <1>1, <1>2, <1>5, <1>10, <2>3, <3>1 DEF QuotaShape
  <2>6. WindowsInv'
    <3>1. WindowsBegun'
      <4>1. minuteNow <= minuteNow /\ DayOf(minuteNow) <= DayOf(minuteNow)
        BY <1>2, MinutesNow
      <4>2. DayOf(minuteNow)' = DayOf(minuteNow) /\ HourOf(minuteNow)' = HourOf(minuteNow)
        BY <1>1 DEF DayOf, HourOf
      <4> QED
        BY <1>1, <1>2, <1>10, <2>3, <4>1, <4>2 DEF WindowsInv, WindowsBegun
    <3>2. PublishesKept(Append(history, e), mutation) /\ TogglesKept(Append(history, e), mutation)
      <4>1. e.kind # "publish" /\ e.kind # "toggle"
        BY <2>2
      <4>2. /\ history \in Seq(EventType) /\ mutation \in MutationType
            /\ PublishesKept(history, mutation) /\ TogglesKept(history, mutation)
        BY <1>2 DEF QuotaShape, WindowsInv
      <4> QED
        BY <2>2, <4>1, <4>2, PublishesStay, TogglesStay
    <3>3. UsageKept(history', usage') /\ PublishesKept(history', mutation') /\ TogglesKept(history', mutation')
      BY <1>1, <1>10, <2>1, <2>4, <3>2
    <3> QED
      BY <3>1, <3>3 DEF WindowsInv
  <2>7. PastInv'
    BY <1>1, <1>2, <2>1, <2>2, PastKept
  <2>8. AttemptsInv'
    <3>1. /\ \A a \in Attempts : mutation'.accounted[a] = mutation.accounted[a]
          /\ (\A i \in DOMAIN history : history[i].minute <= minuteNow) /\ e.kind # "publish"
      BY <1>1, <1>2, <2>2 DEF PastInv
    <3> QED
      BY <1>1, <1>2, <2>1, <2>2, <3>1, AttemptsKept
  <2>9. StoppedInv'
    <3>1. e.kind \notin {"excess", "trip"}
      BY <2>2
    <3> QED
      BY <1>1, <1>2, <1>8, <2>1, <2>2, <3>1, StoppedKept
  <2>10. CountedInTurn'
    <3>1. e.kind # "publish"
      BY <2>2
    <3> QED
      BY <1>1, <1>2, <2>1, <2>2, <3>1, TurnKept
  <2> QED
    BY <2>5, <2>6, <2>7, <2>8, <2>9, <2>10 DEF QuotaInv
<1>11. CASE breaker' = QuotaBreaker!RecordSuccess(gate) /\ UNCHANGED <<usage, history>>
  <2>1. QuotaShape'
    BY <1>1, <1>2, <1>5, <1>11 DEF QuotaShape
  <2>2. WindowsInv' /\ PastInv' /\ AttemptsInv' /\ CountedInTurn'
    BY <1>1, <1>2, <1>11 DEF WindowsInv, WindowsBegun, PastInv, AttemptsInv, CountedInTurn, DayOf, HourOf
  <2>3. StoppedInv'
    BY <1>2, <1>8, <1>11 DEF StoppedInv
  <2> QED
    BY <2>1, <2>2, <2>3 DEF QuotaInv
<1> QED
  BY <1>9, <1>10, <1>11 DEF ApplyUsage

LEMMA EventMinutes ==
  ASSUME QuotaShape
  PROVE  \A i \in DOMAIN history : history[i] \in EventType /\ history[i].minute \in Nat
<1>1. history \in Seq(EventType)
  BY DEF QuotaShape
<1>2. ASSUME NEW i \in DOMAIN history PROVE history[i] \in EventType
  BY <1>1
<1>3. \A x \in EventType : x.minute \in 0..MaxQuotaMinutes
  BY DEF EventType
<1>4. \A y \in 0..MaxQuotaMinutes : y \in Nat
  BY QuotaNumbers
<1> QED
  BY <1>2, <1>3, <1>4

\* A limit that is passed opens the breaker, and what was stopped stays stopped.
LEMMA QuotaViolates ==
  ASSUME QuotaInv, HasRoom, NEW kind \in {"publication excess", "toggle excess"}, Happens(kind),
         UNCHANGED <<minuteNow, usage, mutation, tripped>>, breaker' = Violated(breaker)
  PROVE  QuotaInv'
<1>1. breaker \in QuotaBreaker!Entry /\ tripped \in BOOLEAN
  BY DEF QuotaInv, QuotaShape
<1>2. breaker' \in QuotaBreaker!Entry /\ (breaker.state = "OPEN" => breaker' = breaker) /\ tripped' \in BOOLEAN
  BY <1>1, QuotaBreakerTypes
<1>3. \A i \in DOMAIN history :
        Stopped(history[i].kind, breaker, tripped) => Stopped(history[i].kind, breaker', tripped')
  BY <1>2 DEF Stopped
<1>4. kind \in EventKinds \ {"use", "publish", "toggle"} /\ kind \notin {"excess", "trip"}
  BY DEF EventKinds
<1> QED
  BY <1>2, <1>3, <1>4, QuotaHappens

LEMMA QuotaPublishes ==
  ASSUME QuotaInv, NEW attempt \in Attempts, NEW tokens \in TokenCosts, AccountPublish(attempt, tokens)
  PROVE  QuotaInv'
<1> DEFINE m == Published(mutation, attempt, tokens)
           e == Event("publish", "none", tokens, attempt)
<1>1. HasRoom /\ Pruned(mutation.accounted)[attempt] = 0 /\ UNCHANGED <<minuteNow, usage, tripped>>
  BY DEF AccountPublish
<1>2. QuotaShape /\ WindowsInv /\ PastInv /\ AttemptsInv /\ StoppedInv /\ CountedInTurn
  BY DEF QuotaInv
<1>3. tokens \in Nat
  BY QuotaNumbers
<1>4. CASE ~WithinPublishes(m) /\ breaker' = Violated(breaker) /\ Happens("publication excess") /\ UNCHANGED mutation
  BY <1>1, <1>4, QuotaViolates
<1>5. CASE WithinPublishes(m) /\ mutation' = m /\ history' = Append(history, e) /\ UNCHANGED breaker
  <2>1. e \in EventType /\ e.kind = "publish" /\ e.minute = minuteNow /\ e.attempt = attempt
    <3>1. "publish" \in EventKinds /\ "none" \in Everyone /\ attempt \in Attempts \union {"none"}
      BY DEF EventKinds, Everyone
    <3> QED
      BY <1>2, <1>3, <3>1, EventsTyped
  <2>2. PublishedAs(m, attempt, tokens)
    <3>1. \A x : x = Published(mutation, attempt, tokens) => PublishedAs(x, attempt, tokens)
      BY <1>2, <1>3, PublishedIs
    <3> QED
      BY <3>1
  <2>3. PublishesKept(Append(history, e), m)
    <3>1. \A x, y : x = Published(mutation, attempt, tokens) /\ WithinPublishes(x)
                    /\ y = Event("publish", "none", tokens, attempt) => PublishesKept(Append(history, y), x)
      BY <1>2, <1>3, PublishKept
    <3> QED
      BY <1>5, <3>1
  <2> HIDE DEF m, e
  <2>4. QuotaShape'
    <3>1. history' \in Seq(EventType) /\ Len(history') <= MaxEvents
      BY <1>1, <1>2, <1>5, <2>1, HistoryGrows
    <3> QED
      BY <1>1, <1>2, <1>5, <2>2, <3>1 DEF QuotaShape, PublishedAs
  <2>5. WindowsInv'
    <3>1. WindowsBegun'
      <4>1. DayOf(minuteNow) <= DayOf(minuteNow) /\ HourOf(minuteNow) <= HourOf(minuteNow)
        BY <1>2, MinutesNow
      <4>2. DayOf(minuteNow)' = DayOf(minuteNow) /\ HourOf(minuteNow)' = HourOf(minuteNow)
        BY <1>1 DEF DayOf, HourOf
      <4> QED
        BY <1>1, <1>2, <1>5, <2>2, <4>1, <4>2 DEF WindowsInv, WindowsBegun, PublishedAs
    <3>2. UsageKept(Append(history, e), usage) /\ TogglesKept(Append(history, e), mutation)
      <4>1. e.kind # "use" /\ e.kind # "toggle"
        BY <2>1
      <4>2. /\ history \in Seq(EventType) /\ mutation \in MutationType /\ usage \in UsageType
            /\ UsageKept(history, usage) /\ TogglesKept(history, mutation)
        BY <1>2 DEF QuotaShape, WindowsInv
      <4> QED
        BY <2>1, <4>1, <4>2, UsageStays, TogglesStay
    <3>3. TogglesKept(Append(history, e), m)
      BY <2>2, <3>2 DEF TogglesKept, PublishedAs
    <3>4. UsageKept(history', usage') /\ PublishesKept(history', mutation') /\ TogglesKept(history', mutation')
      BY <1>1, <1>5, <2>3, <3>2, <3>3
    <3> QED
      BY <3>1, <3>4 DEF WindowsInv
  <2>6. PastInv'
    BY <1>1, <1>2, <1>5, <2>1, PastKept
  <2>7. AttemptsInv'
    <3>1. mutation.accounted \in [Attempts -> 0..(MaxQuotaMinutes + 1)] /\ minuteNow \in Nat
      BY <1>2, MinutesNow DEF QuotaShape, MutationType
    <3>2. \A a \in Attempts : \/ mutation'.accounted[a] = mutation.accounted[a]
                              \/ mutation'.accounted[a] = minuteNow + 1
                              \/ mutation.accounted[a] + AttemptTtl < minuteNow + 1
      BY <1>5, <2>2, <3>1 DEF PublishedAs, Pruned
    <3>3. mutation'.accounted[attempt] = minuteNow + 1
      BY <1>5, <2>2, <3>1 DEF PublishedAs, Pruned
    <3>4. e.kind = "publish" => e.attempt \in Attempts /\ mutation'.accounted[e.attempt] >= e.minute + 1
      BY <2>1, <3>1, <3>3
    <3>5. \A i \in DOMAIN history : history[i].minute <= minuteNow
      BY <1>2 DEF PastInv
    <3> QED
      BY <1>1, <1>2, <1>5, <2>1, <3>2, <3>4, <3>5, AttemptsKept
  <2>8. StoppedInv'
    <3>1. e.kind \notin {"excess", "trip"}
      BY <2>1
    <3>2. breaker' = breaker /\ tripped' = tripped
      BY <1>1, <1>5
    <3> QED
      BY <1>1, <1>2, <1>5, <2>1, <3>1, <3>2, StoppedKept
  <2>9. CountedInTurn'
    <3>1. e.kind # "use"
      BY <2>1
    <3> QED
      BY <1>1, <1>2, <1>5, <2>1, <3>1, TurnKept
  <2> QED
    BY <2>4, <2>5, <2>6, <2>7, <2>8, <2>9 DEF QuotaInv
<1> QED
  BY <1>4, <1>5 DEF AccountPublish

LEMMA QuotaToggles == ASSUME QuotaInv, AccountToggle PROVE QuotaInv'
<1> DEFINE m == Toggled(mutation)
           e == Event("toggle", "none", 0, "none")
<1>1. HasRoom /\ UNCHANGED <<minuteNow, usage, tripped>>
  BY DEF AccountToggle
<1>2. QuotaShape /\ WindowsInv /\ PastInv /\ AttemptsInv /\ StoppedInv /\ CountedInTurn
  BY DEF QuotaInv
<1>3. CASE breaker' = Violated(breaker) /\ Happens("toggle excess") /\ UNCHANGED mutation
  BY <1>1, <1>3, QuotaViolates
<1>4. CASE m.toggles <= TogglesPerMinute /\ mutation' = m /\ Happens("toggle") /\ UNCHANGED breaker
  <2>0. history' = Append(history, e)
    BY <1>4 DEF Happens
  <2>1. e \in EventType /\ e.kind = "toggle" /\ e.minute = minuteNow
    <3>1. "toggle" \in EventKinds /\ "none" \in Everyone /\ "none" \in Attempts \union {"none"} /\ 0 \in Nat
      BY DEF EventKinds, Everyone
    <3> QED
      BY <1>2, <3>1, EventsTyped
  <2>2. /\ m \in MutationType /\ m.minute = minuteNow
        /\ m.hour = mutation.hour /\ m.inHour = mutation.inHour /\ m.day = mutation.day /\ m.inDay = mutation.inDay
        /\ m.writeTokens = mutation.writeTokens /\ m.accounted = mutation.accounted
    <3>1. \A x : x = Toggled(mutation) =>
            /\ x \in MutationType /\ x.minute = minuteNow
            /\ x.hour = mutation.hour /\ x.inHour = mutation.inHour /\ x.day = mutation.day
            /\ x.inDay = mutation.inDay /\ x.writeTokens = mutation.writeTokens /\ x.accounted = mutation.accounted
      BY <1>2, ToggledIs
    <3> QED
      BY <3>1
  <2>3. TogglesKept(Append(history, e), m)
    <3>1. \A x, y : x = Toggled(mutation) /\ x.toggles <= TogglesPerMinute /\ y = Event("toggle", "none", 0, "none")
                      => TogglesKept(Append(history, y), x)
      BY <1>2, ToggleKept
    <3> QED
      BY <1>4, <3>1
  <2> HIDE DEF m, e
  <2>4. QuotaShape'
    <3>1. history' \in Seq(EventType) /\ Len(history') <= MaxEvents
      BY <1>1, <1>2, <2>0, <2>1, HistoryGrows
    <3> QED
      BY <1>1, <1>2, <1>4, <2>2, <3>1 DEF QuotaShape
  <2>5. WindowsInv'
    <3>1. WindowsBegun'
      <4>1. minuteNow <= minuteNow
        BY <1>2, MinutesNow
      <4>2. DayOf(minuteNow)' = DayOf(minuteNow) /\ HourOf(minuteNow)' = HourOf(minuteNow)
        BY <1>1 DEF DayOf, HourOf
      <4> QED
        BY <1>1, <1>2, <1>4, <2>2, <4>1, <4>2 DEF WindowsInv, WindowsBegun
    <3>2. UsageKept(Append(history, e), usage) /\ PublishesKept(Append(history, e), mutation)
      <4>1. e.kind # "use" /\ e.kind # "publish"
        BY <2>1
      <4>2. /\ history \in Seq(EventType) /\ mutation \in MutationType /\ usage \in UsageType
            /\ UsageKept(history, usage) /\ PublishesKept(history, mutation)
        BY <1>2 DEF QuotaShape, WindowsInv
      <4> QED
        BY <2>1, <4>1, <4>2, UsageStays, PublishesStay
    <3>3. PublishesKept(Append(history, e), m)
      BY <2>2, <3>2 DEF PublishesKept
    <3>4. UsageKept(history', usage') /\ PublishesKept(history', mutation') /\ TogglesKept(history', mutation')
      BY <1>1, <1>4, <2>0, <2>3, <3>2, <3>3
    <3> QED
      BY <3>1, <3>4 DEF WindowsInv
  <2>6. PastInv'
    BY <1>1, <1>2, <2>0, <2>1, PastKept
  <2>7. AttemptsInv'
    <3>1. /\ \A a \in Attempts : mutation'.accounted[a] = mutation.accounted[a]
          /\ (\A i \in DOMAIN history : history[i].minute <= minuteNow) /\ e.kind # "publish"
      BY <1>2, <1>4, <2>1, <2>2 DEF PastInv
    <3> QED
      BY <1>1, <1>2, <2>0, <2>1, <3>1, AttemptsKept
  <2>8. StoppedInv'
    <3>1. e.kind \notin {"excess", "trip"} /\ breaker' = breaker /\ tripped' = tripped
      BY <1>1, <1>4, <2>1
    <3> QED
      BY <1>1, <1>2, <2>0, <2>1, <3>1, StoppedKept
  <2>9. CountedInTurn'
    <3>1. e.kind # "use" /\ e.kind # "publish"
      BY <2>1
    <3> QED
      BY <1>1, <1>2, <2>0, <2>1, <3>1, TurnKept
  <2> QED
    BY <2>4, <2>5, <2>6, <2>7, <2>8, <2>9 DEF QuotaInv
<1> QED
  BY <1>3, <1>4 DEF AccountToggle

LEMMA QuotaRepeats == ASSUME QuotaInv, NEW attempt \in Attempts, RepeatPublish(attempt) PROVE QuotaInv'
<1> DEFINE x == mutation
           A == Pruned(x.accounted)
<1>1. /\ UNCHANGED <<minuteNow, usage, breaker, tripped, history>>
      /\ mutation' = [x EXCEPT !.accounted = Pruned(@)]
  BY DEF RepeatPublish
<1>2. QuotaShape /\ WindowsInv /\ PastInv /\ AttemptsInv /\ StoppedInv /\ CountedInTurn
  BY DEF QuotaInv
<1>3. x \in MutationType /\ x.accounted \in [Attempts -> 0..(MaxQuotaMinutes + 1)] /\ minuteNow \in Nat
      /\ mutation' = [x EXCEPT !.accounted = A]
  BY <1>1, <1>2, MinutesNow DEF QuotaShape, MutationType
<1>4. /\ A \in [Attempts -> 0..(MaxQuotaMinutes + 1)]
      /\ \A a \in Attempts : A[a] = x.accounted[a] \/ x.accounted[a] + AttemptTtl < minuteNow + 1
  BY <1>3, QuotaNumbers DEF Pruned
<1> HIDE DEF A, x
<1>5. /\ mutation' \in MutationType /\ mutation'.accounted = A
      /\ mutation'.hour = x.hour /\ mutation'.inHour = x.inHour /\ mutation'.day = x.day /\ mutation'.inDay = x.inDay
      /\ mutation'.writeTokens = x.writeTokens /\ mutation'.minute = x.minute /\ mutation'.toggles = x.toggles
  BY <1>3, <1>4 DEF MutationType
<1>6. QuotaShape'
  BY <1>1, <1>2, <1>5 DEF QuotaShape
<1>7. WindowsInv'
  <2>1. /\ WindowsBegun /\ UsageKept(history, usage) /\ PublishesKept(history, x) /\ TogglesKept(history, x)
    BY <1>2 DEF WindowsInv, x
  <2>2. WindowsBegun'
    BY <1>1, <1>5, <2>1 DEF WindowsBegun, DayOf, HourOf, x
  <2>3. UsageKept(history, usage) /\ PublishesKept(history, mutation') /\ TogglesKept(history, mutation')
    BY <1>5, <2>1 DEF PublishesKept, TogglesKept
  <2>4. UsageKept(history', usage') /\ PublishesKept(history', mutation') /\ TogglesKept(history', mutation')
    BY <1>1, <2>3
  <2> QED
    BY <2>2, <2>4 DEF WindowsInv
<1>8. PastInv' /\ StoppedInv' /\ CountedInTurn'
  BY <1>1, <1>2 DEF PastInv, StoppedInv, CountedInTurn
<1>9. AttemptsInv'
  <2> SUFFICES ASSUME NEW i \in DOMAIN history, history[i].kind = "publish"
               PROVE  /\ history[i].attempt \in Attempts
                      /\ \/ A[history[i].attempt] >= history[i].minute + 1
                         \/ history[i].minute + AttemptTtl < minuteNow
    BY <1>1, <1>5 DEF AttemptsInv
  <2>1. /\ history[i].attempt \in Attempts
        /\ \/ x.accounted[history[i].attempt] >= history[i].minute + 1
           \/ history[i].minute + AttemptTtl < minuteNow
    BY <1>2 DEF AttemptsInv, x
  <2>2. history[i].minute \in Nat
    BY <1>2, EventMinutes
  <2>3. \A y, z \in Nat : y >= z + 1 /\ y + AttemptTtl < minuteNow + 1 => z + AttemptTtl < minuteNow
    BY <1>3, QuotaNumbers
  <2>4. x.accounted[history[i].attempt] \in Nat
    BY <1>3, <2>1, QuotaNumbers
  <2> QED
    BY <1>4, <2>1, <2>2, <2>3, <2>4
<1> QED
  BY <1>6, <1>7, <1>8, <1>9 DEF QuotaInv

LEMMA QuotaTrips == ASSUME QuotaInv, TripCircuit PROVE QuotaInv'
<1>1. /\ HasRoom /\ Happens("trip") /\ UNCHANGED <<minuteNow, usage, mutation>> /\ tripped' = TRUE
      /\ breaker' = Violated(breaker)
  BY DEF TripCircuit, Violated
<1>2. breaker \in QuotaBreaker!Entry
  BY DEF QuotaInv, QuotaShape
<1>3. breaker' \in QuotaBreaker!Entry /\ (breaker.state = "OPEN" => breaker' = breaker) /\ tripped' \in BOOLEAN
  BY <1>1, <1>2, QuotaBreakerTypes
<1>4. \A i \in DOMAIN history :
        Stopped(history[i].kind, breaker, tripped) => Stopped(history[i].kind, breaker', tripped')
  BY <1>1, <1>3 DEF Stopped
<1>5. "trip" \in EventKinds \ {"use", "publish", "toggle"} /\ Stopped("trip", breaker', tripped')
  BY <1>1 DEF EventKinds, Stopped
<1> QED
  BY <1>1, <1>3, <1>4, <1>5, QuotaHappens

LEMMA QuotaTimesOut == ASSUME QuotaInv, TimeoutPasses PROVE QuotaInv'
<1>1. /\ HasRoom /\ Happens("timeout") /\ UNCHANGED <<minuteNow, usage, mutation, tripped>>
      /\ breaker' = [breaker EXCEPT !.elapsed = TRUE]
  BY DEF TimeoutPasses
<1>2. breaker \in QuotaBreaker!Entry /\ tripped \in BOOLEAN
  BY DEF QuotaInv, QuotaShape
<1>3. breaker' \in QuotaBreaker!Entry /\ tripped' \in BOOLEAN
  BY <1>1, <1>2, QuotaBreakerTypes
<1>4. \A i \in DOMAIN history :
        Stopped(history[i].kind, breaker, tripped)
          => history[i].kind = "excess" \/ Stopped(history[i].kind, breaker', tripped')
  BY <1>1 DEF Stopped
<1>5. "timeout" \in EventKinds \ {"use", "publish", "toggle"}
  BY DEF EventKinds
<1> QED
  BY <1>1, <1>3, <1>4, <1>5, QuotaHappens

LEMMA QuotaRestarts == ASSUME QuotaInv, QuotaRestart PROVE QuotaInv'
<1>1. /\ HasRoom /\ Happens("restart") /\ UNCHANGED <<minuteNow, usage, mutation>>
      /\ breaker' \in QuotaBreaker!Entry /\ tripped' \in BOOLEAN
  BY NewQuotaEntry DEF QuotaRestart
<1>2. "restart" \in EventKinds \ {"use", "publish", "toggle"}
  BY DEF EventKinds
<1> QED
  BY <1>1, <1>2, QuotaHappens

LEMMA QuotaMinutes == ASSUME QuotaInv, MinutePasses PROVE QuotaInv'
<1>1. minuteNow < MaxQuotaMinutes /\ minuteNow' = minuteNow + 1 /\ UNCHANGED <<usage, mutation, breaker, tripped, history>>
  BY DEF MinutePasses
<1>2. QuotaShape /\ WindowsInv /\ PastInv /\ AttemptsInv /\ StoppedInv /\ CountedInTurn
  BY DEF QuotaInv
<1>3. minuteNow \in Nat /\ minuteNow + 1 \in 0..MaxQuotaMinutes /\ minuteNow <= minuteNow + 1 /\ minuteNow + 1 \in Nat
  BY <1>1, <1>2, MinutesNow, QuotaNumbers
<1>4. QuotaShape'
  BY <1>1, <1>2, <1>3 DEF QuotaShape
<1>5. WindowsInv'
  <2>1. DayOf(minuteNow) <= DayOf(minuteNow)' /\ HourOf(minuteNow) <= HourOf(minuteNow)'
        /\ DayOf(minuteNow) \in Nat /\ HourOf(minuteNow) \in Nat
        /\ DayOf(minuteNow)' \in Nat /\ HourOf(minuteNow)' \in Nat
    BY <1>1, <1>3, QuotaNumbers, DivGrows, Divides DEF DayOf, HourOf
  <2>2. usage \in UsageType /\ mutation \in MutationType /\ WindowsBegun
    BY <1>2 DEF QuotaShape, WindowsInv
  <2>3. usage.minute \in Nat /\ usage.day \in Nat /\ mutation.hour \in Nat /\ mutation.day \in Nat /\ mutation.minute \in Nat
    BY <2>2, QuotaNumbers DEF UsageType, MutationType
  <2>4. /\ usage.minute <= minuteNow + 1 /\ mutation.minute <= minuteNow + 1
        /\ usage.day <= DayOf(minuteNow)' /\ mutation.hour <= HourOf(minuteNow)' /\ mutation.day <= DayOf(minuteNow)'
    BY <1>3, <2>1, <2>2, <2>3 DEF WindowsBegun
  <2>5. WindowsBegun'
    BY <1>1, <2>4 DEF WindowsBegun
  <2> QED
    BY <1>1, <1>2, <2>5 DEF WindowsInv
<1>6. \A i \in DOMAIN history : history[i].minute \in Nat
  BY <1>2, EventMinutes
<1>7. PastInv'
  BY <1>1, <1>2, <1>3, <1>6 DEF PastInv
<1>8. AttemptsInv'
  <2>1. \A i \in DOMAIN history :
          history[i].minute + AttemptTtl < minuteNow => history[i].minute + AttemptTtl < minuteNow + 1
    BY <1>3, <1>6, QuotaNumbers
  <2> QED
    BY <1>1, <1>2, <2>1 DEF AttemptsInv
<1>9. StoppedInv' /\ CountedInTurn'
  BY <1>1, <1>2 DEF StoppedInv, CountedInTurn
<1> QED
  BY <1>4, <1>5, <1>7, <1>8, <1>9 DEF QuotaInv

LEMMA QuotaStarts == ASSUME QuotaInit PROVE QuotaInv
<1> USE DEF QuotaInit
<1>1. QuotaShape
  <2>1. <<>> \in Seq(EventType) /\ Len(<<>>) <= MaxEvents
    BY QuotaNumbers
  <2>2. minuteNow \in 0..MaxQuotaMinutes /\ tripped \in BOOLEAN /\ breaker \in QuotaBreaker!Entry
    <3>1. minuteNow = 0 /\ tripped = FALSE
      OBVIOUS
    <3>3. 0 \in 0..MaxQuotaMinutes
      BY QuotaNumbers
    <3>2. breaker = QuotaBreaker!NewEntry
      OBVIOUS
    <3> QED
      BY <3>1, <3>2, <3>3, NewQuotaEntry, Zenon
  <2>3. 0 \in 0..MaxQuotaMinutes /\ 0 \in 0..(MaxQuotaMinutes + 1)
    BY QuotaNumbers
  <2>4. usage \in UsageType /\ mutation \in MutationType
    BY <2>3 DEF UsageType, MutationType
  <2> QED
    BY <2>1, <2>2, <2>4 DEF QuotaShape
<1>2. WindowsInv
  <2>1. WindowsBegun
    BY <1>1, MinutesNow DEF WindowsBegun
  <2>2. UsageKept(history, usage) /\ PublishesKept(history, mutation) /\ TogglesKept(history, mutation)
    BY QuotaNumbers, WindowBegins DEF UsageKept, PublishesKept, TogglesKept
  <2> QED
    BY <2>1, <2>2 DEF WindowsInv
<1>3. DOMAIN history = {}
  OBVIOUS
<1> QED
  BY <1>1, <1>2, <1>3 DEF QuotaInv, PastInv, AttemptsInv, StoppedInv, CountedInTurn

LEMMA QuotaSteps == QuotaSpec => []QuotaInv
<1>1. QuotaInv /\ UNCHANGED quotaVars => QuotaInv'
  BY DEF quotaVars, QuotaInv, QuotaShape, WindowsInv, WindowsBegun, PastInv, AttemptsInv, StoppedInv, CountedInTurn,
         DayOf, HourOf
<1>2. QuotaInv /\ [QuotaNext]_quotaVars => QuotaInv'
  BY <1>1, QuotaUses, QuotaPublishes, QuotaRepeats, QuotaToggles, QuotaTrips, QuotaTimesOut, QuotaRestarts,
     QuotaMinutes DEF QuotaNext
<1> QED
  BY <1>2, QuotaStarts, PTL DEF QuotaSpec

\* The counts keep their types: for every limit and every length of the windows.
THEOREM QuotaTypes == QuotaSpec => []QuotaTypeOK
<1>1. QuotaInv => QuotaTypeOK
  BY DEF QuotaInv, QuotaShape, UsageType, MutationType, QuotaTypeOK
<1> QED
  BY <1>1, QuotaSteps, PTL

\* An attempt is counted again only when it has been forgotten, and after a request too
\* many, or a manual trip, no request is counted until the timeout or a restart: for every
\* limit and every number of events.
THEOREM CountedInTurnHolds == QuotaSpec => []CountedInTurn
<1>1. QuotaInv => CountedInTurn
  BY DEF QuotaInv
<1> QED
  BY <1>1, QuotaSteps, PTL

\* The places of a window that is kept.
LEMMA WindowWithin ==
  ASSUME NEW of, NEW kind, NEW who, NEW minutes, NEW current, NEW count, NEW limit, NEW n \in Nat,
         WindowKept(history, of, kind, who, minutes, current, count, limit)
  PROVE  Measure(history, of, Places(history, kind, who, minutes, n)) <= limit
BY DEF WindowKept

LEMMA WindowPlaces ==
  ASSUME QuotaShape, NEW kind, NEW minutes, NEW n
  PROVE  Window(kind, minutes, n) = Places(history, kind, Everyone, minutes, n)
<1>1. \A i \in DOMAIN history : history[i].mcp \in Everyone
  BY EventMinutes DEF EventType
<1> QED
  BY <1>1 DEF Window, Places

\* Of all that was ever counted, no minute, hour or day has more than its limit: for every
\* limit, every length of the windows and every number of services and events.
THEOREM WithinLimitsHolds == QuotaSpec => []WithinLimits
<1>1. QuotaInv => WithinLimits
  <2> SUFFICES ASSUME QuotaInv, NEW n \in 0..MaxQuotaMinutes
               PROVE  /\ Cardinality(Window("use", 1, n)) <= GlobalPerMinute
                      /\ \A mcp \in Mcps : Cardinality({i \in Window("use", 1, n) : history[i].mcp = mcp}) <= McpPerMinute
                      /\ Cardinality(Window("use", MinutesPerDay, n)) <= RequestsPerDay
                      /\ TokensOf(Window("use", MinutesPerDay, n)) <= TokensPerDay
                      /\ Cardinality(Window("publish", MinutesPerHour, n)) <= PublishesPerHour
                      /\ Cardinality(Window("publish", MinutesPerDay, n)) <= PublishesPerDay
                      /\ TokensOf(Window("publish", MinutesPerDay, n)) <= WriteTokensPerDay
                      /\ Cardinality(Window("toggle", 1, n)) <= TogglesPerMinute
    BY DEF WithinLimits
  <2>1. QuotaShape /\ UsageKept(history, usage) /\ PublishesKept(history, mutation) /\ TogglesKept(history, mutation)
    BY DEF QuotaInv, WindowsInv
  <2>2. n \in Nat
    BY QuotaNumbers
  <2>3. Cardinality(Window("use", 1, n)) <= GlobalPerMinute
    BY <2>1, <2>2, WindowWithin, WindowPlaces DEF UsageKept, Measure
  <2>4. ASSUME NEW mcp \in Mcps
        PROVE  Cardinality({i \in Window("use", 1, n) : history[i].mcp = mcp}) <= McpPerMinute
    <3>1. {i \in Window("use", 1, n) : history[i].mcp = mcp} = Places(history, "use", {mcp}, 1, n)
      BY DEF Window, Places
    <3>2. WindowKept(history, "times", "use", {mcp}, 1, usage.minute, usage.perMcp[mcp], McpPerMinute)
      BY <2>1 DEF UsageKept
    <3> QED
      BY <2>2, <3>1, <3>2, WindowWithin DEF Measure
  <2>5. Cardinality(Window("use", MinutesPerDay, n)) <= RequestsPerDay
    BY <2>1, <2>2, WindowWithin, WindowPlaces DEF UsageKept, Measure
  <2>6. TokensOf(Window("use", MinutesPerDay, n)) <= TokensPerDay
    BY <2>1, <2>2, WindowWithin, WindowPlaces, TokensAre DEF UsageKept, Measure
  <2>7. Cardinality(Window("publish", MinutesPerHour, n)) <= PublishesPerHour
    BY <2>1, <2>2, WindowWithin, WindowPlaces DEF PublishesKept, Measure
  <2>8. Cardinality(Window("publish", MinutesPerDay, n)) <= PublishesPerDay
    BY <2>1, <2>2, WindowWithin, WindowPlaces DEF PublishesKept, Measure
  <2>9. TokensOf(Window("publish", MinutesPerDay, n)) <= WriteTokensPerDay
    BY SMTT(30), <2>1, <2>2, WindowWithin, WindowPlaces, TokensAre DEF PublishesKept, Measure
  <2>10. Cardinality(Window("toggle", 1, n)) <= TogglesPerMinute
    BY <2>1, <2>2, WindowWithin, WindowPlaces DEF TogglesKept, Measure
  <2> QED
    BY <2>3, <2>4, <2>5, <2>6, <2>7, <2>8, <2>9, <2>10
<1> QED
  BY <1>1, QuotaSteps, PTL

-----------------------------------------------------------------------------
(* Task executions: TaskExecution.                                            *)

USE DEF indexVars, logVars, NoEntry
-----------------------------------------------------------------------------
(* Types.                                                                   *)

CallStatuses == {"none", "approved", "rejected", "completed", "failed"}
TaskCallType == [at : Stages, task : Tasks \union {NoTask}, running : BOOLEAN, status : CallStatuses]
IndexType == [status : {"none", "rejected", "completed", "failed"}, of : TaskCalls \union {"none"}]

TaskShape ==
  /\ taskCalls \in [TaskCalls -> TaskCallType]
  /\ taskIndex \in [Tasks -> IndexType]

\* A step of call c leaves the others where they are and, when it does not lose the index,
\* touches that of its own task at most.
StepOf(c) ==
  /\ \A d \in TaskCalls : d # c => taskCalls'[d] = taskCalls[d]
  /\ \A t \in Tasks : taskIndex'[t] \notin {taskIndex[t], NoEntry} => t = TaskOf(c) /\ taskIndex'[t].of = c
  /\ taskDrafts \subseteq taskDrafts' /\ executions \subseteq executions'
  /\ logged \subseteq logged' /\ unsettled \subseteq unsettled'

LEMMA CallMoves ==
  ASSUME TaskShape, NEW c \in TaskCalls, NEW stage \in Stages, Call(c, stage)
  PROVE  /\ taskCalls' \in [TaskCalls -> TaskCallType]
         /\ \A d \in TaskCalls : d # c => taskCalls'[d] = taskCalls[d]
         /\ taskCalls'[c] = [taskCalls[c] EXCEPT !.at = stage]
         /\ taskCalls'[c].at = stage /\ taskCalls'[c].status = taskCalls[c].status
         /\ taskCalls'[c].task = taskCalls[c].task
<1>1. /\ taskCalls \in [TaskCalls -> TaskCallType]
      /\ taskCalls' = [taskCalls EXCEPT ![c] = [taskCalls[c] EXCEPT !.at = stage]]
  BY DEF TaskShape, Call
<1>2. taskCalls[c] \in TaskCallType
  BY <1>1
<1>3. /\ [taskCalls[c] EXCEPT !.at = stage] \in TaskCallType
      /\ [taskCalls[c] EXCEPT !.at = stage].at = stage
      /\ [taskCalls[c] EXCEPT !.at = stage].status = taskCalls[c].status
      /\ [taskCalls[c] EXCEPT !.at = stage].task = taskCalls[c].task
  BY <1>2 DEF TaskCallType
<1> QED
  BY <1>1, <1>3

LEMMA CallMovesAs ==
  ASSUME TaskShape, NEW c \in TaskCalls, NEW stage \in Stages, NEW status \in CallStatuses,
         CallAs(c, stage, status)
  PROVE  /\ taskCalls' \in [TaskCalls -> TaskCallType]
         /\ \A d \in TaskCalls : d # c => taskCalls'[d] = taskCalls[d]
         /\ taskCalls'[c].at = stage /\ taskCalls'[c].status = status
         /\ taskCalls'[c].task = taskCalls[c].task
<1>1. /\ taskCalls \in [TaskCalls -> TaskCallType]
      /\ taskCalls' = [taskCalls EXCEPT ![c] = [taskCalls[c] EXCEPT !.at = stage, !.status = status]]
  BY DEF TaskShape, CallAs
<1>2. taskCalls[c] \in TaskCallType
  BY <1>1
<1>3. /\ [taskCalls[c] EXCEPT !.at = stage, !.status = status] \in TaskCallType
      /\ [taskCalls[c] EXCEPT !.at = stage, !.status = status].at = stage
      /\ [taskCalls[c] EXCEPT !.at = stage, !.status = status].status = status
      /\ [taskCalls[c] EXCEPT !.at = stage, !.status = status].task = taskCalls[c].task
  BY <1>2 DEF TaskCallType
<1> QED
  BY <1>1, <1>3

LEMMA OutputSaved ==
  ASSUME TaskShape, NEW c \in TaskCalls, NEW status \in {"rejected", "completed", "failed"},
         SaveOutput(c, status)
  PROVE  /\ taskIndex' \in [Tasks -> IndexType]
         /\ \A t \in Tasks : taskIndex'[t] \notin {taskIndex[t], NoEntry} => t = TaskOf(c) /\ taskIndex'[t].of = c
         /\ \A t \in Tasks : t = TaskOf(c) => taskIndex'[t].status = status /\ taskIndex'[t].of = c
<1>1. [status |-> status, of |-> c] \in IndexType
  BY DEF IndexType
<1> QED
  BY <1>1 DEF TaskShape, SaveOutput

LEMMA SaveThrown ==
  ASSUME TaskShape, SaveThrows
  PROVE  taskIndex' \in [Tasks -> IndexType] /\ \A t \in Tasks : taskIndex'[t] \in {taskIndex[t], NoEntry}
BY DEF SaveThrows, LoseIndex, TaskShape, IndexType

\* A failure that is caught leaves an output that says failed, or a task that is
\* not settled.
LEMMA Caught ==
  ASSUME TaskShape, NEW c \in TaskCalls, CatchFailure(c)
  PROVE  /\ TaskShape'
         /\ \A d \in TaskCalls : d # c => taskCalls'[d] = taskCalls[d]
         /\ taskCalls'[c].at \in {"recording", "ended"} /\ taskCalls'[c].task = taskCalls[c].task
         /\ \A t \in Tasks : taskIndex'[t] \notin {taskIndex[t], NoEntry} => t = TaskOf(c) /\ taskIndex'[t].of = c
         /\ \A t \in Tasks : t = TaskOf(c) => taskIndex'[t].status = "failed" \/ t \in unsettled'
         /\ unsettled \subseteq unsettled'
<1>1. CASE CallAs(c, "recording", "failed") /\ SaveOutput(c, "failed") /\ UNCHANGED unsettled
  <2>1. "recording" \in Stages /\ "failed" \in CallStatuses
    BY DEF Stages, CallStatuses
  <2> QED
    BY <1>1, <2>1, CallMovesAs, OutputSaved DEF TaskShape
<1>2. CASE Call(c, "ended") /\ unsettled' = unsettled \union {TaskOf(c)} /\ SaveThrows
  <2>1. "ended" \in Stages
    BY DEF Stages
  <2> QED
    BY <1>2, <2>1, CallMoves, SaveThrown DEF TaskShape
<1> QED
  BY <1>1, <1>2 DEF CatchFailure

\* What the record of an execution that cannot be written leaves.
LEMMA NotRecorded ==
  ASSUME TaskShape, NEW c \in TaskCalls, CannotRecord(c)
  PROVE  /\ TaskShape'
         /\ \A d \in TaskCalls : d # c => taskCalls'[d] = taskCalls[d]
         /\ taskCalls'[c].at \in {"recording", "ended"} /\ taskCalls'[c].task = taskCalls[c].task
         /\ \A t \in Tasks : taskIndex'[t] \notin {taskIndex[t], NoEntry} => t = TaskOf(c) /\ taskIndex'[t].of = c
         /\ taskCalls[c].status = "completed" =>
              \A t \in Tasks : t = TaskOf(c) => taskIndex'[t].status = "failed" \/ t \in unsettled'
         /\ \A t \in Tasks : taskIndex'[t] \in {taskIndex[t], NoEntry} \/ taskIndex'[t].status = "failed" \/ t \in unsettled'
         /\ unsettled \subseteq unsettled'
<1>1. CASE taskCalls[c].status = "completed"
  BY <1>1, Caught DEF CannotRecord
<1>2. CASE taskCalls[c].status # "completed"
  <2>1. "ended" \in Stages
    BY DEF Stages
  <2>2. Call(c, "ended") /\ UNCHANGED <<taskIndex, unsettled>>
    BY <1>2 DEF CannotRecord
  <2> QED
    BY <1>2, <2>1, <2>2, CallMoves DEF TaskShape
<1> QED
  BY <1>1, <1>2

LEMMA BreakerKeeps ==
  BreakerTimeout => UNCHANGED <<taskCalls, taskIndex, logged, taskDrafts, executions, unsettled>>
BY DEF BreakerTimeout

\* Every step of a call keeps the shape of the state and is a step of that call.
LEMMA CallSteps ==
  ASSUME TaskShape, NEW c \in TaskCalls, RunLegacyTask(c) \/ ExecuteTask(c)
  PROVE  TaskShape' /\ StepOf(c)
<1> USE DEF StepOf
<1>1. ASSUME NEW task \in Tasks, NEW confirm \in BOOLEAN, RequestApproval(c, task, confirm)
      PROVE  TaskShape' /\ StepOf(c)
  <2>1. [at |-> "decided", task |-> task, running |-> FALSE,
         status |-> IF confirm THEN "approved" ELSE "rejected"] \in TaskCallType
    BY DEF TaskCallType, Stages, CallStatuses
  <2> QED
    BY <1>1, <2>1 DEF RequestApproval, TaskShape
<1>2. CASE TaskRecordDecision(c)
  <2>1. \/ \E stage \in Stages : Call(c, stage)
        \/ CallAs(c, "recording", "rejected")
    BY <1>2 DEF TaskRecordDecision, Stages
  <2>2. "recording" \in Stages /\ "rejected" \in CallStatuses
    BY DEF Stages, CallStatuses
  <2>3. /\ taskCalls' \in [TaskCalls -> TaskCallType]
        /\ \A d \in TaskCalls : d # c => taskCalls'[d] = taskCalls[d]
    BY <2>1, <2>2, CallMoves, CallMovesAs
  <2> QED
    BY <1>2, <2>3 DEF TaskRecordDecision, TaskShape
<1>3. CASE RunApprovedTask(c)
  <2>1. CASE Call(c, "ended")
    BY <1>3, <2>1, CallMoves DEF RunApprovedTask, Stages, TaskShape
  <2>2. CASE taskCalls' = [taskCalls EXCEPT ![c].at = "asking", ![c].running = TRUE]
    <3>1. [taskCalls[c] EXCEPT !.at = "asking", !.running = TRUE] \in TaskCallType
      BY DEF TaskShape, TaskCallType, Stages
    <3> QED
      BY <1>3, <2>2, <3>1 DEF RunApprovedTask, TaskShape
  <2> QED
    BY <1>3, <2>1, <2>2 DEF RunApprovedTask
<1>4. CASE RequestTaskApproval(c)
  <2>1. CASE Call(c, "completing") /\ UNCHANGED taskIndex
    BY <1>4, <2>1, CallMoves DEF RequestTaskApproval, Stages, TaskShape
  <2>2. CASE CallAs(c, "recording", "rejected") /\ SaveOutput(c, "rejected")
    BY <1>4, <2>2, CallMovesAs, OutputSaved DEF RequestTaskApproval, Stages, CallStatuses, TaskShape
  <2>3. CASE Call(c, "ended") /\ SaveThrows
    BY <1>4, <2>3, CallMoves, SaveThrown DEF RequestTaskApproval, Stages, TaskShape
  <2> QED
    BY <1>4, <2>1, <2>2, <2>3 DEF RequestTaskApproval
<1>5. CASE Complete(c)
  <2>1. CASE RecordInteraction(c) /\ Call(c, "saving") /\ UNCHANGED <<taskIndex, unsettled>>
    BY <1>5, <2>1, CallMoves DEF Complete, RecordInteraction, Stages, TaskShape
  <2>2. CASE CatchFailure(c) /\ UNCHANGED logged
    BY <1>5, <2>2, Caught DEF Complete
  <2> QED
    BY <1>5, <2>1, <2>2 DEF Complete, InteractionRefused
<1>6. CASE SaveCompleted(c)
  <2>1. CASE SaveOutput(c, "completed") /\ Call(c, "drafting") /\ UNCHANGED unsettled
    BY <1>6, <2>1, CallMoves, OutputSaved DEF SaveCompleted, Stages, TaskShape
  <2>2. CASE CatchFailure(c)
    BY <1>6, <2>2, Caught DEF SaveCompleted
  <2> QED
    BY <1>6, <2>1, <2>2 DEF SaveCompleted
<1>7. CASE GenerateRlhfEntry(c)
  <2>1. CASE /\ taskDrafts' = taskDrafts \union {c} /\ SaveOutput(c, "completed")
             /\ CallAs(c, "recording", "completed") /\ UNCHANGED unsettled
    BY <1>7, <2>1, CallMovesAs, OutputSaved DEF GenerateRlhfEntry, Stages, CallStatuses, TaskShape
  <2>2. CASE taskDrafts' \in {taskDrafts, taskDrafts \union {c}} /\ CatchFailure(c)
    BY <1>7, <2>2, Caught DEF GenerateRlhfEntry
  <2> QED
    BY <1>7, <2>1, <2>2 DEF GenerateRlhfEntry
<1>8. CASE RecordInLedger(c)
  <2>1. CASE Kept(c, "ledger") /\ Call(c, "ingesting") /\ UNCHANGED <<taskIndex, unsettled>>
    BY <1>8, <2>1, CallMoves DEF RecordInLedger, Kept, Stages, TaskShape
  <2>2. CASE CannotRecord(c) /\ UNCHANGED executions
    BY <1>8, <2>2, NotRecorded DEF RecordInLedger
  <2> QED
    BY <1>8, <2>1, <2>2 DEF RecordInLedger
<1>9. CASE RecordInIngestion(c)
  <2>1. CASE Kept(c, "ingestion") /\ Call(c, "ended") /\ UNCHANGED <<taskIndex, unsettled>>
    BY <1>9, <2>1, CallMoves DEF RecordInIngestion, Kept, Stages, TaskShape
  <2>2. CASE CannotRecord(c) /\ executions \subseteq executions'
    BY <1>9, <2>2, NotRecorded DEF RecordInIngestion
  <2> QED
    BY <1>9, <2>1, <2>2 DEF RecordInIngestion, Kept
<1> QED
  BY <1>1, <1>2, <1>3, <1>4, <1>5, <1>6, <1>7, <1>8, <1>9 DEF RunLegacyTask, ExecuteTask

LEMMA TaskShapeInit == TaskInit => TaskShape
BY DEF TaskInit, TaskShape, TaskCallType, IndexType, Stages, CallStatuses

\* A restart ends every call that runs.
LEMMA RestartEnds ==
  ASSUME TaskShape, TaskRestart
  PROVE  /\ TaskShape'
         /\ UNCHANGED <<logged, taskDrafts, executions>>
         /\ \A t \in Tasks : taskIndex'[t] \in {taskIndex[t], NoEntry}
         /\ unsettled \subseteq unsettled'
         /\ \A d \in TaskCalls : /\ ~Running(d)'
                                 /\ Running(d) => TaskOf(d) \in unsettled'
                                 /\ ~Running(d) => taskCalls'[d] = taskCalls[d]
                                 /\ taskCalls'[d].task = taskCalls[d].task
<1>1. /\ taskCalls' = [c \in TaskCalls |-> IF Running(c) THEN [taskCalls[c] EXCEPT !.at = "ended"] ELSE taskCalls[c]]
      /\ UNCHANGED <<logged, taskDrafts, executions>> /\ SaveThrows
      /\ unsettled' = unsettled \union {TaskOf(c) : c \in {d \in TaskCalls : Running(d)}}
  BY DEF TaskRestart, SaveThrows
<1>2. \A d \in TaskCalls :
        /\ taskCalls[d] \in TaskCallType
        /\ [taskCalls[d] EXCEPT !.at = "ended"] \in TaskCallType
        /\ [taskCalls[d] EXCEPT !.at = "ended"].at = "ended"
        /\ [taskCalls[d] EXCEPT !.at = "ended"].task = taskCalls[d].task
  BY DEF TaskShape, TaskCallType, Stages
<1>3. taskCalls' \in [TaskCalls -> TaskCallType]
  BY <1>1, <1>2
<1>4. \A d \in TaskCalls : ~Running(d)' /\ taskCalls'[d].task = taskCalls[d].task
  BY <1>1, <1>2 DEF Running
<1> QED
  BY <1>1, <1>3, <1>4, SaveThrown DEF TaskShape

LEMMA TaskShapeStep == TaskShape /\ [TaskNext]_taskVars => TaskShape'
<1>1. UNCHANGED taskVars /\ TaskShape => TaskShape'
  BY DEF taskVars, TaskShape
<1>2. BreakerTimeout /\ TaskShape => TaskShape'
  BY BreakerKeeps DEF TaskShape
<1> QED
  BY <1>1, <1>2, CallSteps, RestartEnds DEF TaskNext
-----------------------------------------------------------------------------
(* What is made of a response is logged.                                    *)

LogInv ==
  /\ taskDrafts \subseteq logged
  /\ \A c \in TaskCalls : taskCalls[c].at \in {"saving", "drafting"} => c \in logged
  /\ \A t \in Tasks : taskIndex[t].status = "completed" => taskIndex[t].of \in logged

\* What a step of one call has to respect, the others doing nothing.
LEMMA LogKept ==
  ASSUME TaskShape, LogInv, NEW c \in TaskCalls, StepOf(c),
         taskDrafts' \subseteq taskDrafts \union {c}, c \in taskDrafts' => c \in logged',
         taskCalls'[c].at \in {"saving", "drafting"} => c \in logged',
         \A t \in Tasks : taskIndex'[t] # taskIndex[t] /\ taskIndex'[t].status = "completed"
                           => c \in logged'
  PROVE  LogInv'
<1>1. taskDrafts' \subseteq logged'
  BY DEF LogInv, StepOf
<1>2. \A d \in TaskCalls : taskCalls'[d].at \in {"saving", "drafting"} => d \in logged'
  BY DEF LogInv, StepOf
<1>3. \A t \in Tasks : taskIndex'[t].status = "completed" => taskIndex'[t].of \in logged'
  BY DEF LogInv, StepOf
<1> QED
  BY <1>1, <1>2, <1>3 DEF LogInv

LEMMA LogCallStep ==
  ASSUME TaskShape, LogInv, NEW c \in TaskCalls, RunLegacyTask(c) \/ ExecuteTask(c)
  PROVE  LogInv'
<1>1. TaskShape' /\ StepOf(c)
  BY CallSteps
<1>2. ASSUME RunLegacyTask(c) \/ RequestTaskApproval(c)
      PROVE  /\ UNCHANGED <<taskDrafts, logged>>
             /\ taskCalls'[c].at \notin {"saving", "drafting"}
             /\ \A t \in Tasks : taskIndex'[t] \in {taskIndex[t], NoEntry} \/ taskIndex'[t].status = "rejected"
  <2>1. ASSUME NEW task \in Tasks, NEW confirm \in BOOLEAN, RequestApproval(c, task, confirm)
        PROVE  taskCalls'[c].at = "decided" /\ UNCHANGED <<taskDrafts, logged, taskIndex>>
    BY <2>1 DEF RequestApproval, TaskShape
  <2>2. ASSUME TaskRecordDecision(c)
        PROVE  /\ taskCalls'[c].at \in {"noted", "approved", "recording"}
               /\ UNCHANGED <<taskDrafts, logged, taskIndex>>
    BY <2>2, CallMoves, CallMovesAs DEF TaskRecordDecision, Stages, CallStatuses
  <2>3. ASSUME RunApprovedTask(c)
        PROVE  /\ taskCalls'[c].at \in {"asking", "ended"}
               /\ UNCHANGED <<taskDrafts, logged, taskIndex>>
    <3>1. CASE taskCalls' = [taskCalls EXCEPT ![c].at = "asking", ![c].running = TRUE]
      <4>1. taskCalls'[c] = [taskCalls[c] EXCEPT !.at = "asking", !.running = TRUE]
        BY <3>1 DEF TaskShape
      <4>2. taskCalls[c] \in TaskCallType
        BY DEF TaskShape
      <4>3. taskCalls'[c].at = "asking"
        BY <4>1, <4>2 DEF TaskCallType
      <4> QED
        BY <2>3, <4>3 DEF RunApprovedTask
    <3>2. CASE Call(c, "ended")
      BY <2>3, <3>2, CallMoves DEF RunApprovedTask, Stages
    <3> QED
      BY <2>3, <3>1, <3>2 DEF RunApprovedTask
  <2>4. ASSUME RequestTaskApproval(c)
        PROVE  /\ taskCalls'[c].at \in {"completing", "recording", "ended"}
               /\ UNCHANGED <<taskDrafts, logged>>
               /\ \A t \in Tasks : taskIndex'[t] \in {taskIndex[t], NoEntry} \/ taskIndex'[t].status = "rejected"
    <3>1. taskCalls'[c].at \in {"completing", "recording", "ended"}
      BY <2>4, CallMoves, CallMovesAs DEF RequestTaskApproval, Stages, CallStatuses
    <3>2. \A t \in Tasks : taskIndex'[t] \in {taskIndex[t], NoEntry} \/ taskIndex'[t].status = "rejected"
      <4>1. SaveOutput(c, "rejected") \/ SaveThrows \/ UNCHANGED taskIndex
        BY <2>4 DEF RequestTaskApproval
      <4> QED
        BY <4>1, OutputSaved, SaveThrown
    <3> QED
      BY <2>4, <3>1, <3>2 DEF RequestTaskApproval
  <2> QED
    BY <1>2, <2>1, <2>2, <2>3, <2>4 DEF RunLegacyTask
<1>3. CASE RunLegacyTask(c) \/ RequestTaskApproval(c)
  <2>1. c \in taskDrafts' => c \in logged'
    BY <1>2, <1>3 DEF LogInv
  <2> QED
    BY <1>1, <1>2, <1>3, <2>1, LogKept
<1>4. ASSUME CatchFailure(c)
      PROVE  /\ taskCalls'[c].at \notin {"saving", "drafting"}
             /\ \A t \in Tasks : taskIndex'[t] \in {taskIndex[t], NoEntry} \/ taskIndex'[t].status = "failed"
  <2>1. SaveOutput(c, "failed") \/ SaveThrows
    BY <1>4 DEF CatchFailure
  <2> QED
    BY <1>4, <2>1, Caught, OutputSaved, SaveThrown
<1>5. CASE Complete(c)
  <2>1. CASE RecordInteraction(c) /\ Call(c, "saving") /\ UNCHANGED taskIndex
    <3>1. c \in logged' /\ UNCHANGED taskDrafts
      BY <1>5, <2>1 DEF Complete, RecordInteraction
    <3> QED
      BY <1>1, <2>1, <3>1, LogKept
  <2>2. CASE CatchFailure(c) /\ UNCHANGED logged
    <3>1. UNCHANGED taskDrafts
      BY <1>5 DEF Complete
    <3>2. c \in taskDrafts' => c \in logged'
      BY <2>2, <3>1 DEF LogInv
    <3> QED
      BY <1>1, <1>4, <2>2, <3>1, <3>2, LogKept
  <2> QED
    BY <1>5, <2>1, <2>2 DEF Complete, InteractionRefused
<1>6. CASE SaveCompleted(c)
  <2>1. c \in logged' /\ UNCHANGED taskDrafts
    BY <1>6 DEF SaveCompleted, LogInv
  <2> QED
    BY <1>1, <2>1, LogKept
<1>7. CASE GenerateRlhfEntry(c)
  <2>1. c \in logged' /\ taskDrafts' \subseteq taskDrafts \union {c}
    BY <1>7 DEF GenerateRlhfEntry, LogInv
  <2> QED
    BY <1>1, <2>1, LogKept
<1>8. ASSUME RecordInLedger(c) \/ RecordInIngestion(c)
      PROVE  /\ UNCHANGED <<taskDrafts, logged>>
             /\ taskCalls'[c].at \notin {"saving", "drafting"}
             /\ \A t \in Tasks : taskIndex'[t] \in {taskIndex[t], NoEntry} \/ taskIndex'[t].status = "failed"
  <2>1. CASE CannotRecord(c)
    <3>1. CatchFailure(c) \/ (Call(c, "ended") /\ UNCHANGED taskIndex)
      BY <2>1 DEF CannotRecord
    <3>2. /\ taskCalls'[c].at \notin {"saving", "drafting"}
          /\ \A t \in Tasks : taskIndex'[t] \in {taskIndex[t], NoEntry} \/ taskIndex'[t].status = "failed"
      BY <1>4, <3>1, CallMoves DEF Stages
    <3> QED
      BY <1>8, <3>2 DEF RecordInLedger, RecordInIngestion
  <2>2. CASE \E stage \in {"ingesting", "ended"} : Call(c, stage) /\ UNCHANGED taskIndex
    <3>1. taskCalls'[c].at \in {"ingesting", "ended"}
      BY <2>2, CallMoves DEF Stages
    <3> QED
      BY <1>8, <2>2, <3>1 DEF RecordInLedger, RecordInIngestion
  <2> QED
    BY <1>8, <2>1, <2>2 DEF RecordInLedger, RecordInIngestion
<1>9. CASE RecordInLedger(c) \/ RecordInIngestion(c)
  <2>1. c \in taskDrafts' => c \in logged'
    BY <1>8, <1>9 DEF LogInv
  <2> QED
    BY <1>1, <1>8, <1>9, <2>1, LogKept
<1> QED
  BY <1>3, <1>5, <1>6, <1>7, <1>9 DEF ExecuteTask

LEMMA LogStep == TaskShape /\ LogInv /\ [TaskNext]_taskVars => LogInv'
<1>1. UNCHANGED taskVars /\ LogInv => LogInv'
  BY DEF taskVars, LogInv
<1>2. BreakerTimeout /\ LogInv => LogInv'
  BY BreakerKeeps DEF LogInv
<1>3. ASSUME TaskShape, LogInv, TaskRestart PROVE LogInv'
  <2>1. \A d \in TaskCalls : taskCalls'[d].at \in {"saving", "drafting"} => FALSE
    BY <1>3, RestartEnds DEF Running
  <2> QED
    BY <1>3, <2>1, RestartEnds DEF LogInv
<1> QED
  BY <1>1, <1>2, <1>3, LogCallStep DEF TaskNext

\* The log has what was logged, as long as no writing of it was cut off.
LogWhole == ~logTorn => logged = interactions

LEMMA LogWholeStep == LogWhole /\ [TaskNext]_taskVars => LogWhole'
<1> SUFFICES ASSUME LogWhole, [TaskNext]_taskVars, ~logTorn' PROVE (logged = interactions)'
  BY DEF LogWhole
<1>1. CASE UNCHANGED logVars
  BY <1>1 DEF LogWhole
<1>2. CASE \E c \in TaskCalls : RecordInteraction(c)
  BY <1>2 DEF RecordInteraction, LogWhole
<1>3. CASE InteractionRefused
  BY <1>3 DEF InteractionRefused, LoseLog, LogWhole
<1>4. CASE TaskRestart
  BY <1>4 DEF TaskRestart, LoseLog, LogWhole
<1>5. ASSUME NEW c \in TaskCalls, RunLegacyTask(c) \/ ExecuteTask(c), ~Complete(c) PROVE UNCHANGED logVars
  BY <1>5 DEF RunLegacyTask, RequestApproval, TaskRecordDecision, RunApprovedTask, ExecuteTask, RequestTaskApproval,
              SaveCompleted, GenerateRlhfEntry, RecordInLedger, RecordInIngestion
<1>6. ASSUME NEW c \in TaskCalls, Complete(c)
      PROVE  RecordInteraction(c) \/ InteractionRefused \/ UNCHANGED logVars
  BY <1>6 DEF Complete
<1> QED
  BY <1>1, <1>2, <1>3, <1>4, <1>5, <1>6 DEF TaskNext, BreakerTimeout, taskVars

\* No output and no draft is made of a response before the interaction log has it, and the
\* log keeps it unless a writing of the log was cut off, however many calls overlap, fail
\* and are cut short (complete, recordInteraction).
THEOREM ResponsesAreLoggedHolds == TaskSpec => []ResponsesAreLogged
<1>1. TaskInit => LogInv /\ LogWhole
  BY DEF TaskInit, LogInv, LogWhole
<1>2. LogInv /\ LogWhole => ResponsesAreLogged
  BY DEF LogInv, LogWhole, ResponsesAreLogged
<1> QED
  BY <1>1, <1>2, TaskShapeInit, TaskShapeStep, LogStep, LogWholeStep, PTL DEF TaskSpec
-----------------------------------------------------------------------------
(* A completed task is recorded.                                            *)

Completed(c, where) == [call |-> c, where |-> where, status |-> "completed"]

\* How far call c is that has saved the output of task t as completed.
Settling(t, c) ==
  /\ c \in TaskCalls /\ TaskOf(c) = t
  /\ taskCalls[c].at \in {"drafting", "recording", "ingesting", "ended"}
  /\ taskCalls[c].at # "drafting" => taskCalls[c].status = "completed" /\ c \in taskDrafts
  /\ taskCalls[c].at \in {"ingesting", "ended"} => Completed(c, "ledger") \in executions
  /\ taskCalls[c].at = "ended" => Completed(c, "ingestion") \in executions

\* An output is completed only while its call goes on towards the records, has
\* reached them, or was cut short.
RecordInv ==
  \A t \in Tasks : \A d :
    taskIndex[t].status = "completed" /\ t \notin unsettled /\ taskIndex[t].of = d => Settling(t, d)

LEMMA SettlingKept ==
  ASSUME NEW t \in Tasks, NEW d, Settling(t, d), taskCalls'[d] = taskCalls[d],
         taskDrafts \subseteq taskDrafts', executions \subseteq executions'
  PROVE  Settling(t, d)'
BY DEF Settling, TaskOf, Completed

\* What a step of one call has to respect, the others doing nothing.
LEMMA RecordKept ==
  ASSUME TaskShape, RecordInv, NEW c \in TaskCalls, StepOf(c),
         \A t \in Tasks : /\ taskIndex'[t].status = "completed" /\ t \notin unsettled'
                          /\ taskIndex'[t].of = c
                          => Settling(t, c)'
  PROVE  RecordInv'
<1> SUFFICES ASSUME NEW t \in Tasks, taskIndex'[t].status = "completed", t \notin unsettled',
                    NEW d, taskIndex'[t].of = d
             PROVE  Settling(t, d)'
  BY DEF RecordInv
<1>1. CASE d = c
  BY <1>1
<1>2. CASE d # c
  <2>1. taskIndex'[t] = taskIndex[t] /\ t \notin unsettled
    BY <1>2 DEF StepOf
  <2>2. Settling(t, d)
    BY <2>1 DEF RecordInv
  <2>3. taskCalls'[d] = taskCalls[d] /\ taskDrafts \subseteq taskDrafts' /\ executions \subseteq executions'
    BY <1>2, <2>1, <2>2 DEF StepOf, Settling
  <2>4. Settling(t, d)'
    BY <2>2, <2>3, SettlingKept
  <2> QED
    BY <2>4
<1> QED
  BY <1>1, <1>2

LEMMA RecordCallStep ==
  ASSUME TaskShape, RecordInv, NEW c \in TaskCalls, RunLegacyTask(c) \/ ExecuteTask(c)
  PROVE  RecordInv'
<1>1. TaskShape' /\ StepOf(c)
  BY CallSteps
<1>2. SUFFICES ASSUME NEW t \in Tasks, taskIndex'[t].status = "completed", t \notin unsettled',
                      taskIndex'[t].of = c
               PROVE  Settling(t, c)'
  BY <1>1, RecordKept
<1>3. t \notin unsettled
  BY <1>1, <1>2 DEF StepOf
<1>4. taskIndex[t] = taskIndex'[t] => Settling(t, c)
  BY <1>2, <1>3 DEF RecordInv
<1>5. taskIndex[t] # taskIndex'[t] => t = TaskOf(c)
  BY <1>1, <1>2 DEF StepOf
<1>6. t = TaskOf(c)
  BY <1>4, <1>5 DEF Settling
<1>7. CatchFailure(c) => FALSE
  BY <1>2, <1>6, Caught
<1>8. ASSUME RunLegacyTask(c) \/ RequestTaskApproval(c) PROVE FALSE
  <2>1. taskCalls[c].at \in {"idle", "decided", "noted", "approved", "asking"}
    BY <1>8 DEF RunLegacyTask, RequestApproval, TaskRecordDecision, RunApprovedTask, RequestTaskApproval
  <2>2. taskIndex[t] # taskIndex'[t]
    BY <1>4, <2>1 DEF Settling
  <2>3. CASE RunLegacyTask(c)
    BY <2>2, <2>3 DEF RunLegacyTask, RequestApproval, TaskRecordDecision, RunApprovedTask
  <2>4. CASE RequestTaskApproval(c)
    <3>1. SaveOutput(c, "rejected") \/ SaveThrows
      BY <2>2, <2>4 DEF RequestTaskApproval
    <3> QED
      BY <1>2, <1>6, <2>2, <3>1, OutputSaved, SaveThrown
  <2> QED
    BY <1>8, <2>3, <2>4
<1>9. ASSUME Complete(c) PROVE FALSE
  <2>1. taskCalls[c].at = "completing" /\ UNCHANGED taskIndex
    BY <1>7, <1>9 DEF Complete
  <2> QED
    BY <1>4, <2>1 DEF Settling
<1>10. CASE SaveCompleted(c)
  <2>1. Call(c, "drafting")
    BY <1>7, <1>10 DEF SaveCompleted
  <2>2. taskCalls'[c].at = "drafting" /\ taskCalls'[c].task = taskCalls[c].task
    BY <2>1, CallMoves DEF Stages
  <2> QED
    BY <1>6, <2>2 DEF Settling, TaskOf
<1>11. CASE GenerateRlhfEntry(c)
  <2>1. CallAs(c, "recording", "completed") /\ c \in taskDrafts'
    BY <1>7, <1>11 DEF GenerateRlhfEntry
  <2>2. /\ taskCalls'[c].at = "recording" /\ taskCalls'[c].task = taskCalls[c].task
        /\ taskCalls'[c].status = "completed"
    BY <2>1, CallMovesAs DEF Stages, CallStatuses
  <2> QED
    BY <1>6, <2>1, <2>2 DEF Settling, TaskOf
<1>12. ASSUME RecordInLedger(c) \/ RecordInIngestion(c)
       PROVE  /\ ~CannotRecord(c) /\ Settling(t, c) /\ taskCalls[c].status = "completed"
              /\ taskCalls[c].at \in {"recording", "ingesting"}
  <2>1. taskCalls[c].at \in {"recording", "ingesting"}
    BY <1>12 DEF RecordInLedger, RecordInIngestion
  <2>2. taskIndex'[t] = taskIndex[t]
    <3>1. CASE CannotRecord(c)
      BY <1>2, <3>1, NotRecorded
    <3>2. CASE ~CannotRecord(c)
      BY <1>12, <3>2 DEF RecordInLedger, RecordInIngestion
    <3> QED
      BY <3>1, <3>2
  <2>3. Settling(t, c) /\ taskCalls[c].status = "completed"
    BY <1>4, <2>1, <2>2 DEF Settling
  <2>4. ~CannotRecord(c)
    BY <1>2, <1>6, <2>3, NotRecorded
  <2> QED
    BY <2>1, <2>3, <2>4
<1>13. CASE RecordInLedger(c)
  <2>1. Kept(c, "ledger") /\ Call(c, "ingesting") /\ UNCHANGED taskDrafts
    BY <1>12, <1>13 DEF RecordInLedger
  <2>2. Completed(c, "ledger") \in executions'
    BY <1>12, <1>13, <2>1 DEF Kept, Completed
  <2>3. /\ taskCalls'[c].at = "ingesting" /\ taskCalls'[c].task = taskCalls[c].task
        /\ taskCalls'[c].status = taskCalls[c].status
    BY <2>1, CallMoves DEF Stages
  <2>4. c \in taskDrafts'
    BY <1>12, <1>13, <2>1 DEF Settling, RecordInLedger
  <2> QED
    BY <1>6, <1>12, <1>13, <2>2, <2>3, <2>4 DEF Settling, TaskOf, Completed
<1>14. CASE RecordInIngestion(c)
  <2>1. Kept(c, "ingestion") /\ Call(c, "ended") /\ UNCHANGED taskDrafts
    BY <1>12, <1>14 DEF RecordInIngestion
  <2>2. Completed(c, "ingestion") \in executions' /\ Completed(c, "ledger") \in executions'
    <3>1. Completed(c, "ledger") \in executions
      BY <1>12, <1>14 DEF Settling, RecordInIngestion
    <3> QED
      BY <1>12, <1>14, <2>1, <3>1 DEF Kept, Completed
  <2>3. /\ taskCalls'[c].at = "ended" /\ taskCalls'[c].task = taskCalls[c].task
        /\ taskCalls'[c].status = taskCalls[c].status
    BY <2>1, CallMoves DEF Stages
  <2>4. c \in taskDrafts'
    BY <1>12, <1>14, <2>1 DEF Settling, RecordInIngestion
  <2> QED
    BY <1>6, <1>12, <1>14, <2>2, <2>3, <2>4 DEF Settling, TaskOf, Completed
<1> QED
  BY <1>8, <1>9, <1>10, <1>11, <1>13, <1>14 DEF ExecuteTask

LEMMA RecordStep == TaskShape /\ RecordInv /\ [TaskNext]_taskVars => RecordInv'
<1>1. UNCHANGED taskVars /\ RecordInv => RecordInv'
  BY DEF taskVars, RecordInv, Settling, TaskOf
<1>2. BreakerTimeout /\ RecordInv => RecordInv'
  BY BreakerKeeps DEF RecordInv, Settling, TaskOf
<1>3. ASSUME TaskShape, RecordInv, TaskRestart PROVE RecordInv'
  <2> SUFFICES ASSUME NEW t \in Tasks, taskIndex'[t].status = "completed", t \notin unsettled',
                      NEW d, taskIndex'[t].of = d
               PROVE  Settling(t, d)'
    BY DEF RecordInv
  <2>1. taskIndex'[t] = taskIndex[t] /\ t \notin unsettled /\ UNCHANGED <<taskDrafts, executions>>
    BY <1>3, RestartEnds
  <2>2. Settling(t, d)
    BY <1>3, <2>1 DEF RecordInv
  <2>3. ~Running(d)
    BY <1>3, <2>2, RestartEnds DEF Settling
  <2>4. taskCalls'[d] = taskCalls[d]
    BY <1>3, <2>2, <2>3, RestartEnds DEF Settling
  <2>5. Settling(t, d)'
    BY <2>1, <2>2, <2>4, SettlingKept
  <2> QED
    BY <2>5
<1> QED
  BY <1>1, <1>2, <1>3, RecordCallStep DEF TaskNext

\* When no call runs a task, an output that says completed has its draft and both of
\* its records, unless a restart or a failing save cut a call of it short: for every
\* number of overlapping calls (executeTask and its catch, recordTaskExecution).
THEOREM CompletedIsRecordedHolds == TaskSpec => []CompletedIsRecorded
<1>1. TaskInit => RecordInv
  BY DEF TaskInit, RecordInv
<1>2. RecordInv => CompletedIsRecorded
  <2> SUFFICES ASSUME RecordInv, NEW t \in Tasks, taskIndex[t].status = "completed", t \notin unsettled,
                      \A c \in TaskCalls : TaskOf(c) = t => ~Running(c)
               PROVE  /\ taskIndex[t].of \in taskDrafts
                      /\ \A where \in {"ledger", "ingestion"} : Completed(taskIndex[t].of, where) \in executions
    BY DEF CompletedIsRecorded, Completed
  <2> DEFINE c == taskIndex[t].of
  <2>1. Settling(t, c)
    BY DEF RecordInv
  <2>2. taskCalls[c].at = "ended"
    BY <2>1 DEF Settling, Running
  <2> QED
    BY <2>1, <2>2 DEF Settling
<1> QED
  BY <1>1, <1>2, TaskShapeInit, TaskShapeStep, RecordStep, PTL DEF TaskSpec

\* What the operations of the breaker leave is an entry again.
LEMMA TaskBreakerTypes ==
  ASSUME NEW e \in Breaker!Entry
  PROVE  /\ Breaker!CheckBeforeRequest(e) \in Breaker!Entry /\ Breaker!RecordSuccess(e) \in Breaker!Entry
         /\ Breaker!RecordFailure(e) \in Breaker!Entry /\ Released(e) \in Breaker!Entry
         /\ Breaker!NewEntry \in Breaker!Entry /\ [e EXCEPT !.elapsed = TRUE] \in Breaker!Entry
<1> USE TaskAssumption DEF Breaker!Entry, Breaker!Counts
<1>1. TaskFailures \in Nat /\ TaskFailures >= 1 /\ 0 \in 0..TaskFailures /\ TaskFailures \in 0..TaskFailures
  OBVIOUS
<1>2. Breaker!NewEntry \in Breaker!Entry
  BY <1>1 DEF Breaker!NewEntry
<1>3. Breaker!MoveOpenToHalfOpenIfReady(e) \in Breaker!Entry
  BY <1>1 DEF Breaker!MoveOpenToHalfOpenIfReady
<1>4. Breaker!CheckBeforeRequest(e) \in Breaker!Entry
  <2> DEFINE m == Breaker!MoveOpenToHalfOpenIfReady(e)
             lease == m.halfOpenInFlight \/ Breaker!TakesLease(e)
  <2>1. lease \in BOOLEAN
    BY Zenon
  <2>2. Breaker!CheckBeforeRequest(e) = [m EXCEPT !.halfOpenInFlight = lease]
    BY <1>3 DEF Breaker!CheckBeforeRequest
  <2>3. m \in Breaker!Entry
    BY <1>3
  <2> HIDE DEF m, lease
  <2> QED
    BY <2>1, <2>2, <2>3
<1>5. Breaker!RecordSuccess(e) \in Breaker!Entry
  <2>1. [e EXCEPT !.failureCount = 0, !.successCount = 0] \in Breaker!Entry
    BY <1>1
  <2>2. e.successCount + 1 \in Nat /\ e.successCount + 1 >= 1
    OBVIOUS
  <2>3. Breaker!RecordSuccess(e) \in {Breaker!NewEntry, e, [e EXCEPT !.failureCount = 0, !.successCount = 0]}
    BY <2>2 DEF Breaker!RecordSuccess
  <2> QED
    BY <1>2, <2>1, <2>3
<1>6. Breaker!Opened(e) \in Breaker!Entry
  BY <1>1 DEF Breaker!Opened
<1>7. Breaker!RecordFailure(e) \in Breaker!Entry
  <2>1. [Breaker!Opened(e) EXCEPT !.halfOpenInFlight = FALSE] \in Breaker!Entry
    BY <1>6
  <2>2. e.failureCount + 1 < TaskFailures => [e EXCEPT !.failureCount = @ + 1] \in Breaker!Entry
    BY <1>1
  <2>3. e.failureCount + 1 < TaskFailures \/ e.failureCount + 1 >= TaskFailures
    BY <1>1
  <2> QED
    BY <1>6, <2>1, <2>2, <2>3 DEF Breaker!RecordFailure
<1> QED
  BY <1>2, <1>4, <1>5, <1>7 DEF Released

LEMMA NewTaskEntry == Breaker!NewEntry \in Breaker!Entry
BY TaskAssumption DEF Breaker!NewEntry, Breaker!Entry, Breaker!Counts

TaskRest ==
  /\ receipts \subseteq TaskCalls /\ taskDrafts \subseteq TaskCalls
  /\ interactions \subseteq TaskCalls /\ logged \subseteq TaskCalls
  /\ unsettled \subseteq Tasks /\ taskBreaker \in Breaker!Entry
  /\ logRejects \in BOOLEAN /\ logTorn \in BOOLEAN /\ indexTorn \in BOOLEAN

LEMMA ATask == ASSUME TaskShape, NEW c \in TaskCalls PROVE TaskOf(c) \in Tasks
<1>1. NoTask \in Tasks
  BY TaskAssumption DEF NoTask
<1> QED
  BY <1>1 DEF TaskShape, TaskCallType, TaskOf

LEMMA LeavesEntry ==
  ASSUME TaskRest, NEW c \in TaskCalls, NEW ok \in BOOLEAN, LeaveBreaker(c, ok)
  PROVE  taskBreaker' \in Breaker!Entry
<1>1. /\ taskBreaker \in Breaker!Entry /\ Breaker!RecordSuccess(taskBreaker) \in Breaker!Entry
      /\ Breaker!RecordFailure(taskBreaker) \in Breaker!Entry
  BY TaskBreakerTypes DEF TaskRest
<1>2. \A e \in Breaker!Entry : Released(e) \in Breaker!Entry
  BY TaskBreakerTypes
<1> QED
  BY <1>1, <1>2 DEF LeaveBreaker

\* A saving of the output leaves the index whole or torn.
LEMMA SavedRest ==
  ASSUME TaskRest, NEW c, NEW status, SaveOutput(c, status) \/ SaveThrows
  PROVE  indexTorn' \in BOOLEAN
BY DEF SaveOutput, SaveThrows, LoseIndex, TaskRest

LEMMA CaughtRest ==
  ASSUME TaskShape, TaskRest, NEW c \in TaskCalls, CatchFailure(c)
  PROVE  taskBreaker' \in Breaker!Entry /\ unsettled' \subseteq Tasks /\ indexTorn' \in BOOLEAN
BY ATask, LeavesEntry, SavedRest DEF CatchFailure, TaskRest

LEMMA NotRecordedRest ==
  ASSUME TaskShape, TaskRest, NEW c \in TaskCalls, CannotRecord(c)
  PROVE  taskBreaker' \in Breaker!Entry /\ unsettled' \subseteq Tasks /\ indexTorn' \in BOOLEAN
BY CaughtRest, LeavesEntry DEF CannotRecord, TaskRest

LEMMA CallRest ==
  ASSUME TaskShape, TaskRest, NEW c \in TaskCalls, RunLegacyTask(c) \/ ExecuteTask(c)
  PROVE  TaskRest'
<1>1. CASE \E task \in Tasks, confirm \in BOOLEAN : RequestApproval(c, task, confirm)
  BY <1>1 DEF RequestApproval, TaskRest
<1>2. CASE TaskRecordDecision(c)
  BY <1>2 DEF TaskRecordDecision, TaskRest
<1>3. CASE RunApprovedTask(c)
  BY <1>3, TaskBreakerTypes DEF RunApprovedTask, TaskRest
<1>4. CASE RequestTaskApproval(c)
  BY <1>4, LeavesEntry, SavedRest DEF RequestTaskApproval, TaskRest
<1>5. CASE Complete(c)
  BY <1>5, CaughtRest DEF Complete, RecordInteraction, InteractionRefused, LoseLog, TaskRest
<1>6. CASE SaveCompleted(c)
  BY <1>6, CaughtRest, SavedRest DEF SaveCompleted, TaskRest
<1>7. CASE GenerateRlhfEntry(c)
  BY <1>7, CaughtRest, SavedRest DEF GenerateRlhfEntry, TaskRest
<1>8. CASE RecordInLedger(c)
  BY <1>8, NotRecordedRest DEF RecordInLedger, Kept, TaskRest
<1>9. CASE RecordInIngestion(c)
  <2>1. CASE LeaveBreaker(c, taskCalls[c].status # "failed") /\ UNCHANGED <<unsettled, indexTorn>>
    BY <1>9, <2>1, LeavesEntry DEF RecordInIngestion, TaskRest
  <2>2. CASE CannotRecord(c)
    BY <1>9, <2>2, NotRecordedRest DEF RecordInIngestion, TaskRest
  <2> QED
    BY <1>9, <2>1, <2>2 DEF RecordInIngestion
<1> QED
  BY <1>1, <1>2, <1>3, <1>4, <1>5, <1>6, <1>7, <1>8, <1>9 DEF RunLegacyTask, ExecuteTask

LEMMA TaskRestStep == TaskShape /\ TaskRest /\ [TaskNext]_taskVars => TaskRest'
<1>1. UNCHANGED taskVars /\ TaskRest => TaskRest'
  BY DEF taskVars, TaskRest
<1>2. BreakerTimeout /\ TaskRest => TaskRest'
  BY TaskBreakerTypes DEF BreakerTimeout, TaskRest
<1>3. ASSUME TaskShape, TaskRest, TaskRestart PROVE TaskRest'
  <2>1. receipts' = {} /\ taskBreaker' \in Breaker!Entry /\ logRejects' = FALSE
        /\ UNCHANGED <<logged, taskDrafts>>
    BY <1>3, NewTaskEntry DEF TaskRestart
  <2>2. unsettled' \subseteq Tasks
    BY <1>3, ATask DEF TaskRestart, TaskRest
  <2>3. logTorn' \in BOOLEAN /\ interactions' \subseteq TaskCalls /\ indexTorn' \in BOOLEAN
    BY <1>3 DEF TaskRestart, LoseLog, LoseIndex, TaskRest
  <2> QED
    BY <1>3, <2>1, <2>2, <2>3 DEF TaskRest
<1> QED
  BY <1>1, <1>2, <1>3, CallRest DEF TaskNext

\* The executions keep their types, and the entry of their breaker stays one that
\* circuit-breaker.js can hold.
THEOREM TaskTypes == TaskSpec => []TaskTypeOK
<1>1. TaskInit => TaskRest
  BY NewTaskEntry DEF TaskInit, TaskRest
<1>2. TaskShape /\ TaskRest => TaskTypeOK
  BY ATask DEF TaskShape, TaskCallType, TaskRest, TaskTypeOK, TaskOf
<1> QED
  BY <1>1, <1>2, TaskShapeInit, TaskShapeStep, TaskRestStep, PTL DEF TaskSpec
=============================================================================
