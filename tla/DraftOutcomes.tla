----------------------------- MODULE DraftOutcomes -----------------------------
(***************************************************************************)
(* The outcomes of submitted drafts (src/workflows/rlhf-outcomes): records *)
(* in the governance state, chained by hashes, with the head of the chain  *)
(* beside them, and an artifact file that mirrors them. A call checks the  *)
(* artifact against the head once in the life of its process, stores its   *)
(* record in a transaction, rewrites the artifact from a state it reads    *)
(* afterwards, and checks again. A truncated artifact is repaired only on  *)
(* an operator's call, which takes no lock and overlaps the others.        *)
(*                                                                         *)
(* The artifact is written to a temporary file and renamed. The name has   *)
(* the millisecond in it: two calls in one millisecond have one temporary  *)
(* file, and one of them may find itself writing the artifact.             *)
(*                                                                         *)
(* A chain hash is the sequence of the records it covers. The draft, its   *)
(* role and token checks and the kill switch are left out: they refuse a   *)
(* call before it reads or writes what is modelled here.                   *)
(***************************************************************************)
EXTENDS Naturals, Sequences, SequencesExt

CONSTANTS
  Recorders,    \* the calls that can overlap
  Keys,         \* idempotency keys
  Payloads,     \* what a record says of its draft
  MaxOutcomes,  \* bound on the records
  MaxDamages    \* bound on restarts, failing writes and truncated artifacts

VARIABLES
  records,      \* state.rlhfOutcomes.records
  chainHead,    \* state.rlhfOutcomes.chainHeadHash and chainHeadSequence
  outcomeLines, \* the lines of rlhf-outcomes.ndjson, and whether a half line follows them
  temps,        \* the temporary files, by the call whose millisecond they are named for
  checked,      \* startupIntegrityChecked
  recorders,    \* recorder -> its call
  damages

outcomeVars == <<records, chainHead, outcomeLines, temps, checked, recorders, damages>>

\* A call: what it is for, what it has read, the name it writes under and the file its
\* descriptor is of, which a rename can move from under the name.
OutcomeIdle == [stage |-> "idle", for |-> "record", key |-> "none", payload |-> "none",
                head |-> <<>>, read |-> <<>>, name |-> "none", open |-> "none"]
NoArtifact == [present |-> FALSE, torn |-> FALSE, lines |-> <<>>]
OutcomeEntry(record) == [key |-> record.key, payload |-> record.payload]
At(w, stage) == recorders[w].stage = stage
Goto(w, stage) == recorders' = [recorders EXCEPT ![w].stage = stage]
\* The call goes on, or ends, with nothing of what it has read.
Fresh(w, stage) == recorders' = [recorders EXCEPT ![w] = [OutcomeIdle EXCEPT !.stage = stage]]
-----------------------------------------------------------------------------
(* Chains *)

\* verifyOutcomeChain: each record carries the chain of those before it.
Linked(list) ==
  \A i \in DOMAIN list : list[i].previous = [j \in 1..(i - 1) |-> OutcomeEntry(list[j])]
ChainOf(list) == [j \in DOMAIN list |-> OutcomeEntry(list[j])]

\* verifyStateChainAnchor, and the strict reading of the file before it.
AnchoredAt(head) == ~outcomeLines.torn /\ Linked(outcomeLines.lines) /\ ChainOf(outcomeLines.lines) = head

OutcomeRecorded(key) == {i \in DOMAIN records : records[i].key = key}
-----------------------------------------------------------------------------
(* recordOutcome *)

OutcomeCall(w, key, payload) ==
  /\ At(w, "idle")
  /\ recorders' = [recorders EXCEPT ![w] =
       [OutcomeIdle EXCEPT !.stage = IF checked THEN "snapshot" ELSE "startup", !.key = key, !.payload = payload]]
  /\ UNCHANGED <<records, chainHead, outcomeLines, temps, checked, damages>>

\* verifyOutcomeChainIntegrity reads the state first, and the artifact after it.
ReadHead(w) ==
  /\ \E stage \in {"startup", "verify"} :
       /\ At(w, stage)
       /\ recorders' = [recorders EXCEPT
            ![w].stage = IF stage = "startup" THEN "startup artifact" ELSE "verify artifact",
            ![w].head = chainHead]
  /\ Linked(records) /\ chainHead = ChainOf(records)
  /\ UNCHANGED <<records, chainHead, outcomeLines, temps, checked, damages>>

\* An artifact that does not end at the head read refuses the call.
CheckStartup(w) ==
  /\ At(w, "startup artifact")
  /\ IF AnchoredAt(recorders[w].head)
       THEN checked' = TRUE /\ Goto(w, "snapshot")
       ELSE UNCHANGED checked /\ Fresh(w, "refused")
  /\ UNCHANGED <<records, chainHead, outcomeLines, temps, damages>>

\* A known key answers from the state read before the transaction: with the record,
\* or with a conflict when it says something else.
ReadSnapshot(w) ==
  /\ At(w, "snapshot")
  /\ LET known == OutcomeRecorded(recorders[w].key) IN
     \/ known = {} /\ recorders' = [recorders EXCEPT ![w].stage = "commit", ![w].head = chainHead]
     \/ /\ known # {}
        /\ Fresh(w, IF \E i \in known : records[i].payload = recorders[w].payload THEN "answered" ELSE "conflict")
  /\ UNCHANGED <<records, chainHead, outcomeLines, temps, checked, damages>>

\* A transaction that trusts the look-up made before it.
KnownInTransaction_Trusted(key) == {}

KnownInTransaction(key) == OutcomeRecorded(key)

\* A record chained to the head as it was when the call looked first.
PreviousChain_AsRead(w) == recorders[w].head

PreviousChain(w) == chainHead

\* The transaction: the key is looked up again, the record chained to the head.
OutcomeCommit(w) ==
  /\ At(w, "commit")
  /\ LET call == recorders[w]
         known == KnownInTransaction(call.key) IN
     \/ /\ known # {}
        /\ Fresh(w, IF \E i \in known : records[i].payload = call.payload THEN "refresh" ELSE "conflict")
        /\ UNCHANGED <<records, chainHead>>
     \/ /\ known = {}
        /\ Len(records) < MaxOutcomes
        /\ records' = Append(records, [key |-> call.key, payload |-> call.payload, previous |-> PreviousChain(w)])
        /\ chainHead' = Append(PreviousChain(w), OutcomeEntry(call))
        /\ Fresh(w, "refresh")
  /\ UNCHANGED <<outcomeLines, temps, checked, damages>>

OutcomeRefresh(w) ==
  /\ At(w, "refresh")
  /\ recorders' = [recorders EXCEPT ![w] = [OutcomeIdle EXCEPT !.stage = "write", !.read = records]]
  /\ UNCHANGED <<records, chainHead, outcomeLines, temps, checked, damages>>

-----------------------------------------------------------------------------
(* writeAtomic, which every rewriting of the artifact goes through *)

\* Both files are whole or cut off where they end, and the one is the start of the other:
\* written over each other, in place, they give the longer one.
Overlaid(file, body) ==
  IF Len(file.lines) > Len(body.lines) THEN file
  ELSE [present |-> TRUE, lines |-> body.lines,
        torn |-> body.torn \/ (file.torn /\ Len(file.lines) = Len(body.lines))]

Writing(v) == recorders[v].stage \in {"opened", "written"}

\* The file is made or emptied, under the name of the millisecond: its own, or that of
\* a call that is writing.
OpenTemp(w, v) ==
  /\ At(w, "write")
  /\ v = w \/ Writing(v)
  /\ LET name == IF v = w THEN w ELSE recorders[v].name IN
     /\ recorders' = [recorders EXCEPT ![w].stage = "opened", ![w].name = name, ![w].open = "temp"]
     /\ temps' = [temps EXCEPT ![name] = [NoArtifact EXCEPT !.present = TRUE]]
  /\ UNCHANGED <<records, chainHead, outcomeLines, checked, damages>>

\* The last record appended to the lines that are there.
Lines_Appended(w) ==
  LET read == recorders[w].read IN
  IF read = <<>> THEN outcomeLines.lines ELSE Append(outcomeLines.lines, Last(read))

\* The file is replaced by the records read, a later one's included or not.
Lines(w) == recorders[w].read

\* The whole, or a part of it when the writing fails: into the file that was opened,
\* wherever that is now.
WriteTemp(w) ==
  /\ At(w, "opened")
  /\ \E whole \in BOOLEAN, torn \in BOOLEAN, n \in 0..Len(Lines(w)) :
       LET body == [present |-> TRUE, torn |-> torn, lines |-> SubSeq(Lines(w), 1, n)] IN
       /\ \/ whole /\ n = Len(Lines(w)) /\ ~torn /\ Goto(w, "written") /\ UNCHANGED damages
          \/ /\ ~whole /\ n < Len(Lines(w)) /\ damages < MaxDamages
             /\ damages' = damages + 1 /\ Fresh(w, "failed")
       /\ outcomeLines' = IF recorders[w].open = "artifact" THEN Overlaid(outcomeLines, body) ELSE outcomeLines
       /\ temps' = IF recorders[w].open = "temp" THEN [temps EXCEPT ![recorders[w].name] = Overlaid(@, body)]
                   ELSE temps
  /\ UNCHANGED <<records, chainHead, checked>>

\* What a call that has a file open is left with when the artifact is replaced by the
\* temporary file of that name, or by none.
Moved(call, name) ==
  IF call.stage # "opened" THEN call
  ELSE IF call.open = "artifact" THEN [call EXCEPT !.open = "gone"]
  ELSE IF call.open = "temp" /\ call.name = name THEN [call EXCEPT !.open = "artifact"]
  ELSE call

\* Another call's rename may have taken the file. A repair that has written a missing
\* artifact lets the calls in at once.
RenameTemp(w) ==
  /\ At(w, "written")
  /\ LET name == recorders[w].name
         restoring == recorders[w].for = "restore"
     IN  \/ /\ temps[name].present
            /\ outcomeLines' = temps[name]
            /\ temps' = [temps EXCEPT ![name] = NoArtifact]
            /\ checked' = (checked \/ restoring)
            /\ recorders' = [v \in Recorders |->
                 IF v = w THEN [OutcomeIdle EXCEPT !.stage = IF restoring THEN "answered" ELSE "verify",
                                                   !.for = recorders[w].for]
                 ELSE Moved(recorders[v], name)]
         \/ ~temps[name].present /\ Fresh(w, "failed") /\ UNCHANGED <<outcomeLines, temps, checked>>
  /\ UNCHANGED <<records, chainHead, damages>>

\* The call answers only when the artifact ends at the head read after writing it: a
\* repair that finds it so lets the calls in.
Verify(w) ==
  /\ At(w, "verify artifact")
  /\ LET anchored == AnchoredAt(recorders[w].head) IN
     /\ Fresh(w, IF anchored THEN "answered" ELSE "failed")
     /\ checked' = (checked \/ (anchored /\ recorders[w].for = "repair"))
  /\ UNCHANGED <<records, chainHead, outcomeLines, temps, damages>>

\* The caller takes the answer; a refused or failed call may be made again.
TakeAnswer(w) ==
  /\ recorders[w].stage \in {"answered", "conflict", "refused", "failed"}
  /\ recorders' = [recorders EXCEPT ![w] = OutcomeIdle]
  /\ UNCHANGED <<records, chainHead, outcomeLines, temps, checked, damages>>
-----------------------------------------------------------------------------
(* Damage and repair *)

\* The process ends: calls are lost with it, and the next one checks the artifact again.
\* The temporary files it leaves have its pid in their names, and nobody reads them.
OutcomeRestart ==
  /\ damages < MaxDamages
  /\ damages' = damages + 1
  /\ recorders' = [w \in Recorders |-> OutcomeIdle]
  /\ checked' = FALSE
  /\ temps' = [w \in Recorders |-> NoArtifact]
  /\ UNCHANGED <<records, chainHead, outcomeLines>>

\* Outside the program, the file loses its end, a half record more is left at it, or
\* the file is removed.
Damage ==
  /\ damages < MaxDamages
  /\ damages' = damages + 1
  /\ outcomeLines.present
  /\ \/ /\ outcomeLines.lines # <<>> /\ outcomeLines' = [outcomeLines EXCEPT !.torn = TRUE, !.lines = Front(@)]
        /\ UNCHANGED recorders
     \/ outcomeLines' = [outcomeLines EXCEPT !.torn = TRUE] /\ UNCHANGED recorders
     \/ outcomeLines' = NoArtifact /\ recorders' = [v \in Recorders |-> Moved(recorders[v], "none")]
  /\ UNCHANGED <<records, chainHead, temps, checked>>

\* repairOutcomeArtifactTail reads the state, then the artifact.
RepairArtifact(w) ==
  /\ At(w, "idle")
  /\ recorders' = [recorders EXCEPT ![w] = [OutcomeIdle EXCEPT !.stage = "examine", !.for = "repair", !.read = records]]
  /\ UNCHANGED <<records, chainHead, outcomeLines, temps, checked, damages>>

\* A missing artifact is written from the state read before, a torn one loses the torn
\* line, a whole one is only verified.
ExamineArtifact(w) ==
  /\ At(w, "examine")
  /\ \/ ~outcomeLines.present /\ recorders' = [recorders EXCEPT ![w].stage = "write", ![w].for = "restore"]
     \/ /\ outcomeLines.torn
        /\ recorders' = [recorders EXCEPT ![w].stage = "write", ![w].read = outcomeLines.lines]
     \/ /\ outcomeLines.present /\ ~outcomeLines.torn
        /\ recorders' = [recorders EXCEPT ![w].stage = "verify", ![w].read = <<>>]
  /\ UNCHANGED <<records, chainHead, outcomeLines, temps, checked, damages>>
-----------------------------------------------------------------------------
OutcomeInit ==
  /\ records = <<>>
  /\ chainHead = <<>>
  /\ outcomeLines = NoArtifact /\ temps = [w \in Recorders |-> NoArtifact]
  /\ checked = FALSE
  /\ recorders = [w \in Recorders |-> OutcomeIdle]
  /\ damages = 0

OutcomeNext ==
  \/ \E w \in Recorders, key \in Keys, payload \in Payloads : OutcomeCall(w, key, payload)
  \/ \E w \in Recorders :
       \/ ReadHead(w) \/ CheckStartup(w) \/ ReadSnapshot(w) \/ OutcomeCommit(w)
       \/ OutcomeRefresh(w) \/ (\E v \in Recorders : OpenTemp(w, v)) \/ WriteTemp(w) \/ RenameTemp(w)
       \/ Verify(w) \/ TakeAnswer(w) \/ RepairArtifact(w) \/ ExamineArtifact(w)
  \/ OutcomeRestart \/ Damage

OutcomeSpec == OutcomeInit /\ [][OutcomeNext]_outcomeVars
-----------------------------------------------------------------------------
(* Properties *)

OutcomeTypeOK ==
  /\ \A i \in DOMAIN records : records[i].key \in Keys /\ records[i].payload \in Payloads
  /\ chainHead \in Seq([key : Keys, payload : Payloads])
  /\ DOMAIN outcomeLines = {"present", "torn", "lines"}
  /\ checked \in BOOLEAN
  /\ \A w \in Recorders : recorders[w].key \in Keys \cup {"none"}

\* Calls that overlap store a key once, and the chain is unbroken up to its head
\* (outcome-capture.js, recordOutcome).
OneRecordPerKey ==
  /\ \A i, j \in DOMAIN records : records[i].key = records[j].key => i = j
  /\ Linked(records) /\ chainHead = ChainOf(records)

\* The artifact never holds anything but the first records, whatever calls and repairs
\* overlap, two of them writing one file included, and whatever the process or the file
\* lose (reconcileArtifactFromState, repairOutcomeArtifactTail, writeAtomic).
ArtifactIsPrefix == IsPrefix(outcomeLines.lines, records)
=============================================================================
