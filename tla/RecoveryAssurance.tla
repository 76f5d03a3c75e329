-------------------------- MODULE RecoveryAssurance --------------------------
(***************************************************************************)
(* src/workflows/recovery-assurance: checkpoints of the evidence files     *)
(* (checkpoint-coordinator.js), the manifests built from them              *)
(* (backup-manifest-manager.js) and their later verification against the   *)
(* files (backup-integrity-verifier.js).  Files and stored manifests       *)
(* change between those calls.  A hash is the value it is taken of.        *)
(***************************************************************************)
EXTENDS Naturals, Sequences, SequencesExt

CONSTANTS
  EvidenceFiles,    \* the evidence files of a checkpoint
  Contents,         \* what a file may contain
  MaxCheckpoints,   \* bound: checkpoints
  MaxManifests,     \* bound: manifests
  MaxFileChanges    \* bound: changes of a file, and of a stored manifest

ASSUME RecoveryAssumption == MaxFileChanges \in Nat

VARIABLES
  files,          \* file -> its content, or "absent"
  checkpoints,    \* [artifacts, prev]
  manifests,      \* [checkpoint, checkpointHash, artifacts, prev, hash]
  fileChanges

recoveryVars == <<files, checkpoints, manifests, fileChanges>>

Artifacts == UNION {[present -> Contents] : present \in SUBSET EvidenceFiles}

RecoveryTypeOK ==
  /\ files \in [EvidenceFiles -> Contents \cup {"absent"}]
  /\ \A i \in DOMAIN checkpoints : checkpoints[i].artifacts \in Artifacts /\ checkpoints[i].prev \in 0..(i - 1)
  /\ \A i \in DOMAIN manifests : manifests[i].artifacts \in Artifacts /\ manifests[i].prev \in 0..(i - 1)
                                 /\ manifests[i].checkpoint \in DOMAIN checkpoints
  /\ fileChanges \in 0..MaxFileChanges

RecoveryInit ==
  /\ files \in [EvidenceFiles -> Contents \cup {"absent"}]
  /\ checkpoints = <<>> /\ manifests = <<>> /\ fileChanges = 0
-----------------------------------------------------------------------------
\* A file that is absent is left out without a word.
ReadArtifacts == [f \in {g \in EvidenceFiles : files[g] # "absent"} |-> files[f]]

\* The caller names the checkpoint before it, or none.
CreateCheckpoint ==
  /\ Len(checkpoints) < MaxCheckpoints
  /\ \E prev \in {0, Len(checkpoints)} :
       checkpoints' = Append(checkpoints, [artifacts |-> ReadArtifacts, prev |-> prev])
  /\ UNCHANGED <<files, manifests, fileChanges>>

StripManifestHashes_NoArtifacts(m) == <<m.checkpointHash, m.prev>>
StripManifestHashes(m) == <<m.checkpointHash, m.artifacts, m.prev>>

\* The hash and the chain hash are both taken of the body.
BuildBackupManifest ==
  /\ Len(manifests) < MaxManifests
  /\ \E c \in DOMAIN checkpoints, prev \in {0, Len(manifests)} :
       LET body == [checkpoint |-> c, checkpointHash |-> checkpoints[c],
                    artifacts |-> checkpoints[c].artifacts, prev |-> prev]
       IN manifests' = Append(manifests, [checkpoint |-> c, checkpointHash |-> checkpoints[c],
                                 artifacts |-> body.artifacts, prev |-> prev,
                                 hash |-> StripManifestHashes(body)])
  /\ UNCHANGED <<files, checkpoints, fileChanges>>

ArtifactIntact_IfPresent(m, f) == files[f] \in {m.artifacts[f], "absent"}
ArtifactIntact(m, f) == files[f] = m.artifacts[f]

\* Valid when there is no violation: its own hash, the hash of the checkpoint it
\* is given, and every artifact present and unchanged.
VerifyBackupIntegrity(m, c) ==
  /\ m.hash = StripManifestHashes(m)
  /\ m.checkpointHash = checkpoints[c]
  /\ \A f \in DOMAIN m.artifacts : ArtifactIntact(m, f)

\* A file is written or removed, or a stored manifest is edited.
ChangeFiles ==
  /\ fileChanges < MaxFileChanges /\ fileChanges' = fileChanges + 1
  /\ \/ \E f \in EvidenceFiles, content \in Contents \cup {"absent"} :
          /\ files' = [files EXCEPT ![f] = content]
          /\ UNCHANGED manifests
     \/ \E i \in DOMAIN manifests, artifacts \in Artifacts :
          /\ manifests' = [manifests EXCEPT ![i].artifacts = artifacts]
          /\ UNCHANGED files
  /\ UNCHANGED checkpoints

RecoveryNext == CreateCheckpoint \/ BuildBackupManifest \/ ChangeFiles
RecoverySpec == RecoveryInit /\ [][RecoveryNext]_recoveryVars
-----------------------------------------------------------------------------
\* A manifest verifies against a checkpoint exactly when every file that the
\* checkpoint saw is there as the checkpoint saw it and the manifest is the one
\* that was built, whatever was changed in between and even if the files were
\* changed and changed back (verifyBackupIntegrity).
VerifiedIsUnchanged ==
  \A i \in DOMAIN manifests, c \in DOMAIN checkpoints :
    VerifyBackupIntegrity(manifests[i], c)
    <=> /\ checkpoints[c] = checkpoints[manifests[i].checkpoint]
        /\ manifests[i].artifacts = checkpoints[c].artifacts
        /\ \A f \in DOMAIN checkpoints[c].artifacts : files[f] = checkpoints[c].artifacts[f]
=============================================================================
