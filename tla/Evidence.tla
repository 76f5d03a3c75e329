------------------------------- MODULE Evidence -------------------------------
(***************************************************************************)
(* The evidence kept after an offer is exported, of one kind:              *)
(* submission-evidence-manager.js and -ledger.js, or their delivery twins. *)
(* In the directory of the bundle it keeps two append-only stores, the     *)
(* export events and the ledger of outcomes, attachments and a lock file.  *)
(* The snapshots derived from the stores are for people: no code reads     *)
(* them, so here writing them is a step without a content.                 *)
(*                                                                         *)
(* Every command is a process of its own: a call may interleave with the   *)
(* others at each file operation, and may end between any two of them.     *)
(***************************************************************************)
EXTENDS ReleaseBundle, Sequences

CONSTANTS
  Kind,        \* "submission" or "delivery"
  Targets,     \* the approved targets of the offer
  Procs,       \* the commands that may run at a time
  NoProc,      \* the lock file does not exist
  Ended,       \* the lock file of a process that has ended
  Keys,        \* idempotency keys
  NoKey,
  Payloads,    \* what an outcome carries: the files, external_ref and notes
  FilePayloads,\* those with a file
  Reported,    \* bound: the outcomes that operators report
  MaxEvents,   \* max_total_evidence_events_per_offer
  MaxExports,  \* bound: export events
  MaxOutcomes, \* bound: outcome calls
  MaxVerifies, \* bound: verify calls
  MaxCrashes   \* bound: processes that end before they return

ASSUME EvidenceAssumption ==
  Kind \in {"submission", "delivery"} /\ NoProc \notin Procs /\ NoContent \notin Contents

VARIABLES
  call,       \* what each process is doing
  exports,    \* export-events.json: [hash, targets]
  ledger,     \* ledger.json: [key, target, from, to, hash, payload, seq]
  files,      \* attachments: [seq, target, payload, intact]
  lock,       \* the lock file of the directory: who made it
  verified,   \* verify-status.json: how many events of each store
  outcomes, verifies, crashes

storeVars == <<exports, ledger, files, lock, verified>>
countVars == <<outcomes, verifies, crashes>>
evidenceVars == <<storeVars, call, countVars, bundleVars>>

Nothing == [exports |-> 0, events |-> 0]
Heads == [exports |-> Len(exports), events |-> Len(ledger)]

Idle == [at |-> "idle", op |-> "none", kind |-> "none", key |-> NoKey, target |-> NoKey, to |-> "none",
         payload |-> NoKey, hash |-> NoContent, base |-> <<>>, seen |-> Nothing]

StoresInit ==
  /\ exports = <<>> /\ ledger = <<>> /\ files = {} /\ lock = NoProc
  /\ verified = Nothing

EvidenceInit ==
  /\ BundleInit /\ StoresInit
  /\ call = [p \in Procs |-> Idle]
  /\ outcomes = 0 /\ verifies = 0 /\ crashes = 0
-----------------------------------------------------------------------------
(* manual-fulfillment-state-machine.js and manual-delivery-state-machine.js *)

SubmissionTransitions ==
  [ready_for_manual_submission |-> {"submitted_pending_review", "withdrawn"},
   submitted_pending_review    |-> {"published_confirmed", "rejected", "needs_revision", "withdrawn"},
   rejected                    |-> {"needs_revision", "withdrawn"},
   needs_revision              |-> {"submitted_pending_review", "withdrawn"},
   published_confirmed         |-> {},
   withdrawn                   |-> {}]

DeliveryTransitions ==
  [ready_for_manual_delivery |-> {"delivery_in_progress", "withdrawn"},
   delivery_in_progress      |-> {"delivery_completed", "delivery_failed", "needs_redelivery", "withdrawn"},
   delivery_failed           |-> {"needs_redelivery", "withdrawn"},
   needs_redelivery          |-> {"delivery_in_progress", "withdrawn"},
   delivery_completed        |-> {},
   withdrawn                 |-> {}]

ALLOWED_TRANSITIONS == IF Kind = "submission" THEN SubmissionTransitions ELSE DeliveryTransitions
Ready == IF Kind = "submission" THEN "ready_for_manual_submission" ELSE "ready_for_manual_delivery"
States == DOMAIN ALLOWED_TRANSITIONS

AssertValidTransition(from, to) == to \in ALLOWED_TRANSITIONS[from]

GetExportCoverage(store, target) == {i \in DOMAIN store : target \in store[i].targets}
Covered(store, target, hash) == \E i \in GetExportCoverage(store, target) : store[i].hash = hash

EventsOf(events, target) == {i \in DOMAIN events : events[i].target = target}
Last(S) == CHOOSE i \in S : \A j \in S : j <= i

\* Where the events of the target leave it: the last one's state, or ready.
DeriveCurrentState(events, target) ==
  IF EventsOf(events, target) = {} THEN Ready ELSE events[Last(EventsOf(events, target))].to

\* Each event starts where the one before it left the target, or deriving throws.
LegalPath(events, target) ==
  \A i \in EventsOf(events, target) :
    /\ events[i].from = DeriveCurrentState(SubSeq(events, 1, i - 1), target)
    /\ AssertValidTransition(events[i].from, events[i].to)
-----------------------------------------------------------------------------
(* submission-evidence-ledger.js *)

UNCHANGED_ButCall == UNCHANGED <<storeVars, countVars, bundleVars>>

AcquireLock_Ignored(p) ==
  /\ call[p].at = "wait" /\ call[p].kind = Kind
  /\ lock' = p
  /\ call' = [call EXCEPT ![p].at = "locked"]
  /\ UNCHANGED <<exports, ledger, files, verified, countVars, bundleVars>>
\* The lock file is created with "wx".
AcquireLock(p) ==
  /\ call[p].at = "wait" /\ call[p].kind = Kind
  /\ lock = NoProc
  /\ lock' = p
  /\ call' = [call EXCEPT ![p].at = "locked"]
  /\ UNCHANGED <<exports, ledger, files, verified, countVars, bundleVars>>

\* Nothing removes the lock of a process that has ended.
LockTimeout(p) ==
  /\ call[p].at = "wait" /\ call[p].kind = Kind
  /\ lock # NoProc
  /\ call' = [call EXCEPT ![p] = Idle]
  /\ UNCHANGED_ButCall

\* releaseLock unlinks the file, whoever has made it.
ReleaseLock == lock' = NoProc

\* The call throws or answers under the lock, having changed nothing.
Refuse(p) ==
  /\ ReleaseLock
  /\ call' = [call EXCEPT ![p] = Idle]
  /\ UNCHANGED <<exports, ledger, files, verified, countVars, bundleVars>>
-----------------------------------------------------------------------------
(* recordSubmissionOutcome, recordDeliveryOutcome *)

\* The fields are validated, the files hashed and the approval read.
BeginOutcome(p) ==
  /\ call[p] = Idle /\ outcomes < MaxOutcomes
  /\ ValidateApprovedRelease
  /\ \E key \in Keys, target \in Targets, to \in Reported \cap States, payload \in Payloads :
       call' = [call EXCEPT ![p] = [Idle EXCEPT !.at = "wait", !.op = "outcome", !.kind = Kind,
                  !.key = key, !.target = target, !.to = to, !.payload = payload, !.hash = bundle.approval]]
  /\ outcomes' = outcomes + 1
  /\ UNCHANGED <<storeVars, verifies, crashes, bundleVars>>

Used(events, key) == \E i \in DOMAIN events : events[i].key = key

\* Whether the outcome is a new event of the ledger; a key that is there already
\* is answered with its event, or with a conflict.
IsNew_RepeatsKey(c) ==
  /\ Covered(exports, c.target, c.hash)
  /\ AssertValidTransition(DeriveCurrentState(ledger, c.target), c.to)
  /\ Len(ledger) < MaxEvents
IsNew_Uncovered(c) ==
  /\ ~Used(ledger, c.key)
  /\ AssertValidTransition(DeriveCurrentState(ledger, c.target), c.to)
  /\ Len(ledger) < MaxEvents
IsNew(c) ==
  /\ Covered(exports, c.target, c.hash)
  /\ ~Used(ledger, c.key)
  /\ AssertValidTransition(DeriveCurrentState(ledger, c.target), c.to)
  /\ Len(ledger) < MaxEvents

OutcomeRefused(p) ==
  /\ call[p].at = "locked" /\ call[p].op = "outcome" /\ call[p].kind = Kind
  /\ ~IsNew(call[p])
  /\ Refuse(p)

StoredName(c, seq) == [seq |-> seq, target |-> c.target, payload |-> c.payload]
FileExists(name) == \E f \in files : [seq |-> f.seq, target |-> f.target, payload |-> f.payload] = name
Attachment(name, intact) ==
  [seq |-> name.seq, target |-> name.target, payload |-> name.payload, intact |-> intact]

\* The attachment is copied to a new file, "wx".
StageAttachments(p) ==
  /\ call[p].at = "locked" /\ call[p].op = "outcome" /\ call[p].kind = Kind
  /\ IsNew(call[p])
  /\ LET name == StoredName(call[p], Len(ledger) + 1)
     IN  /\ call[p].payload \in FilePayloads => ~FileExists(name)
         /\ files' = files \cup (IF call[p].payload \in FilePayloads
                                 THEN {Attachment(name, TRUE)} ELSE {})
  /\ call' = [call EXCEPT ![p].at = "staged", ![p].base = ledger]
  /\ UNCHANGED <<exports, ledger, lock, verified, countVars, bundleVars>>

\* A file of that name is there, left by a call that did not end.
StagingBlocked(p) ==
  /\ call[p].at = "locked" /\ call[p].op = "outcome" /\ call[p].kind = Kind
  /\ IsNew(call[p])
  /\ call[p].payload \in FilePayloads /\ FileExists(StoredName(call[p], Len(ledger) + 1))
  /\ Refuse(p)

\* The file has changed since it was hashed: the copy is found different, and
\* it is not among those that are removed.
StagingMismatch(p) ==
  /\ call[p].at = "locked" /\ call[p].op = "outcome" /\ call[p].kind = Kind
  /\ IsNew(call[p])
  /\ LET name == StoredName(call[p], Len(ledger) + 1)
     IN  /\ call[p].payload \in FilePayloads /\ ~FileExists(name)
         /\ files' = files \cup {Attachment(name, FALSE)}
  /\ ReleaseLock
  /\ call' = [call EXCEPT ![p] = Idle]
  /\ UNCHANGED <<exports, ledger, verified, countVars, bundleVars>>

Event(c, events) ==
  [key |-> c.key, target |-> c.target, from |-> DeriveCurrentState(events, c.target), to |-> c.to,
   hash |-> c.hash, payload |-> c.payload, seq |-> Len(events) + 1]

\* The file is replaced by the store as it was read, and the event.
WriteLedger(p) ==
  /\ call[p].at = "staged" /\ call[p].kind = Kind
  /\ ledger' = Append(call[p].base, Event(call[p], call[p].base))
  /\ call' = [call EXCEPT ![p] = [Idle EXCEPT !.at = "derive", !.op = "outcome", !.kind = Kind]]
  /\ UNCHANGED <<exports, files, lock, verified, countVars, bundleVars>>
-----------------------------------------------------------------------------
(* recordExportEvent *)

\* before: what the process of export-release.js has come to.
BeginExport(p, before) ==
  /\ call[p] = before
  /\ ValidateApprovedRelease /\ Targets # {}
  /\ Len(exports) < MaxExports
  /\ call' = [call EXCEPT ![p] = [Idle EXCEPT !.at = "wait", !.op = "export", !.kind = Kind,
                                !.hash = bundle.approval]]
  /\ UNCHANGED_ButCall

AppendExportEvent(p) ==
  /\ call[p].at = "locked" /\ call[p].op = "export" /\ call[p].kind = Kind
  /\ exports' = Append(exports, [hash |-> call[p].hash, targets |-> Targets])
  /\ ReleaseLock
  /\ call' = [call EXCEPT ![p] = [Idle EXCEPT !.at = "wait", !.op = "ensure", !.kind = Kind]]
  /\ UNCHANGED <<ledger, files, verified, countVars, bundleVars>>

\* Under the lock again, an empty ledger is written when there is none.
EnsureLedger(p) ==
  /\ call[p].at = "locked" /\ call[p].op = "ensure" /\ call[p].kind = Kind
  /\ ReleaseLock
  /\ call' = [call EXCEPT ![p].at = "derive"]
  /\ UNCHANGED <<exports, ledger, files, verified, countVars, bundleVars>>
-----------------------------------------------------------------------------
(* verifyOfferEvidence *)

\* verifyEventChain, whenever a store is read: numbered without a gap.
ChainVerifies(events) == \A i \in DOMAIN events : events[i].seq = i

ExportVerifies(event) == event.hash = bundle.approval /\ event.targets \subseteq Targets

OutcomeVerifies(event) ==
  /\ event.hash = bundle.approval
  /\ event.target \in Targets
  /\ Covered(exports, event.target, bundle.approval)

AttachmentVerifies(event) ==
  event.payload \in FilePayloads => Attachment(StoredName(event, event.seq), TRUE) \in files

\* What a verification checks of the two stores and the attachments.
StoresVerify ==
  /\ ChainVerifies(ledger)
  /\ \A i \in DOMAIN exports : ExportVerifies(exports[i])
  /\ \A i \in DOMAIN ledger : OutcomeVerifies(ledger[i])
  /\ \A t \in Targets : LegalPath(ledger, t)
  /\ \A i \in DOMAIN ledger : AttachmentVerifies(ledger[i])

\* An incremental one returns when nothing has been appended since the last.
BeginVerify(p, mode) ==
  /\ call[p] = Idle /\ verifies < MaxVerifies
  /\ ValidateApprovedRelease
  /\ mode = "incremental" => verified # Heads
  /\ StoresVerify
  /\ call' = [call EXCEPT ![p] = [Idle EXCEPT !.at = "verify", !.op = "verify", !.kind = Kind,
                                              !.seen = Heads]]
  /\ verifies' = verifies + 1
  /\ UNCHANGED <<storeVars, outcomes, crashes, bundleVars>>

WriteVerifyStatus(p) ==
  /\ call[p].at = "verify" /\ call[p].kind = Kind
  /\ verified' = call[p].seen
  /\ \E rebuildDerived \in BOOLEAN :
       call' = [call EXCEPT ![p] = IF rebuildDerived THEN [@ EXCEPT !.at = "derive"] ELSE Idle]
  /\ UNCHANGED <<exports, ledger, files, lock, countVars, bundleVars>>
-----------------------------------------------------------------------------
(* rebuildDerivedForOffer: an outcome is under the lock meanwhile, an export   *)
(* and a verification are not.                                                 *)

ReadForSnapshots(p) ==
  /\ call[p].at = "derive" /\ call[p].kind = Kind
  /\ ValidateApprovedRelease
  /\ call' = [call EXCEPT ![p].at = "snapshots"]
  /\ UNCHANGED_ButCall

\* The bundle has been edited: the call throws, though it has been recorded.
RebuildFails(p) ==
  /\ call[p].at = "derive" /\ call[p].kind = Kind
  /\ ~ValidateApprovedRelease
  /\ lock' = IF call[p].op = "outcome" THEN NoProc ELSE lock
  /\ call' = [call EXCEPT ![p] = Idle]
  /\ UNCHANGED <<exports, ledger, files, verified, countVars, bundleVars>>

\* The snapshots are written, and the index, of all offers, after them.  The call
\* ends, with after in its place.
WriteSnapshots(p, after) ==
  /\ call[p].at = "snapshots" /\ call[p].kind = Kind
  /\ lock' = IF call[p].op = "outcome" THEN NoProc ELSE lock
  /\ call' = [call EXCEPT ![p] = after]
  /\ UNCHANGED <<exports, ledger, files, verified, countVars, bundleVars>>
-----------------------------------------------------------------------------
\* A process ends.  What it has written stays, its lock with the rest.
Crash(p) ==
  /\ call[p].at # "idle" /\ call[p].kind = Kind /\ crashes < MaxCrashes
  /\ crashes' = crashes + 1
  /\ lock' = IF lock = p THEN Ended ELSE lock
  /\ call' = [call EXCEPT ![p] = Idle]
  /\ UNCHANGED <<exports, ledger, files, verified, outcomes, verifies, bundleVars>>

\* With the directory of the bundle its evidence goes.
EvidenceRemoved ==
  /\ exports' = <<>> /\ ledger' = <<>> /\ files' = {} /\ lock' = NoProc
  /\ verified' = Nothing

WithLock(p) == AcquireLock(p) \/ LockTimeout(p)
RecordOutcome(p) ==
  \/ BeginOutcome(p) \/ OutcomeRefused(p)
  \/ StageAttachments(p) \/ StagingBlocked(p) \/ StagingMismatch(p) \/ WriteLedger(p)
RecordExport(p, before) == BeginExport(p, before) \/ AppendExportEvent(p) \/ EnsureLedger(p)
VerifyOffer(p) == (\E mode \in {"full", "incremental"} : BeginVerify(p, mode)) \/ WriteVerifyStatus(p)
RebuildDerived(p, after) == ReadForSnapshots(p) \/ RebuildFails(p) \/ WriteSnapshots(p, after)

\* generate-offer.js is run while no other command is at work on the offer.
NoCalls == \A p \in Procs : call[p].at = "idle"
BundleStep ==
  \/ Package /\ UNCHANGED storeVars
  \/ NoCalls /\ RemoveBundle /\ EvidenceRemoved
  \/ InstallBundle /\ UNCHANGED storeVars
  \/ GeneratorFails /\ UNCHANGED storeVars
  \/ ApproveRelease /\ UNCHANGED storeVars
  \/ EditFiles /\ UNCHANGED storeVars

\* One kind of evidence by itself.
Next ==
  \/ \E p \in Procs : WithLock(p) \/ RecordOutcome(p) \/ RecordExport(p, Idle) \/ VerifyOffer(p)
                     \/ RebuildDerived(p, Idle) \/ Crash(p)
  \/ BundleStep /\ UNCHANGED <<call, countVars>>

Spec == EvidenceInit /\ [][Next]_evidenceVars
-----------------------------------------------------------------------------
(* Properties *)

EventType ==
  [key : Keys, target : Targets, from : States, to : States, hash : Contents, payload : Payloads,
   seq : Nat]
CallType ==
  [at : {"idle", "wait", "locked", "staged", "verify", "derive", "snapshots", "delivery"},
   op : {"none", "outcome", "export", "ensure", "verify"}, kind : {"none", "submission", "delivery"},
   key : Keys \cup {NoKey}, target : Targets \cup {NoKey}, to : States \cup {"none"},
   payload : Payloads \cup {NoKey}, hash : Contents \cup {NoContent},
   base : Seq(EventType),
   seen : [exports : Nat, events : Nat]]
TypeOK ==
  /\ bundle \in [content : Contents \cup {NoContent}, manifest : Contents \cup {NoContent},
                 approval : Contents \cup {NoContent}]
  /\ \A p \in Procs : call[p].kind \in {Kind, "none"} => call[p] \in CallType
  /\ exports \in Seq([hash : Contents, targets : SUBSET Targets])
  /\ ledger \in Seq(EventType)
  /\ files \subseteq [seq : Nat, target : Targets, payload : FilePayloads, intact : BOOLEAN]
  /\ lock \in Procs \cup {NoProc, Ended}
  /\ verified \in [exports : Nat, events : Nat]

\* Whatever calls overlap, fail or end halfway, what they leave passes a full
\* verification: every outcome is of the approved bundle, on a target that was
\* exported, a legal step from the one before, with its attachment intact.
VerificationPasses ==
  IF bundle.approval = NoContent THEN exports = <<>> /\ ledger = <<>> ELSE StoresVerify

\* An idempotency key names one outcome, of two calls at a time as well.
KeyRecordedOnce == \A i, j \in DOMAIN ledger : ledger[i].key = ledger[j].key => i = j

Extends(new, old) == Len(old) <= Len(new) /\ SubSeq(new, 1, Len(old)) = old

\* As long as the bundle stays, no call rewrites or drops an event.
AppendOnlyWithinBundle ==
  [][bundle' # NoBundle => Extends(exports', exports) /\ Extends(ledger', ledger)]_evidenceVars

\* README: "Authoritative writes are append-only", "no in-place history rewrites".
NeverRewritten == [][Extends(exports', exports) /\ Extends(ledger', ledger)]_evidenceVars
=============================================================================
