---------------------------- MODULE ReleaseProofs ----------------------------
(***************************************************************************)
(* Proofs about the commands of one offer together, of submissions and of  *)
(* deliveries: each kind's evidence passes its verification and is only    *)
(* extended, and a delivery is exported only with a submission.  Each kind *)
(* has the invariant of EvidenceProofs; a step of one leaves the other's   *)
(* alone.                                                                  *)
(***************************************************************************)
EXTENDS Release, EvidenceProofs, FiniteSetTheorems

EP == INSTANCE EvidenceProofs WITH Kind <- "delivery", Targets <- DeliveryTargets,
        exports <- dexports, ledger <- dledger, files <- dfiles, lock <- dlock,
        verified <- dverified

-----------------------------------------------------------------------------
(* D and EP give the delivery's evidence the same definitions.              *)

LEMMA DeliveryAssumption == EP!EvidenceAssumption
BY EvidenceAssumption DEF EP!EvidenceAssumption

LEMMA SameIdle == D!Idle = Idle /\ EP!Idle = Idle /\ D!Nothing = EP!Nothing /\ D!Heads = EP!Heads
BY DEF D!Idle, EP!Idle, D!Nothing, EP!Nothing, D!Heads, EP!Heads, Idle, Nothing

LEMMA SameApproval == (D!ValidateApprovedRelease <=> EP!ValidateApprovedRelease)
                      /\ (ValidateApprovedRelease <=> EP!ValidateApprovedRelease)
BY DEF D!ValidateApprovedRelease, EP!ValidateApprovedRelease, D!ValidateManifest,
   EP!ValidateManifest, D!ComputeBundleHash, EP!ComputeBundleHash, ValidateApprovedRelease, ValidateManifest, ComputeBundleHash

LEMMA SameStates ==
  /\ D!States = EP!States
  /\ \A events, target : D!DeriveCurrentState(events, target) = EP!DeriveCurrentState(events, target)
  /\ \A from, to : D!AssertValidTransition(from, to) <=> EP!AssertValidTransition(from, to)
BY DEF D!States, EP!States, D!Ready, EP!Ready, D!ALLOWED_TRANSITIONS, EP!ALLOWED_TRANSITIONS,
   D!DeliveryTransitions, EP!DeliveryTransitions, D!SubmissionTransitions, EP!SubmissionTransitions,
   D!EventsOf, EP!EventsOf, D!Last, EP!Last, D!DeriveCurrentState, EP!DeriveCurrentState,
   D!AssertValidTransition, EP!AssertValidTransition

LEMMA SameIsNew == \A c : D!IsNew(c) <=> EP!IsNew(c)
BY SameStates DEF D!IsNew, EP!IsNew, D!Covered, EP!Covered, D!GetExportCoverage,
   EP!GetExportCoverage, D!Used, EP!Used

LEMMA SameLock == ASSUME NEW p, D!WithLock(p) PROVE EP!WithLock(p)
BY SameIdle DEF D!WithLock, EP!WithLock, D!AcquireLock, EP!AcquireLock, D!LockTimeout,
   EP!LockTimeout, D!storeVars, EP!storeVars, D!countVars, EP!countVars, D!bundleVars,
   EP!bundleVars, D!UNCHANGED_ButCall, EP!UNCHANGED_ButCall

LEMMA SameStoresVerify == D!StoresVerify <=> EP!StoresVerify
BY SameStates DEF D!StoresVerify, EP!StoresVerify, D!ChainVerifies, EP!ChainVerifies,
   D!ExportVerifies, EP!ExportVerifies, D!OutcomeVerifies, EP!OutcomeVerifies, D!Covered,
   EP!Covered, D!GetExportCoverage, EP!GetExportCoverage, D!LegalPath, EP!LegalPath, D!EventsOf,
   EP!EventsOf, D!AttachmentVerifies, EP!AttachmentVerifies, D!Attachment, EP!Attachment,
   D!StoredName, EP!StoredName

LEMMA SameVerify == ASSUME NEW p, D!VerifyOffer(p) PROVE EP!VerifyOffer(p)
BY SameIdle, SameApproval, SameStoresVerify DEF D!VerifyOffer, EP!VerifyOffer, D!BeginVerify,
   EP!BeginVerify, D!WriteVerifyStatus, EP!WriteVerifyStatus, D!storeVars, EP!storeVars,
   D!countVars, EP!countVars, D!bundleVars, EP!bundleVars, D!UNCHANGED_ButCall, EP!UNCHANGED_ButCall

LEMMA SameExport == ASSUME NEW p, D!RecordExport(p, Pending) PROVE EP!RecordExport(p, Pending)
BY SameIdle, SameApproval DEF D!RecordExport, EP!RecordExport, D!BeginExport, EP!BeginExport,
   D!AppendExportEvent, EP!AppendExportEvent, D!EnsureLedger, EP!EnsureLedger, D!ReleaseLock,
   EP!ReleaseLock, D!storeVars, EP!storeVars, D!countVars, EP!countVars, D!bundleVars,
   EP!bundleVars, D!UNCHANGED_ButCall, EP!UNCHANGED_ButCall

LEMMA SameDerived == ASSUME NEW p, D!RebuildDerived(p, Idle) PROVE EP!RebuildDerived(p, Idle)
BY SameIdle, SameApproval DEF D!RebuildDerived, EP!RebuildDerived, D!ReadForSnapshots,
   EP!ReadForSnapshots, D!RebuildFails, EP!RebuildFails, D!WriteSnapshots, EP!WriteSnapshots,
   D!storeVars, EP!storeVars, D!countVars, EP!countVars, D!bundleVars, EP!bundleVars,
   D!UNCHANGED_ButCall, EP!UNCHANGED_ButCall

LEMMA SameCrash == ASSUME NEW p, D!Crash(p) PROVE EP!Crash(p)
BY SameIdle DEF D!Crash, EP!Crash, D!storeVars, EP!storeVars, D!countVars, EP!countVars,
   D!bundleVars, EP!bundleVars, D!UNCHANGED_ButCall, EP!UNCHANGED_ButCall

LEMMA SameEvent == \A c, events : D!Event(c, events) = EP!Event(c, events)
BY SameStates DEF D!Event, EP!Event

LEMMA SameOutcome == ASSUME NEW p, D!RecordOutcome(p) PROVE EP!RecordOutcome(p)
<1>1. D!BeginOutcome(p) => EP!BeginOutcome(p)
  <2> SUFFICES ASSUME D!BeginOutcome(p) PROVE EP!BeginOutcome(p)
    OBVIOUS
  <2>1. PICK key \in Keys, target \in DeliveryTargets, to \in Reported \cap D!States, payload \in Payloads :
          call' = [call EXCEPT ![p] = [D!Idle EXCEPT !.at = "wait", !.op = "outcome", !.kind = "delivery",
                     !.key = key, !.target = target, !.to = to, !.payload = payload, !.hash = bundle.approval]]
    BY DEF D!BeginOutcome
  <2>2. to \in Reported \cap EP!States
    BY SameStates
  <2>3. call' = [call EXCEPT ![p] = [EP!Idle EXCEPT !.at = "wait", !.op = "outcome", !.kind = "delivery",
                     !.key = key, !.target = target, !.to = to, !.payload = payload, !.hash = bundle.approval]]
    <3>1. D!Idle = EP!Idle
      BY SameIdle
    <3> QED
      BY <2>1, <3>1, Zenon
  <2>4. /\ call[p] = EP!Idle /\ outcomes < MaxOutcomes /\ EP!ValidateApprovedRelease
        /\ outcomes' = outcomes + 1
        /\ UNCHANGED <<EP!storeVars, verifies, crashes, EP!bundleVars>>
    BY SameIdle, SameApproval DEF D!BeginOutcome, D!storeVars, EP!storeVars, D!bundleVars, EP!bundleVars
  <2> QED
    BY <2>2, <2>3, <2>4 DEF EP!BeginOutcome
<1>2. D!OutcomeRefused(p) => EP!OutcomeRefused(p)
  BY SameIdle, SameIsNew DEF D!OutcomeRefused, EP!OutcomeRefused, D!Refuse, EP!Refuse, D!ReleaseLock,
   EP!ReleaseLock, D!storeVars, EP!storeVars, D!countVars, EP!countVars, D!bundleVars,
   EP!bundleVars, D!UNCHANGED_ButCall, EP!UNCHANGED_ButCall
<1>3. D!StageAttachments(p) => EP!StageAttachments(p)
  BY SameIsNew DEF D!StageAttachments, EP!StageAttachments, D!StoredName, EP!StoredName, D!FileExists,
   EP!FileExists, D!Attachment, EP!Attachment, D!storeVars, EP!storeVars, D!countVars, EP!countVars,
   D!bundleVars, EP!bundleVars, D!UNCHANGED_ButCall, EP!UNCHANGED_ButCall
<1>4. D!StagingBlocked(p) => EP!StagingBlocked(p)
  BY SameIdle, SameIsNew DEF D!StagingBlocked, EP!StagingBlocked, D!StoredName, EP!StoredName,
   D!FileExists, EP!FileExists, D!Refuse, EP!Refuse, D!ReleaseLock, EP!ReleaseLock, D!storeVars,
   EP!storeVars, D!countVars, EP!countVars, D!bundleVars, EP!bundleVars, D!UNCHANGED_ButCall,
   EP!UNCHANGED_ButCall
<1>5. D!StagingMismatch(p) => EP!StagingMismatch(p)
  BY SameIdle, SameIsNew DEF D!StagingMismatch, EP!StagingMismatch, D!StoredName, EP!StoredName,
   D!FileExists, EP!FileExists, D!Attachment, EP!Attachment, D!ReleaseLock, EP!ReleaseLock,
   D!storeVars, EP!storeVars, D!countVars, EP!countVars, D!bundleVars, EP!bundleVars,
   D!UNCHANGED_ButCall, EP!UNCHANGED_ButCall
<1>6. D!WriteLedger(p) => EP!WriteLedger(p)
  BY SameIdle, SameEvent DEF D!WriteLedger, EP!WriteLedger, D!storeVars, EP!storeVars, D!countVars,
   EP!countVars, D!bundleVars, EP!bundleVars, D!UNCHANGED_ButCall, EP!UNCHANGED_ButCall
<1> QED
  BY <1>1, <1>2, <1>3, <1>4, <1>5, <1>6 DEF D!RecordOutcome, EP!RecordOutcome

-----------------------------------------------------------------------------
(* The inductive invariant.                                                 *)

\* Calls that a delivery's export may still come of: each has recorded the
\* submission's.
Credit(c) ==
  \/ c.kind = "submission" /\ c.op = "ensure"
  \/ c = Pending
  \/ c.kind = "delivery" /\ c.op = "export"
Credits == {p \in Procs : Credit(call[p])}
CreditInv == Len(dexports) + Cardinality(Credits) <= Len(exports)

ReleaseInv == EvidenceInv /\ EP!EvidenceInv /\ CreditInv

LEMMA PendingAfter ==
  /\ After(Pending) /\ After(Idle) /\ EP!After(Pending) /\ EP!After(Idle)
  /\ Pending.at = "delivery" /\ Pending.kind = "none" /\ Pending # Idle /\ Idle.kind = "none"
  /\ Pending.op = "none" /\ Idle.op = "none" /\ Idle.at = "idle"
<1>1. Idle \in CallType /\ EP!Idle \in EP!CallType /\ Idle = EP!Idle
      /\ Idle.kind = "none" /\ Idle.at = "idle" /\ Idle.op = "none"
  BY IdleTyped, EP!IdleTyped, DeliveryAssumption, SameIdle
<1>2. /\ Pending \in CallType /\ Pending \in EP!CallType /\ Pending.at = "delivery" /\ Pending.kind = "none"
      /\ Pending.op = "none"
  BY <1>1 DEF Pending, CallType, EP!CallType
<1> QED
  BY <1>1, <1>2 DEF After, EP!After

LEMMA StoreTypes ==
  ASSUME ReleaseInv
  PROVE  /\ Len(exports) \in Nat /\ Len(dexports) \in Nat
         /\ call = [p \in Procs |-> call[p]]
BY DEF ReleaseInv, EvidenceInv, EP!EvidenceInv, Typed, TypeOK, EP!Typed, EP!TypeOK

LEMMA CreditsFinite ==
  ASSUME NEW S \in SUBSET Procs, NEW p \in Procs
  PROVE  /\ IsFiniteSet(S) /\ Cardinality(S) \in Nat
         /\ Cardinality(S \cup {p}) <= Cardinality(S) + 1
         /\ p \in S => Cardinality(S \ {p}) = Cardinality(S) - 1
<1>1. IsFiniteSet(S)
  BY ReleaseAssumption, FS_Subset
<1> QED
  BY <1>1, FS_CardinalityType, FS_AddElement, FS_RemoveElement

\* A step that exports a submission makes a credit, one that exports a delivery
\* spends it, and no other makes one.
LEMMA CreditStep ==
  ASSUME ReleaseInv, NEW p \in Procs, call' = [call EXCEPT ![p] = call'[p]],
         \/ Len(exports') = Len(exports) + 1 /\ dexports' = dexports
         \/ (Credit(call'[p]) => Credit(call[p])) /\ exports' = exports /\ dexports' = dexports
         \/ /\ Credit(call[p]) /\ ~Credit(call'[p]) /\ exports' = exports
            /\ Len(dexports') = Len(dexports) + 1
  PROVE  CreditInv'
<1>1. \A q \in Procs : q # p => call'[q] = call[q]
  BY StoreTypes
<1>2. /\ Len(exports) \in Nat /\ Len(dexports) \in Nat
      /\ Len(dexports) + Cardinality(Credits) <= Len(exports)
  BY StoreTypes DEF ReleaseInv, CreditInv
<1>3. Credits \in SUBSET Procs /\ Credits' \in SUBSET Procs
  BY DEF Credits
<1>4. Cardinality(Credits) \in Nat /\ Cardinality(Credits') \in Nat
  BY <1>3, CreditsFinite
<1>5. CASE Len(exports') = Len(exports) + 1 /\ dexports' = dexports
  <2>1. Credits' \subseteq Credits \cup {p}
    BY <1>1 DEF Credits
  <2>2. Credits \cup {p} \in SUBSET Procs
    BY <1>3
  <2>3. IsFiniteSet(Credits \cup {p})
    BY <2>2, CreditsFinite
  <2>4. Cardinality(Credits') <= Cardinality(Credits \cup {p})
    BY <2>1, <2>3, FS_Subset
  <2>5. Cardinality(Credits \cup {p}) \in Nat /\ Cardinality(Credits \cup {p}) <= Cardinality(Credits) + 1
    BY <1>3, <2>2, CreditsFinite
  <2> QED
    BY <1>2, <1>4, <1>5, <2>4, <2>5 DEF CreditInv
<1>6. CASE (Credit(call'[p]) => Credit(call[p])) /\ exports' = exports /\ dexports' = dexports
  <2>1. Credits' \subseteq Credits
    BY <1>1, <1>6 DEF Credits
  <2>2. Cardinality(Credits') <= Cardinality(Credits)
    BY <1>3, <2>1, CreditsFinite, FS_Subset
  <2> QED
    BY <1>2, <1>4, <1>6, <2>2 DEF CreditInv
<1>7. CASE /\ Credit(call[p]) /\ ~Credit(call'[p]) /\ exports' = exports
           /\ Len(dexports') = Len(dexports) + 1
  <2>1. Credits' = Credits \ {p} /\ p \in Credits
    BY <1>1, <1>7 DEF Credits
  <2>2. Cardinality(Credits') = Cardinality(Credits) - 1
    BY <1>3, <2>1, CreditsFinite
  <2> QED
    BY <1>2, <1>4, <1>7, <2>2 DEF CreditInv
<1> QED
  BY <1>5, <1>6, <1>7

-----------------------------------------------------------------------------
(* The steps.                                                               *)

LEMMA Approved ==
  ASSUME ReleaseInv
  PROVE  /\ \A p \in Procs : call[p].at # "idle" => bundle.approval # NoContent
         /\ \A p \in Procs : call[p].at = "idle" => ~Credit(call[p])
         /\ bundle.approval = NoContent =>
              exports = <<>> /\ dexports = <<>> /\ \A p \in Procs : ~Credit(call[p])
<1>1. \A p \in Procs : CallInv(p) /\ EP!CallInv(p)
  BY DEF ReleaseInv, EvidenceInv, EP!EvidenceInv
<1>2. \A p \in Procs : call[p].at = "idle" => ~Credit(call[p])
  BY <1>1, ReleaseAssumption, PendingAfter DEF CallInv, EP!CallInv, Credit
<1> QED
  BY <1>1, <1>2 DEF CallInv, ReleaseInv, EvidenceInv, EP!EvidenceInv, StoreInv, EP!StoreInv

LEMMA SubmissionStepKeeps ==
  ASSUME ReleaseInv, NEW p \in Procs, SubmissionStep(p)
  PROVE  ReleaseInv' /\ Extends(exports', exports) /\ Extends(ledger', ledger)
<1> DEFINE after == AfterSubmission(p)
<1>1. /\ CallActs(p, Idle, after) /\ UNCHANGED <<dexports, dledger, dfiles, dlock, dverified>>
      /\ EvidenceInv /\ EP!EvidenceInv /\ CreditInv
  BY DEF SubmissionStep, CallActs, deliveryVars, ReleaseInv
<1>2. After(after) /\ EP!After(after)
  BY PendingAfter DEF AfterSubmission
<1>3. /\ EvidenceInv' /\ Course(p, Idle, after) /\ UNCHANGED bundleVars
      /\ Extends(exports', exports) /\ Extends(ledger', ledger)
  BY <1>1, <1>2, CallKeeps, CallCourse, CallExtends
<1>4. call[p].kind # "delivery" /\ call'[p].kind # "delivery"
      /\ (call'[p].kind = "none" => call'[p] \in EP!CallType)
  BY <1>2, <1>3, PendingAfter, ReleaseAssumption DEF Course, After, EP!After
<1>5. call'[p].at # "idle" => bundle.approval # NoContent
  BY <1>3 DEF EvidenceInv, CallInv, bundleVars
<1>6. EP!EvidenceInv'
  <2>1. call' = [call EXCEPT ![p] = call'[p]]
    BY <1>3 DEF Course
  <2> QED
    BY <1>1, <1>3, <1>4, <1>5, <2>1, EP!OtherStep, DeliveryAssumption DEF EP!storeVars, EP!bundleVars, bundleVars
<1>7. CreditInv'
  <2>1. after = Pending => call[p].op = "ensure"
    BY PendingAfter DEF AfterSubmission
  <2>2. after \in {Idle, Pending}
    BY DEF AfterSubmission
  <2> HIDE DEF after
  <2>3. CASE call'[p].kind = Kind /\ call'[p].op = "ensure" /\ Len(exports') = Len(exports) + 1
    BY <1>1, <1>3, <2>3, CreditStep DEF Course
  <2>4. CASE exports' = exports /\ (Credit(call'[p]) => Credit(call[p]))
    BY <1>1, <1>3, <2>4, CreditStep DEF Course
  <2>5. CASE exports' = exports /\ ~(Credit(call'[p]) => Credit(call[p]))
    BY <1>3, <2>1, <2>2, <2>5, PendingAfter, ReleaseAssumption DEF Course, Credit
  <2> QED
    BY <1>3, <2>3, <2>4, <2>5 DEF Course
<1> QED
  BY <1>3, <1>6, <1>7 DEF ReleaseInv

LEMMA DeliveryStepKeeps ==
  ASSUME ReleaseInv, NEW p \in Procs, DeliveryStep(p)
  PROVE  ReleaseInv' /\ UNCHANGED <<exports, ledger>>
         /\ EP!Extends(dexports', dexports) /\ EP!Extends(dledger', dledger)
<1>1. /\ EP!CallActs(p, Pending, Idle) /\ UNCHANGED <<exports, ledger, files, lock, verified>>
      /\ EvidenceInv /\ EP!EvidenceInv /\ CreditInv
  BY SameLock, SameOutcome, SameExport, SameVerify, SameDerived, SameCrash
     DEF DeliveryStep, EP!CallActs, ReleaseInv, DeliveryLock, DeliveryOutcome, DeliveryExport, DeliveryVerify,
     DeliveryDerived
<1>2. /\ EP!EvidenceInv' /\ EP!Course(p, Pending, Idle) /\ UNCHANGED EP!bundleVars
      /\ EP!Extends(dexports', dexports) /\ EP!Extends(dledger', dledger)
  BY <1>1, PendingAfter, DeliveryAssumption, EP!CallKeeps, EP!CallCourse, EP!CallExtends
<1>3. call[p].kind # Kind /\ call'[p].kind # Kind /\ (call'[p].kind = "none" => call'[p] \in CallType)
  BY <1>2, PendingAfter, ReleaseAssumption, SameIdle DEF EP!Course, After
<1>4. call'[p].at # "idle" => bundle.approval # NoContent
  BY <1>2 DEF EP!EvidenceInv, EP!CallInv, EP!bundleVars
<1>5. EvidenceInv'
  <2>1. call' = [call EXCEPT ![p] = call'[p]]
    BY <1>2 DEF EP!Course
  <2> QED
    BY <1>1, <1>2, <1>3, <1>4, <2>1, OtherStep DEF storeVars, EP!bundleVars, bundleVars
<1>6. CreditInv'
  <2>1. CASE /\ call[p].kind = "delivery" /\ call[p].op = "export" /\ Len(dexports') = Len(dexports) + 1
             /\ call'[p].kind = "delivery" /\ call'[p].op = "ensure"
    <3>1. Credit(call[p]) /\ ~Credit(call'[p])
      BY <2>1, PendingAfter DEF Credit
    <3> QED
      BY <1>1, <1>2, <2>1, <3>1, CreditStep DEF EP!Course
  <2>2. CASE dexports' = dexports /\ (Credit(call'[p]) => Credit(call[p]))
    BY <1>1, <1>2, <2>2, CreditStep DEF EP!Course
  <2>3. CASE dexports' = dexports /\ ~(Credit(call'[p]) => Credit(call[p]))
    BY <1>2, <2>3, PendingAfter, SameIdle DEF EP!Course, Credit
  <2> QED
    BY <1>2, <2>1, <2>2, <2>3 DEF EP!Course
<1> QED
  BY <1>1, <1>2, <1>5, <1>6 DEF ReleaseInv

\* A script that ends between the two halves leaves a submission only.
LEMMA HalfExportedKeeps ==
  ASSUME ReleaseInv, NEW p \in Procs, HalfExported(p)
  PROVE  ReleaseInv' /\ UNCHANGED <<exports, ledger, dexports, dledger>>
<1>1. /\ call[p] = Pending /\ call' = [call EXCEPT ![p] = Idle]
      /\ UNCHANGED <<storeVars, bundleVars, exports, ledger, dexports, dledger, dfiles, dlock, dverified>>
      /\ EvidenceInv /\ EP!EvidenceInv /\ CreditInv
  BY DEF HalfExported, deliveryVars, ReleaseInv, storeVars
<1>2. call'[p] = Idle /\ call' = [call EXCEPT ![p] = call'[p]]
  BY <1>1, StoreTypes
<1>3. EvidenceInv'
  BY <1>1, <1>2, OtherStep, PendingAfter, ReleaseAssumption DEF After
<1>4. EP!EvidenceInv'
  BY <1>1, <1>2, EP!OtherStep, PendingAfter, DeliveryAssumption DEF EP!After, EP!storeVars, EP!bundleVars, bundleVars
<1>5. CreditInv'
  BY <1>1, <1>2, CreditStep DEF Credit
<1> QED
  BY <1>1, <1>3, <1>4, <1>5 DEF ReleaseInv

LEMMA CreditsCleared ==
  ASSUME \A p \in Procs : ~Credit(call'[p]), exports' = <<>>, dexports' = <<>>
  PROVE  CreditInv'
<1>1. Credits' = {}
  BY DEF Credits
<1> QED
  BY <1>1, FS_EmptySet DEF CreditInv

LEMMA BundleCommandKeeps ==
  ASSUME ReleaseInv, BundleCommand
  PROVE  /\ ReleaseInv'
         /\ bundle' # NoBundle => UNCHANGED <<exports, ledger, dexports, dledger>>
<1>1. /\ EvidenceInv /\ EP!EvidenceInv /\ CreditInv /\ BundleStep /\ UNCHANGED call
  BY DEF ReleaseInv, BundleCommand
<1>2. EvidenceInv'
  BY <1>1, BundleKeeps
<1>3. CASE NoCalls /\ RemoveBundle /\ EvidenceRemoved
  <2>1. /\ exports' = <<>> /\ bundle' = NoBundle /\ \A p \in Procs : call[p].at = "idle"
    BY <1>3 DEF EvidenceRemoved, RemoveBundle, NoCalls
  <2>2. \A p \in Procs : ~Credit(call'[p])
    BY <1>1, <2>1, Approved
  <2>3. CASE bundle # NoBundle
    <3>1. EP!NoCalls /\ EP!RemoveBundle /\ EP!EvidenceRemoved /\ dexports' = <<>>
      BY <1>3, <2>1, <2>3 DEF BundleCommand, NoCalls, EP!NoCalls, RemoveBundle, EP!RemoveBundle,
         D!EvidenceRemoved, EP!EvidenceRemoved, D!Nothing, EP!Nothing, NoBundle, EP!NoBundle
    <3>2. EP!EvidenceInv'
      BY <1>1, <3>1, EP!RemovalKeeps, DeliveryAssumption
    <3> QED
      BY <1>2, <2>1, <2>2, <3>1, <3>2, CreditsCleared DEF ReleaseInv
  <2>4. CASE bundle = NoBundle
    <3>1. UNCHANGED <<bundle, call, dexports, dledger, dfiles, dlock, dverified>> /\ generator' = "removed"
      BY <1>1, <1>3, <2>1, <2>4 DEF BundleCommand, deliveryVars, RemoveBundle
    <3>2. EP!ApprovalStays /\ bundle' \in EP!BundleType
      BY <1>1, <3>1 DEF EP!ApprovalStays, EP!BundleType, EP!EvidenceInv, EP!Typed, EP!TypeOK
    <3>3. EP!BundleInv'
      BY <1>2 DEF EvidenceInv, BundleInv, EP!BundleInv, NoBundle, EP!NoBundle
    <3>4. EP!EvidenceInv'
      BY <1>1, <3>1, <3>2, <3>3, EP!BundleQuiet, DeliveryAssumption DEF EP!storeVars
    <3>5. dexports' = <<>>
      BY <2>4, <3>1, Approved DEF NoBundle
    <3> QED
      BY <1>2, <2>1, <2>2, <3>4, <3>5, CreditsCleared DEF ReleaseInv
  <2> QED
    BY <2>3, <2>4
<1>4. CASE (Package \/ InstallBundle \/ GeneratorFails \/ ApproveRelease \/ EditFiles) /\ UNCHANGED storeVars
  <2>1. /\ bundle' \in BundleType /\ BundleInv' /\ ApprovalStays
        /\ bundle' = NoBundle => bundle = NoBundle
    BY <1>1, <1>4, BundleChanges
  <2>2. UNCHANGED <<call, exports, ledger, dexports, dledger, dfiles, dlock, dverified>>
    BY <1>1, <1>4, <2>1 DEF BundleCommand, deliveryVars, storeVars
  <2>3. bundle' \in EP!BundleType /\ EP!BundleInv' /\ EP!ApprovalStays
    BY <2>1 DEF BundleType, EP!BundleType, BundleInv, EP!BundleInv, ApprovalStays, EP!ApprovalStays, NoBundle,
       EP!NoBundle
  <2>4. EP!EvidenceInv'
    BY <1>1, <2>2, <2>3, EP!BundleQuiet, DeliveryAssumption DEF EP!storeVars
  <2>5. CreditInv'
    BY <1>1, <2>2 DEF CreditInv, Credits
  <2> QED
    BY <1>2, <2>2, <2>4, <2>5 DEF ReleaseInv
<1> QED
  BY <1>1, <1>3, <1>4 DEF BundleStep

LEMMA ReleaseBegins == ReleaseInit => ReleaseInv
<1> SUFFICES ASSUME ReleaseInit PROVE ReleaseInv
  OBVIOUS
<1>1. EvidenceInit /\ dexports = <<>> /\ exports = <<>> /\ call = [p \in Procs |-> Idle]
  BY DEF ReleaseInit, D!StoresInit, EvidenceInit, StoresInit
<1>2. EvidenceInv
  BY <1>1, EvidenceBegins
<1>3. EP!EvidenceInv
  <2>1. EP!EvidenceInit
    BY SameIdle DEF ReleaseInit, EvidenceInit, EP!EvidenceInit, D!StoresInit, EP!StoresInit, BundleInit,
       EP!BundleInit, D!Nothing, EP!Nothing, NoBundle, EP!NoBundle
  <2> QED
    BY <2>1, EP!EvidenceBegins, DeliveryAssumption
<1>4. CreditInv
  <2>1. \A p \in Procs : ~Credit(call[p])
    BY <1>1, PendingAfter DEF Credit
  <2>2. Credits = {}
    BY <2>1 DEF Credits
  <2> QED
    BY <1>1, <2>2, FS_EmptySet DEF CreditInv
<1> QED
  BY <1>2, <1>3, <1>4 DEF ReleaseInv

LEMMA ReleaseStutters ==
  ASSUME ReleaseInv, UNCHANGED releaseVars
  PROVE  ReleaseInv' /\ UNCHANGED <<exports, ledger, dexports, dledger>>
<1>1. /\ UNCHANGED <<exports, ledger, dexports, dledger, call, storeVars, EP!storeVars, bundle, generator>>
      /\ UNCHANGED evidenceVars
  BY DEF releaseVars, evidenceVars, storeVars, deliveryVars, EP!storeVars, bundleVars
<1>2. EvidenceInv'
  BY <1>1, StutterKeeps DEF ReleaseInv
<1>3. EP!EvidenceInv'
  <2>1. bundle' \in EP!BundleType /\ EP!BundleInv' /\ EP!ApprovalStays
    BY <1>1 DEF ReleaseInv, EP!EvidenceInv, EP!Typed, EP!TypeOK, EP!BundleType, EP!BundleInv, EP!ApprovalStays,
       EP!NoBundle
  <2> QED
    BY <1>1, <2>1, EP!BundleQuiet, DeliveryAssumption DEF ReleaseInv
<1>4. CreditInv'
  BY <1>1 DEF ReleaseInv, CreditInv, Credits
<1> QED
  BY <1>1, <1>2, <1>3, <1>4 DEF ReleaseInv

LEMMA ReleaseNextKeeps ==
  ASSUME ReleaseInv, [ReleaseNext]_releaseVars
  PROVE  /\ ReleaseInv'
         /\ bundle' # NoBundle => Extends(exports', exports) /\ Extends(ledger', ledger)
         /\ bundle' # NoBundle => EP!Extends(dexports', dexports) /\ EP!Extends(dledger', dledger)
<1>1. Extends(exports, exports) /\ Extends(ledger, ledger)
  BY SubSeqFull DEF Extends, ReleaseInv, EvidenceInv, Typed, TypeOK
<1>2. EP!Extends(dexports, dexports) /\ EP!Extends(dledger, dledger)
  BY SubSeqFull DEF EP!Extends, ReleaseInv, EP!EvidenceInv, EP!Typed, EP!TypeOK
<1>3. ASSUME NEW p \in Procs, SubmissionStep(p)
      PROVE  /\ ReleaseInv' /\ Extends(exports', exports) /\ Extends(ledger', ledger)
             /\ UNCHANGED <<dexports, dledger>>
  BY <1>3, SubmissionStepKeeps DEF SubmissionStep, deliveryVars
<1>4. ASSUME NEW p \in Procs, DeliveryStep(p) \/ HalfExported(p)
      PROVE  /\ ReleaseInv' /\ UNCHANGED <<exports, ledger>>
             /\ EP!Extends(dexports', dexports) /\ EP!Extends(dledger', dledger)
  BY <1>2, <1>4, DeliveryStepKeeps, HalfExportedKeeps
<1>5. CASE BundleCommand
  BY <1>1, <1>2, <1>5, BundleCommandKeeps
<1>6. CASE UNCHANGED releaseVars
  BY <1>1, <1>2, <1>6, ReleaseStutters
<1> QED
  BY <1>1, <1>2, <1>3, <1>4, <1>5, <1>6 DEF ReleaseNext

-----------------------------------------------------------------------------
(* Theorems.                                                                *)

\* Both kinds of evidence keep their invariant, and every delivery's export is paid
\* for by a submission's.
THEOREM ReleaseInvariant == ReleaseSpec => []ReleaseInv
BY ReleaseBegins, ReleaseNextKeeps, PTL DEF ReleaseSpec

\* The submission's evidence passes its verification, whatever the commands about
\* the delivery do in the same bundle.
THEOREM SubmissionVerifies == ReleaseSpec => []VerificationPasses
<1>1. ReleaseInv => VerificationPasses
  BY DEF ReleaseInv, EvidenceInv, StoreInv, VerificationPasses
<1> QED
  BY <1>1, ReleaseInvariant, PTL

\* An idempotency key names one outcome.
THEOREM SubmissionKeys == ReleaseSpec => []KeyRecordedOnce
<1>1. ReleaseInv => KeyRecordedOnce
  BY DEF ReleaseInv, EvidenceInv
<1> QED
  BY <1>1, ReleaseInvariant, PTL

\* export-release.js records a delivery only after the submission, and the delivery's
\* evidence passes its verification: a crash between the two leaves a submission alone.
THEOREM DeliveryFollows == ReleaseSpec => []DeliveryFollowsSubmission
<1>1. ReleaseInv => DeliveryFollowsSubmission
  <2> SUFFICES ASSUME ReleaseInv PROVE DeliveryFollowsSubmission
    OBVIOUS
  <2>1. Cardinality(Credits) \in Nat
    <3>1. Credits \in SUBSET Procs /\ IsFiniteSet(Procs)
      BY ReleaseAssumption DEF Credits
    <3> QED
      BY <3>1, FS_Subset, FS_CardinalityType
  <2>2. Len(dexports) <= Len(exports)
    BY <2>1, StoreTypes DEF ReleaseInv, CreditInv
  <2>3. D!VerificationPasses
    BY SameStoresVerify DEF ReleaseInv, EP!EvidenceInv, EP!StoreInv, D!VerificationPasses
  <2> QED
    BY <2>2, <2>3 DEF DeliveryFollowsSubmission
<1> QED
  BY <1>1, ReleaseInvariant, PTL

\* As long as the bundle stays, no command of either kind rewrites or drops an event
\* of the submission's evidence.
THEOREM SubmissionAppends == ReleaseSpec => AppendOnlyWithinBundle
<1>1. ReleaseInv /\ [ReleaseNext]_releaseVars =>
        [bundle' # NoBundle => Extends(exports', exports) /\ Extends(ledger', ledger)]_evidenceVars
  BY ReleaseNextKeeps
<1> QED
  BY <1>1, ReleaseInvariant, PTL DEF ReleaseSpec, AppendOnlyWithinBundle

\* And none of the delivery's.
THEOREM DeliveryAppends == ReleaseSpec => D!AppendOnlyWithinBundle
<1>1. ReleaseInv /\ [ReleaseNext]_releaseVars =>
        [bundle' # D!NoBundle => D!Extends(dexports', dexports) /\ D!Extends(dledger', dledger)]_(D!evidenceVars)
  BY ReleaseNextKeeps DEF D!Extends, EP!Extends, D!NoBundle, NoBundle
<1> QED
  BY <1>1, ReleaseInvariant, PTL DEF ReleaseSpec, D!AppendOnlyWithinBundle
=============================================================================
