------------------------------- MODULE Release -------------------------------
(***************************************************************************)
(* The commands about one offer together: generate-offer.js,               *)
(* approve-release.js, export-release.js, record-submission-outcome.js,    *)
(* record-delivery-outcome.js, verify-submission-evidence.js and           *)
(* verify-delivery-evidence.js.  The evidence of the delivery is a second  *)
(* instance of Evidence in the same bundle; an export is recorded in both, *)
(* first as a submission.                                                  *)
(***************************************************************************)
EXTENDS Evidence

CONSTANT DeliveryTargets   \* direct_delivery_targets of the offer

ASSUME ReleaseAssumption == Kind = "submission" /\ IsFiniteSet(Procs)

VARIABLES dexports, dledger, dfiles, dlock, dverified

deliveryVars == <<dexports, dledger, dfiles, dlock, dverified>>
releaseVars == <<evidenceVars, deliveryVars>>

D == INSTANCE Evidence WITH Kind <- "delivery", Targets <- DeliveryTargets,
       exports <- dexports, ledger <- dledger, files <- dfiles, lock <- dlock,
       verified <- dverified

ReleaseInit == EvidenceInit /\ D!StoresInit

\* The script has recorded the submission, and goes on to the delivery.
Pending_Skipped == Idle
Pending == [Idle EXCEPT !.at = "delivery"]

\* record-submission-outcome.js, verify-submission-evidence.js and the first half
\* of export-release.js
AfterSubmission(p) == IF call[p].op = "ensure" /\ DeliveryTargets # {} THEN Pending ELSE Idle
SubmissionStep(p) ==
  /\ \/ WithLock(p) \/ RecordOutcome(p) \/ RecordExport(p, Idle) \/ VerifyOffer(p)
     \/ RebuildDerived(p, AfterSubmission(p)) \/ Crash(p)
  /\ UNCHANGED deliveryVars

\* record-delivery-outcome.js, verify-delivery-evidence.js and the other half
DeliveryLock(p) == D!WithLock(p)
DeliveryOutcome(p) == D!RecordOutcome(p)
DeliveryExport(p) == D!RecordExport(p, Pending)
DeliveryVerify(p) == D!VerifyOffer(p)
DeliveryDerived(p) == D!RebuildDerived(p, Idle)
DeliveryStep(p) ==
  /\ \/ DeliveryLock(p) \/ DeliveryOutcome(p) \/ DeliveryExport(p) \/ DeliveryVerify(p)
     \/ DeliveryDerived(p) \/ D!Crash(p)
  /\ UNCHANGED <<exports, ledger, files, lock, verified>>

\* The script ends in between, or finds the bundle edited: the export is recorded
\* as a submission only.
HalfExported(p) ==
  /\ call[p] = Pending
  /\ \/ ~ValidateApprovedRelease /\ crashes' = crashes
     \/ crashes < MaxCrashes /\ crashes' = crashes + 1
  /\ call' = [call EXCEPT ![p] = Idle]
  /\ UNCHANGED <<storeVars, deliveryVars, outcomes, verifies, bundleVars>>

BundleCommand ==
  /\ BundleStep
  /\ IF bundle' = NoBundle /\ bundle # NoBundle THEN D!EvidenceRemoved ELSE UNCHANGED deliveryVars
  /\ UNCHANGED <<call, countVars>>

ReleaseNext ==
  \/ \E p \in Procs : SubmissionStep(p) \/ DeliveryStep(p) \/ HalfExported(p)
  \/ BundleCommand

ReleaseSpec == ReleaseInit /\ [][ReleaseNext]_releaseVars
-----------------------------------------------------------------------------
\* A delivery is exported only with a submission: the delivery's evidence has
\* never more export events than the submission's, and passes its verification.
DeliveryFollowsSubmission == Len(dexports) <= Len(exports) /\ D!VerificationPasses
=============================================================================
