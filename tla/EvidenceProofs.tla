---------------------------- MODULE EvidenceProofs ----------------------------
(***************************************************************************)
(* Proofs about one kind of evidence, for any number of processes, keys,   *)
(* targets and contents, and whatever the bounds: what calls leave passes  *)
(* a full verification, a key names one outcome, and nothing is rewritten  *)
(* while the bundle stays.  The lemmas are about a step of one call with   *)
(* any predecessor and successor, so that ReleaseProofs can use them for   *)
(* both kinds.                                                             *)
(***************************************************************************)
EXTENDS Evidence, SequenceTheorems, WellFoundedInduction, NaturalsInduction, TLAPS

-----------------------------------------------------------------------------
(* Sequences and sets of positions.                                         *)

\* The last of some positions of a sequence exists.
LEMMA LastExists ==
  ASSUME NEW n \in Nat, NEW S \in SUBSET (1..n), S # {}
  PROVE  Last(S) \in S
<1> DEFINE distances == {n - i : i \in S}
<1>1. distances \subseteq Nat /\ distances # {}
  <2>1. \A i \in 1..n : n - i \in Nat
    OBVIOUS
  <2>2. \A e \in distances : \E i \in S : e = n - i
    OBVIOUS
  <2>3. distances \subseteq Nat
    BY <2>1, <2>2
  <2>4. PICK i \in S : TRUE
    OBVIOUS
  <2>5. n - i \in distances
    OBVIOUS
  <2> QED
    BY <2>3, <2>5
<1>2. PICK d \in distances : \A e \in distances : <<e, d>> \notin OpToRel(<, Nat)
  <2> HIDE DEF distances
  <2> QED
    BY <1>1, WFMin, NatLessThanWellFounded
<1>3. \A e \in distances : e \in Nat /\ d \in Nat /\ ~(e < d)
  BY <1>1, <1>2 DEF OpToRel
<1>4. PICK i \in S : d = n - i
  OBVIOUS
<1>5. \A j \in S : j \in 1..n /\ i \in 1..n /\ ~(n - j < n - i)
  BY <1>3, <1>4
<1>6. \A j \in S : j <= i
  BY <1>5
<1> QED
  BY <1>6 DEF Last

\* What is appended changes no prefix.
LEMMA PrefixOfAppend ==
  ASSUME NEW T, NEW s \in Seq(T), NEW e \in T, NEW n \in 0..Len(s)
  PROVE  SubSeq(Append(s, e), 1, n) = SubSeq(s, 1, n)
<1>1. /\ Append(s, e) \in Seq(T) /\ Len(Append(s, e)) = Len(s) + 1
      /\ \A i \in 1..Len(s) : Append(s, e)[i] = s[i]
  OBVIOUS
<1>2. /\ SubSeq(Append(s, e), 1, n) \in Seq(T) /\ Len(SubSeq(Append(s, e), 1, n)) = n
      /\ \A i \in 1..n : SubSeq(Append(s, e), 1, n)[i] = s[i]
  BY <1>1, SubSeqProperties
<1>3. /\ SubSeq(s, 1, n) \in Seq(T) /\ Len(SubSeq(s, 1, n)) = n
      /\ \A i \in 1..n : SubSeq(s, 1, n)[i] = s[i]
  BY SubSeqProperties
<1> QED
  BY <1>2, <1>3, SeqEqual

LEMMA AppendExtends ==
  ASSUME NEW T, NEW s \in Seq(T), NEW e \in T
  PROVE  Extends(Append(s, e), s) /\ Extends(s, s)
<1>1. SubSeq(s, 1, Len(s)) = s
  BY SubSeqFull
<1> QED
  BY <1>1, PrefixOfAppend DEF Extends

-----------------------------------------------------------------------------
(* Types.                                                                   *)

\* What any call of this kind, or of none, may be changed to.
Evolves(p) ==
  /\ call' = [call EXCEPT ![p] = call'[p]]
  /\ call'[p] \in CallType
Typed == TypeOK /\ call = [p \in Procs |-> call[p]]

LEMMA CallUpdates ==
  ASSUME NEW c \in CallType
  PROVE  /\ [c EXCEPT !.at = "locked"] \in CallType
         /\ [c EXCEPT !.at = "derive"] \in CallType
         /\ [c EXCEPT !.at = "snapshots"] \in CallType
         /\ \A base \in Seq(EventType) : [c EXCEPT !.at = "staged", !.base = base] \in CallType
<1>1. [c EXCEPT !.at = "locked"] \in CallType /\ [c EXCEPT !.at = "derive"] \in CallType
  BY DEF CallType
<1>2. [c EXCEPT !.at = "snapshots"] \in CallType
  BY DEF CallType
<1>3. ASSUME NEW base \in Seq(EventType) PROVE [c EXCEPT !.at = "staged", !.base = base] \in CallType
  BY DEF CallType
<1> QED
  BY <1>1, <1>2, <1>3

LEMMA IdleTyped == Idle \in CallType /\ Idle.at = "idle" /\ Idle.kind = "none" /\ Idle.op = "none"
<1>1. <<>> \in Seq(EventType)
  OBVIOUS
<1> QED
  BY <1>1 DEF Idle, CallType, Nothing

\* The state derived from the events of a target is one of its states.
LEMMA DerivedIsState ==
  ASSUME NEW events \in Seq(EventType), NEW target
  PROVE  DeriveCurrentState(events, target) \in States
<1>1. Ready \in States
  BY EvidenceAssumption DEF Ready, States, ALLOWED_TRANSITIONS, SubmissionTransitions, DeliveryTransitions
<1>2. CASE EventsOf(events, target) = {}
  BY <1>1, <1>2 DEF DeriveCurrentState
<1>3. CASE EventsOf(events, target) # {}
  <2>1. EventsOf(events, target) \subseteq 1..Len(events) /\ Len(events) \in Nat
    BY DEF EventsOf
  <2>2. Last(EventsOf(events, target)) \in 1..Len(events)
    BY <1>3, <2>1, LastExists
  <2>3. events[Last(EventsOf(events, target))] \in EventType
    BY <2>2
  <2> QED
    BY <1>3, <2>3 DEF DeriveCurrentState, EventType
<1> QED
  BY <1>2, <1>3

LEMMA EventTyped ==
  ASSUME NEW c \in CallType, NEW events \in Seq(EventType),
         c.key \in Keys, c.target \in Targets, c.to \in States, c.payload \in Payloads, c.hash \in Contents
  PROVE  Event(c, events) \in EventType
<1>1. DeriveCurrentState(events, c.target) \in States /\ Len(events) + 1 \in Nat
  BY DerivedIsState
<1> QED
  BY <1>1 DEF Event, EventType

-----------------------------------------------------------------------------
(* The inductive invariant.                                                 *)

\* An approval is of what was generated, and of nothing while the bundle is away.
BundleInv ==
  /\ bundle.approval # NoContent => bundle.approval = bundle.manifest
  /\ generator = "removed" => bundle = NoBundle

HasLock(c) ==
  /\ c.kind = Kind
  /\ \/ c.at \in {"locked", "staged"}
     \/ c.op = "outcome" /\ c.at \in {"derive", "snapshots"}
Recording(c) == c.kind = Kind /\ c.op = "outcome" /\ c.at \in {"wait", "locked", "staged"}
Exporting(c) == c.kind = Kind /\ c.op = "export" /\ c.at \in {"wait", "locked"}

\* A call that is about to write its event read the ledger as it still is, and has
\* its attachment in place.
Staged(c) ==
  /\ c.op = "outcome" /\ c.base = ledger /\ IsNew(c)
  /\ c.payload \in FilePayloads => Attachment(StoredName(c, Len(ledger) + 1), TRUE) \in files

CallInv(p) ==
  /\ call[p].at # "idle" => bundle.approval # NoContent
  /\ call[p].kind = Kind => call[p].at # "idle"
  /\ call[p].kind = Kind /\ call[p].at = "verify" => call[p].op = "verify"
  /\ Exporting(call[p]) \/ Recording(call[p]) => call[p].hash = bundle.approval
  /\ Recording(call[p]) =>
       /\ call[p].key \in Keys /\ call[p].target \in Targets
       /\ call[p].to \in States /\ call[p].payload \in Payloads
  /\ HasLock(call[p]) => lock = p
  /\ call[p].kind = Kind /\ call[p].at = "staged" => Staged(call[p])

\* Before an approval there is no evidence, and what there is verifies.
StoreInv ==
  /\ bundle.approval = NoContent => exports = <<>> /\ ledger = <<>>
  /\ StoresVerify

EvidenceInv ==
  /\ Typed /\ BundleInv /\ StoreInv /\ KeyRecordedOnce
  /\ \A p \in Procs : CallInv(p)

ExportType == [hash : Contents, targets : SUBSET Targets]
FileType == [seq : Nat, target : Targets, payload : FilePayloads, intact : BOOLEAN]

LEMMA CoverGrows ==
  ASSUME NEW store \in Seq(ExportType), NEW e \in ExportType, NEW target, NEW hash, Covered(store, target, hash)
  PROVE  Covered(Append(store, e), target, hash)
<1>1. PICK i \in DOMAIN store : target \in store[i].targets /\ store[i].hash = hash
  BY DEF Covered, GetExportCoverage
<1>2. i \in DOMAIN Append(store, e) /\ Append(store, e)[i] = store[i]
  BY <1>1
<1> QED
  BY <1>1, <1>2 DEF Covered, GetExportCoverage

\* What a step may do to the exports: nothing, or append what verifies.
ExportsGrow ==
  \/ exports' = exports
  \/ \E e \in ExportType : exports' = Append(exports, e) /\ ExportVerifies(e)

LEMMA CoverKept ==
  ASSUME Typed, ExportsGrow, NEW target, NEW hash, Covered(exports, target, hash)
  PROVE  Covered(exports', target, hash)
<1>1. exports \in Seq(ExportType)
  BY DEF Typed, TypeOK, ExportType
<1>2. CASE exports' = exports
  BY <1>2
<1>3. ASSUME NEW e \in ExportType, exports' = Append(exports, e)
      PROVE  Covered(exports', target, hash)
  BY <1>1, <1>3, CoverGrows
<1> QED
  BY <1>2, <1>3 DEF ExportsGrow

\* A step of p that leaves the ledger alone, or has the lock, keeps what holds of
\* another call.
LEMMA OthersKept ==
  ASSUME EvidenceInv, NEW p \in Procs, NEW q \in Procs, q # p, call'[q] = call[q],
         UNCHANGED bundleVars, files \subseteq files', ExportsGrow,
         ledger' = ledger \/ lock = p, lock' = lock \/ lock \in {NoProc, p}
  PROVE  CallInv(q)'
<1>1. CallInv(q) /\ Typed
  BY DEF EvidenceInv
<1>2. HasLock(call[q]) => lock = q /\ lock' = q /\ ledger' = ledger
  BY <1>1, EvidenceAssumption DEF CallInv
<1>3. call[q].kind = Kind /\ call[q].at = "staged" => Staged(call[q])'
  <2> SUFFICES ASSUME call[q].kind = Kind, call[q].at = "staged" PROVE Staged(call[q])'
    OBVIOUS
  <2>1. Staged(call[q]) /\ ledger' = ledger
    BY <1>1, <1>2 DEF CallInv, HasLock
  <2>2. IsNew(call[q])'
    BY <2>1, <1>1, CoverKept DEF Staged, IsNew
  <2> QED
    BY <2>1, <2>2 DEF Staged
<1> QED
  BY <1>1, <1>2, <1>3 DEF CallInv, HasLock, Recording, Exporting, bundleVars

\* The stores still verify when no event is recorded.
LEMMA StoreKept ==
  ASSUME EvidenceInv, UNCHANGED bundleVars, files \subseteq files', ExportsGrow, ledger' = ledger,
         exports' = exports \/ bundle.approval # NoContent
  PROVE  StoreInv' /\ KeyRecordedOnce'
<1>1. Typed /\ StoreInv /\ KeyRecordedOnce
  BY DEF EvidenceInv
<1>2. (\A i \in DOMAIN exports : ExportVerifies(exports[i]))'
  <2>1. CASE exports' = exports
    BY <1>1, <2>1 DEF StoreInv, StoresVerify, ExportVerifies, bundleVars
  <2>2. CASE exports' # exports
    <3>1. PICK e \in ExportType : exports' = Append(exports, e) /\ ExportVerifies(e)
      BY <2>2 DEF ExportsGrow
    <3>2. exports \in Seq(ExportType)
      BY <1>1 DEF Typed, TypeOK, ExportType
    <3>3. \A i \in DOMAIN exports' : (i \in DOMAIN exports /\ exports'[i] = exports[i]) \/ exports'[i] = e
      BY <3>1, <3>2
    <3> QED
      BY <1>1, <3>1, <3>3 DEF StoreInv, StoresVerify, ExportVerifies, bundleVars
  <2> QED
    BY <2>1, <2>2
<1>3. (\A i \in DOMAIN ledger : OutcomeVerifies(ledger[i]))'
  BY <1>1, CoverKept DEF StoreInv, StoresVerify, OutcomeVerifies, bundleVars
<1>4. (\A i \in DOMAIN ledger : AttachmentVerifies(ledger[i]))'
  BY <1>1 DEF StoreInv, StoresVerify, AttachmentVerifies
<1>5. ChainVerifies(ledger)' /\ KeyRecordedOnce'
  BY <1>1 DEF StoreInv, StoresVerify, ChainVerifies, KeyRecordedOnce
<1>6. (\A t \in Targets : LegalPath(ledger, t))'
  BY <1>1 DEF StoreInv, StoresVerify
<1> QED
  BY <1>1, <1>2, <1>3, <1>4, <1>5, <1>6 DEF StoreInv, StoresVerify, bundleVars

-----------------------------------------------------------------------------
(* The steps of a call.                                                     *)

\* A step of p that records no event keeps the invariant when its own call does.
LEMMA QuietStep ==
  ASSUME EvidenceInv, NEW p \in Procs, Evolves(p), CallInv(p)',
         UNCHANGED bundleVars, ledger' = ledger, ExportsGrow,
         exports' = exports \/ bundle.approval # NoContent,
         files \subseteq files', files' \subseteq FileType,
         lock' = lock \/ lock \in {NoProc, p}, lock' \in Procs \cup {NoProc, Ended},
         verified' \in [exports : Nat, events : Nat]
  PROVE  EvidenceInv'
<1>1. \A q \in Procs : q # p => call'[q] = call[q]
  BY DEF Evolves, EvidenceInv, Typed
<1>2. \A q \in Procs : CallInv(q)'
  BY <1>1, OthersKept
<1>3. exports' \in Seq(ExportType)
  <2>1. exports \in Seq(ExportType)
    BY DEF EvidenceInv, Typed, TypeOK, ExportType
  <2> QED
    BY <2>1 DEF ExportsGrow
<1>4. TypeOK'
  <2>1. \A q \in Procs : call'[q].kind \in {Kind, "none"} => call'[q] \in CallType
    BY <1>1 DEF EvidenceInv, Typed, TypeOK, Evolves
  <2> QED
    BY <2>1, <1>3 DEF EvidenceInv, Typed, TypeOK, ExportType, FileType, bundleVars
<1>5. (call = [q \in Procs |-> call[q]])'
  BY DEF Evolves, EvidenceInv, Typed
<1>6. BundleInv'
  BY DEF EvidenceInv, BundleInv, bundleVars, NoBundle
<1> QED
  BY <1>2, <1>4, <1>5, <1>6, StoreKept DEF EvidenceInv, Typed

\* Nothing but the call and the lock changes.
LEMMA CallStep ==
  ASSUME EvidenceInv, NEW p \in Procs, Evolves(p), CallInv(p)',
         UNCHANGED <<bundleVars, exports, ledger, files>>,
         lock' = lock \/ lock \in {NoProc, p}, lock' \in Procs \cup {NoProc, Ended},
         verified' \in [exports : Nat, events : Nat]
  PROVE  EvidenceInv'
<1>1. files' \subseteq FileType
  BY DEF EvidenceInv, Typed, TypeOK, FileType
<1> QED
  BY <1>1, QuietStep DEF ExportsGrow

\* A call that ends leaves nothing to hold.
LEMMA EndedCall ==
  ASSUME EvidenceInv, NEW p \in Procs, NEW after \in CallType, after.kind = "none",
         call' = [call EXCEPT ![p] = after], UNCHANGED bundleVars,
         after.at = "idle" \/ bundle.approval # NoContent
  PROVE  Evolves(p) /\ CallInv(p)'
<1>1. call'[p] = after
  BY DEF EvidenceInv, Typed
<1>2. Evolves(p)
  BY <1>1 DEF Evolves
<1>3. after.kind # Kind
  BY EvidenceAssumption
<1> QED
  BY <1>1, <1>2, <1>3 DEF CallInv, Exporting, Recording, HasLock, bundleVars

LEMMA EndedNow ==
  ASSUME EvidenceInv, NEW p \in Procs, call' = [call EXCEPT ![p] = Idle], UNCHANGED bundleVars
  PROVE  Evolves(p) /\ CallInv(p)'
BY EndedCall, IdleTyped

LEMMA KindTyped ==
  ASSUME EvidenceInv, NEW p \in Procs, call[p].kind = Kind
  PROVE  call[p] \in CallType
BY DEF EvidenceInv, Typed, TypeOK

LEMMA LockStep ==
  ASSUME EvidenceInv, NEW p \in Procs, WithLock(p)
  PROVE  EvidenceInv'
<1>1. CASE AcquireLock(p)
  <2>1. /\ call[p].at = "wait" /\ call[p].kind = Kind /\ lock = NoProc /\ lock' = p
        /\ call' = [call EXCEPT ![p].at = "locked"]
        /\ UNCHANGED <<bundleVars, exports, ledger, files, verified>>
    BY <1>1 DEF AcquireLock
  <2>2. call'[p] = [call[p] EXCEPT !.at = "locked"] /\ call[p] \in CallType /\ call'[p] \in CallType
    BY <2>1, KindTyped, CallUpdates DEF EvidenceInv, Typed
  <2>3. /\ call'[p].at = "locked" /\ call'[p].kind = Kind /\ call'[p].op = call[p].op
        /\ call'[p].hash = call[p].hash /\ call'[p].key = call[p].key /\ call'[p].to = call[p].to
        /\ call'[p].target = call[p].target /\ call'[p].payload = call[p].payload
    BY <2>1, <2>2 DEF CallType
  <2>4. Evolves(p)
    BY <2>1, <2>2 DEF Evolves
  <2>5. CallInv(p)
    BY DEF EvidenceInv
  <2>6. CallInv(p)'
    BY <2>1, <2>3, <2>5 DEF CallInv, Exporting, Recording, HasLock, bundleVars
  <2> QED
    BY <2>1, <2>4, <2>6, CallStep DEF EvidenceInv, Typed, TypeOK
<1>2. CASE LockTimeout(p)
  <2>1. call' = [call EXCEPT ![p] = Idle] /\ UNCHANGED <<bundleVars, exports, ledger, files, verified, lock>>
    BY <1>2 DEF LockTimeout, UNCHANGED_ButCall, storeVars
  <2> QED
    BY <2>1, EndedNow, CallStep DEF EvidenceInv, Typed, TypeOK
<1> QED
  BY <1>1, <1>2 DEF WithLock

\* A call that is refused had the lock and gives it back.
LEMMA RefuseStep ==
  ASSUME EvidenceInv, NEW p \in Procs, HasLock(call[p]), Refuse(p)
  PROVE  EvidenceInv'
<1>1. /\ lock' = NoProc /\ call' = [call EXCEPT ![p] = Idle]
      /\ UNCHANGED <<bundleVars, exports, ledger, files, verified>>
  BY DEF Refuse, ReleaseLock
<1>2. lock = p
  BY DEF EvidenceInv, CallInv
<1> QED
  BY <1>1, <1>2, EndedNow, CallStep DEF EvidenceInv, Typed, TypeOK

\* A call begins: it has an approval, and nothing yet.
LEMMA BegunCall ==
  ASSUME EvidenceInv, NEW p \in Procs, NEW c \in CallType, call' = [call EXCEPT ![p] = c],
         c.kind = Kind, c.at \in {"wait", "verify"}, ValidateApprovedRelease, UNCHANGED bundleVars,
         c.op = "verify" \/ c.hash = bundle.approval,
         c.op = "outcome" =>
           c.key \in Keys /\ c.target \in Targets /\ c.to \in States /\ c.payload \in Payloads,
         c.op \in {"outcome", "export", "verify"}, c.at = "verify" => c.op = "verify"
  PROVE  Evolves(p) /\ CallInv(p)'
<1>1. call'[p] = c
  BY DEF EvidenceInv, Typed
<1>2. Evolves(p)
  BY <1>1 DEF Evolves
<1>3. bundle.approval # NoContent
  BY DEF ValidateApprovedRelease
<1> QED
  BY <1>1, <1>2, <1>3 DEF CallInv, Exporting, Recording, HasLock, bundleVars

LEMMA ApprovedContent ==
  ASSUME EvidenceInv, ValidateApprovedRelease
  PROVE  bundle.approval \in Contents
BY DEF EvidenceInv, Typed, TypeOK, ValidateApprovedRelease

LEMMA OutcomeCallTyped ==
  ASSUME NEW key \in Keys, NEW target \in Targets, NEW to \in States, NEW payload \in Payloads,
         NEW hash \in Contents
  PROVE  [Idle EXCEPT !.at = "wait", !.op = "outcome", !.kind = Kind, !.key = key, !.target = target,
                      !.to = to, !.payload = payload, !.hash = hash] \in CallType
BY IdleTyped, EvidenceAssumption DEF CallType

LEMMA OutcomeBegins ==
  ASSUME EvidenceInv, NEW p \in Procs, BeginOutcome(p)
  PROVE  EvidenceInv'
<1>1. PICK key \in Keys, target \in Targets, to \in Reported \cap States, payload \in Payloads :
        call' = [call EXCEPT ![p] = [Idle EXCEPT !.at = "wait", !.op = "outcome", !.kind = Kind,
                   !.key = key, !.target = target, !.to = to, !.payload = payload, !.hash = bundle.approval]]
  BY DEF BeginOutcome
<1>2. ValidateApprovedRelease /\ UNCHANGED <<bundleVars, exports, ledger, files, verified, lock>>
  BY DEF BeginOutcome, storeVars
<1> DEFINE c == [Idle EXCEPT !.at = "wait", !.op = "outcome", !.kind = Kind,
                   !.key = key, !.target = target, !.to = to, !.payload = payload, !.hash = bundle.approval]
<1>3. c \in CallType
  BY <1>2, ApprovedContent, OutcomeCallTyped
<1>4. /\ c.kind = Kind /\ c.at = "wait" /\ c.op = "outcome" /\ c.hash = bundle.approval
      /\ c.key = key /\ c.target = target /\ c.to = to /\ c.payload = payload
  BY DEF Idle
<1>5. call' = [call EXCEPT ![p] = c]
  BY <1>1
<1> HIDE DEF c
<1>6. Evolves(p) /\ CallInv(p)'
  BY <1>2, <1>3, <1>4, <1>5, BegunCall
<1> QED
  BY <1>2, <1>6, CallStep DEF EvidenceInv, Typed, TypeOK

LEMMA RecordingLocked ==
  ASSUME EvidenceInv, NEW p \in Procs, call[p].kind = Kind, call[p].at \in {"locked", "staged"},
         call[p].op = "outcome"
  PROVE  /\ call[p] \in CallType /\ lock = p /\ bundle.approval # NoContent
         /\ call[p].hash = bundle.approval /\ call[p].hash \in Contents
         /\ call[p].key \in Keys /\ call[p].target \in Targets
         /\ call[p].to \in States /\ call[p].payload \in Payloads
<1>1. call[p] \in CallType /\ CallInv(p) /\ TypeOK
  BY KindTyped DEF EvidenceInv, Typed
<1>2. Recording(call[p]) /\ HasLock(call[p])
  BY DEF Recording, HasLock
<1> QED
  BY <1>1, <1>2 DEF CallInv, TypeOK

LEMMA LedgerTyped == EvidenceInv => ledger \in Seq(EventType) /\ Len(ledger) \in Nat
BY DEF EvidenceInv, Typed, TypeOK

LEMMA AttachmentTyped ==
  ASSUME EvidenceInv, NEW p \in Procs, call[p].kind = Kind, call[p].at = "locked", call[p].op = "outcome",
         call[p].payload \in FilePayloads, NEW intact \in BOOLEAN
  PROVE  Attachment(StoredName(call[p], Len(ledger) + 1), intact) \in FileType
<1>1. call[p].target \in Targets /\ Len(ledger) + 1 \in Nat
  BY RecordingLocked, LedgerTyped
<1> QED
  BY <1>1 DEF Attachment, StoredName, FileType

LEMMA StageStep ==
  ASSUME EvidenceInv, NEW p \in Procs, StageAttachments(p)
  PROVE  EvidenceInv'
<1>1. /\ call[p].at = "locked" /\ call[p].op = "outcome" /\ call[p].kind = Kind /\ IsNew(call[p])
      /\ call' = [call EXCEPT ![p].at = "staged", ![p].base = ledger]
      /\ UNCHANGED <<bundleVars, exports, ledger, lock, verified>>
  BY DEF StageAttachments
<1> DEFINE a == Attachment(StoredName(call[p], Len(ledger) + 1), TRUE)
<1>2. files' = files \cup (IF call[p].payload \in FilePayloads THEN {a} ELSE {})
  BY DEF StageAttachments
<1>3. files \subseteq files' /\ files' \subseteq FileType /\ (call[p].payload \in FilePayloads => a \in files')
  <2>1. files \subseteq FileType
    BY DEF EvidenceInv, Typed, TypeOK, FileType
  <2>2. call[p].payload \in FilePayloads => a \in FileType
    BY <1>1, AttachmentTyped
  <2> QED
    BY <1>2, <2>1, <2>2
<1>4. call'[p] = [call[p] EXCEPT !.at = "staged", !.base = ledger] /\ call[p] \in CallType
  BY <1>1, RecordingLocked DEF EvidenceInv, Typed
<1>5. call'[p] \in CallType
  BY <1>4, LedgerTyped, CallUpdates
<1>6. /\ call'[p].at = "staged" /\ call'[p].kind = Kind /\ call'[p].op = "outcome" /\ call'[p].base = ledger
      /\ call'[p].hash = call[p].hash /\ call'[p].key = call[p].key /\ call'[p].to = call[p].to
      /\ call'[p].target = call[p].target /\ call'[p].payload = call[p].payload
  <2> DEFINE c == call[p]
             d == call'[p]
  <2>1. d = [c EXCEPT !.at = "staged", !.base = ledger] /\ c \in CallType
    BY <1>4
  <2> HIDE DEF c, d
  <2>2. /\ d.at = "staged" /\ d.kind = c.kind /\ d.op = c.op /\ d.base = ledger
        /\ d.hash = c.hash /\ d.key = c.key /\ d.to = c.to /\ d.target = c.target
        /\ d.payload = c.payload
    BY <2>1 DEF CallType
  <2> QED
    BY <1>1, <2>2 DEF c, d
<1>7. Evolves(p)
  BY <1>1, <1>4, <1>5 DEF Evolves
<1>8. Staged(call[p])'
  BY <1>1, <1>3, <1>6 DEF Staged, IsNew, StoredName
<1>9. CallInv(p)'
  BY <1>1, <1>6, <1>8, RecordingLocked DEF CallInv, Exporting, Recording, HasLock, bundleVars
<1> QED
  BY <1>1, <1>3, <1>7, <1>9, QuietStep DEF ExportsGrow, EvidenceInv, Typed, TypeOK

LEMMA MismatchStep ==
  ASSUME EvidenceInv, NEW p \in Procs, StagingMismatch(p)
  PROVE  EvidenceInv'
<1>1. /\ call[p].at = "locked" /\ call[p].op = "outcome" /\ call[p].kind = Kind
      /\ call[p].payload \in FilePayloads
      /\ files' = files \cup {Attachment(StoredName(call[p], Len(ledger) + 1), FALSE)}
      /\ lock' = NoProc /\ call' = [call EXCEPT ![p] = Idle]
      /\ UNCHANGED <<bundleVars, exports, ledger, verified>>
  BY DEF StagingMismatch, ReleaseLock
<1>2. files' \subseteq FileType
  BY <1>1, AttachmentTyped DEF EvidenceInv, Typed, TypeOK, FileType
<1> QED
  BY <1>1, <1>2, EndedNow, RecordingLocked, QuietStep DEF ExportsGrow, EvidenceInv, Typed, TypeOK

\* An event that a staged call appends is legal, covered and attached.
LEMMA AppendedVerifies ==
  ASSUME EvidenceInv, NEW p \in Procs, call[p].kind = Kind, call[p].at = "staged", Staged(call[p]),
         ledger' = Append(ledger, Event(call[p], ledger)), UNCHANGED <<bundleVars, exports, files>>
  PROVE  StoreInv' /\ KeyRecordedOnce' /\ ledger' \in Seq(EventType)
<1> DEFINE e == Event(call[p], ledger)
<1>1. /\ call[p] \in CallType /\ call[p].op = "outcome" /\ IsNew(call[p])
      /\ bundle.approval # NoContent /\ call[p].hash = bundle.approval /\ call[p].target \in Targets
      /\ e \in EventType
  <2>1. call[p].op = "outcome" /\ IsNew(call[p])
    BY DEF Staged
  <2>2. ledger \in Seq(EventType)
    BY LedgerTyped
  <2> QED
    BY <2>1, <2>2, RecordingLocked, EventTyped
<1>2. /\ e.seq = Len(ledger) + 1 /\ e.hash = call[p].hash /\ e.target = call[p].target /\ e.key = call[p].key
      /\ e.payload = call[p].payload /\ e.to = call[p].to
      /\ e.from = DeriveCurrentState(ledger, call[p].target)
  BY DEF Event
<1> HIDE DEF e
<1>3. /\ ledger' = Append(ledger, e) /\ ledger \in Seq(EventType) /\ Len(ledger) \in Nat
      /\ ledger' \in Seq(EventType) /\ DOMAIN ledger' = 1..Len(ledger) + 1 /\ DOMAIN ledger = 1..Len(ledger)
      /\ \A i \in DOMAIN ledger : ledger'[i] = ledger[i]
      /\ ledger'[Len(ledger) + 1] = e
  BY <1>1, LedgerTyped DEF e
<1>4. \A i \in DOMAIN ledger' : (i \in DOMAIN ledger /\ ledger'[i] = ledger[i])
                             \/ (i = Len(ledger) + 1 /\ ledger'[i] = e)
  BY <1>3
<1>5. StoresVerify /\ KeyRecordedOnce
  BY DEF EvidenceInv, StoreInv
<1>6. ChainVerifies(ledger)'
  BY <1>2, <1>4, <1>5 DEF StoresVerify, ChainVerifies
<1>7. (\A i \in DOMAIN exports : ExportVerifies(exports[i]))'
  BY <1>5 DEF StoresVerify, ExportVerifies, bundleVars
<1>8. (\A i \in DOMAIN ledger : OutcomeVerifies(ledger[i]))'
  <2>1. Covered(exports, e.target, bundle.approval)
    BY <1>1, <1>2 DEF IsNew
  <2>2. OutcomeVerifies(e)
    BY <1>1, <1>2, <2>1 DEF OutcomeVerifies
  <2>3. \A i \in DOMAIN ledger' : OutcomeVerifies(ledger'[i])
    BY <1>4, <1>5, <2>2 DEF StoresVerify
  <2> QED
    BY <2>3 DEF OutcomeVerifies, bundleVars
<1>9. (\A t \in Targets : LegalPath(ledger, t))'
  <2> SUFFICES ASSUME NEW t \in Targets, NEW i \in EventsOf(ledger', t)
               PROVE  /\ ledger'[i].from = DeriveCurrentState(SubSeq(ledger', 1, i - 1), t)
                      /\ AssertValidTransition(ledger'[i].from, ledger'[i].to)
    BY DEF LegalPath
  <2>1. i \in DOMAIN ledger' /\ ledger'[i].target = t
    BY DEF EventsOf
  <2>2. CASE i \in DOMAIN ledger
    <3>1. i \in EventsOf(ledger, t) /\ ledger'[i] = ledger[i] /\ i - 1 \in 0..Len(ledger)
      BY <1>3, <2>1, <2>2 DEF EventsOf
    <3>2. SubSeq(ledger', 1, i - 1) = SubSeq(ledger, 1, i - 1)
      BY <1>1, <1>3, <3>1, PrefixOfAppend
    <3>3. LegalPath(ledger, t)
      BY <1>5 DEF StoresVerify
    <3> QED
      BY <3>1, <3>2, <3>3 DEF LegalPath
  <2>3. CASE i = Len(ledger) + 1
    <3>1. SubSeq(ledger', 1, i - 1) = ledger
      <4>1. SubSeq(ledger', 1, Len(ledger)) = SubSeq(ledger, 1, Len(ledger))
        BY <1>1, <1>3, PrefixOfAppend
      <4> QED
        BY <1>3, <2>3, <4>1, SubSeqFull
    <3>2. ledger'[i] = e /\ e.target = t
      BY <1>3, <2>1, <2>3
    <3> QED
      BY <1>1, <1>2, <3>1, <3>2 DEF IsNew
  <2> QED
    BY <1>3, <2>1, <2>2, <2>3
<1>10. (\A i \in DOMAIN ledger : AttachmentVerifies(ledger[i]))'
  <2>1. StoredName(e, e.seq) = StoredName(call[p], Len(ledger) + 1)
    BY <1>2 DEF StoredName
  <2>2. AttachmentVerifies(e)
    BY <1>2, <2>1 DEF AttachmentVerifies, Staged
  <2> QED
    BY <1>4, <1>5, <2>2 DEF StoresVerify, AttachmentVerifies
<1>11. KeyRecordedOnce'
  <2>1. \A i \in DOMAIN ledger : ledger[i].key # e.key
    BY <1>1, <1>2 DEF IsNew, Used
  <2> QED
    BY <1>4, <1>5, <2>1 DEF KeyRecordedOnce
<1> QED
  BY <1>1, <1>3, <1>6, <1>7, <1>8, <1>9, <1>10, <1>11 DEF StoreInv, StoresVerify, bundleVars

LEMMA WriteStep ==
  ASSUME EvidenceInv, NEW p \in Procs, WriteLedger(p)
  PROVE  EvidenceInv' /\ Extends(ledger', ledger)
<1>1. /\ call[p].at = "staged" /\ call[p].kind = Kind
      /\ call' = [call EXCEPT ![p] = [Idle EXCEPT !.at = "derive", !.op = "outcome", !.kind = Kind]]
      /\ UNCHANGED <<bundleVars, exports, files, lock, verified>>
  BY DEF WriteLedger
<1>2. Staged(call[p])
  BY <1>1 DEF EvidenceInv, CallInv
<1>3. ledger' = Append(ledger, Event(call[p], ledger))
  BY <1>2 DEF WriteLedger, Staged
<1>4. StoreInv' /\ KeyRecordedOnce' /\ ledger' \in Seq(EventType)
  BY <1>1, <1>2, <1>3, AppendedVerifies
<1>5. lock = p /\ bundle.approval # NoContent
  BY <1>1, <1>2, RecordingLocked DEF Staged
<1>6. call'[p] = [Idle EXCEPT !.at = "derive", !.op = "outcome", !.kind = Kind]
  BY <1>1 DEF EvidenceInv, Typed
<1>7. call'[p] \in CallType /\ call'[p].at = "derive" /\ call'[p].op = "outcome" /\ call'[p].kind = Kind
  <2>1. [Idle EXCEPT !.at = "derive", !.op = "outcome", !.kind = Kind] \in CallType
    BY IdleTyped, EvidenceAssumption DEF CallType
  <2> QED
    BY <1>6, <2>1 DEF Idle
<1>8. \A q \in Procs : q # p => call'[q] = call[q]
  BY <1>1 DEF EvidenceInv, Typed
<1>9. \A q \in Procs : CallInv(q)'
  <2>1. CallInv(p)'
    BY <1>1, <1>5, <1>7 DEF CallInv, Exporting, Recording, HasLock, bundleVars
  <2> QED
    BY <1>1, <1>5, <1>8, <2>1, OthersKept DEF ExportsGrow
<1>10. Typed'
  <2>1. \A q \in Procs : call'[q].kind \in {Kind, "none"} => call'[q] \in CallType
    BY <1>7, <1>8 DEF EvidenceInv, Typed, TypeOK
  <2>2. TypeOK'
    BY <1>1, <1>4, <2>1 DEF EvidenceInv, Typed, TypeOK, bundleVars
  <2> QED
    BY <1>1, <2>2 DEF EvidenceInv, Typed
<1>11. BundleInv'
  BY <1>1 DEF EvidenceInv, BundleInv, bundleVars, NoBundle
<1>12. Extends(ledger', ledger)
  <2>1. Event(call[p], ledger) \in EventType
    BY <1>1, <1>2, RecordingLocked, EventTyped, LedgerTyped DEF Staged
  <2> QED
    BY <1>3, <2>1, LedgerTyped, AppendExtends
<1> QED
  BY <1>4, <1>9, <1>10, <1>11, <1>12 DEF EvidenceInv

LEMMA OutcomeStep ==
  ASSUME EvidenceInv, NEW p \in Procs, RecordOutcome(p)
  PROVE  EvidenceInv'
<1>1. CASE OutcomeRefused(p) \/ StagingBlocked(p)
  <2>1. call[p].at = "locked" /\ call[p].kind = Kind /\ Refuse(p)
    BY <1>1 DEF OutcomeRefused, StagingBlocked
  <2> QED
    BY <2>1, RefuseStep DEF HasLock
<1> QED
  BY <1>1, OutcomeBegins, StageStep, MismatchStep, WriteStep DEF RecordOutcome

LEMMA ExportBegins ==
  ASSUME EvidenceInv, NEW p \in Procs, NEW before, BeginExport(p, before)
  PROVE  EvidenceInv'
<1> DEFINE c == [Idle EXCEPT !.at = "wait", !.op = "export", !.kind = Kind, !.hash = bundle.approval]
<1>1. /\ call' = [call EXCEPT ![p] = c] /\ ValidateApprovedRelease
      /\ UNCHANGED <<bundleVars, exports, ledger, files, verified, lock>>
  BY DEF BeginExport, UNCHANGED_ButCall, storeVars
<1>2. c \in CallType
  BY <1>1, ApprovedContent, IdleTyped, EvidenceAssumption DEF CallType
<1>3. c.kind = Kind /\ c.at = "wait" /\ c.op = "export" /\ c.hash = bundle.approval
  BY DEF Idle
<1> HIDE DEF c
<1>4. Evolves(p) /\ CallInv(p)'
  BY <1>1, <1>2, <1>3, BegunCall
<1> QED
  BY <1>1, <1>4, CallStep DEF EvidenceInv, Typed, TypeOK

\* The event that an export appends is of the approval it began with.
LEMMA ExportAppends ==
  ASSUME EvidenceInv, NEW p \in Procs, AppendExportEvent(p)
  PROVE  EvidenceInv' /\ Extends(exports', exports) /\ Len(exports') = Len(exports) + 1
<1> DEFINE e == [hash |-> call[p].hash, targets |-> Targets]
           c == [Idle EXCEPT !.at = "wait", !.op = "ensure", !.kind = Kind]
<1>1. /\ call[p].at = "locked" /\ call[p].op = "export" /\ call[p].kind = Kind
      /\ exports' = Append(exports, e) /\ lock' = NoProc /\ call' = [call EXCEPT ![p] = c]
      /\ UNCHANGED <<bundleVars, ledger, files, verified>>
  BY DEF AppendExportEvent, ReleaseLock
<1>2. lock = p /\ call[p].hash = bundle.approval /\ bundle.approval \in Contents
  BY <1>1 DEF EvidenceInv, CallInv, Exporting, HasLock, Typed, TypeOK
<1>3. e \in ExportType /\ ExportVerifies(e)
  BY <1>2 DEF ExportType, ExportVerifies
<1>4. c \in CallType /\ c.at = "wait" /\ c.op = "ensure" /\ c.kind = Kind
  <2>1. c \in CallType
    BY IdleTyped, EvidenceAssumption DEF CallType
  <2> QED
    BY <2>1 DEF Idle
<1>5. exports \in Seq(ExportType)
  BY DEF EvidenceInv, Typed, TypeOK, ExportType
<1> HIDE DEF e, c
<1>6. Evolves(p) /\ CallInv(p)'
  <2>1. call'[p] = c
    BY <1>1 DEF EvidenceInv, Typed
  <2>2. bundle.approval # NoContent
    BY <1>2, EvidenceAssumption
  <2> QED
    BY <1>1, <1>4, <2>1, <2>2 DEF Evolves, CallInv, Exporting, Recording, HasLock, bundleVars
<1>7. EvidenceInv'
  <2>1. ExportsGrow /\ bundle.approval # NoContent
    BY <1>1, <1>2, <1>3, EvidenceAssumption DEF ExportsGrow
  <2>2. files' \subseteq FileType /\ lock' \in Procs \cup {NoProc, Ended}
        /\ verified' \in [exports : Nat, events : Nat]
    BY <1>1 DEF EvidenceInv, Typed, TypeOK, FileType
  <2> QED
    BY <1>1, <1>2, <1>6, <2>1, <2>2, QuietStep
<1> QED
  BY <1>1, <1>3, <1>5, <1>7, AppendExtends

LEMMA EnsureStep ==
  ASSUME EvidenceInv, NEW p \in Procs, EnsureLedger(p)
  PROVE  EvidenceInv'
<1>1. /\ call[p].at = "locked" /\ call[p].op = "ensure" /\ call[p].kind = Kind /\ lock' = NoProc
      /\ call' = [call EXCEPT ![p].at = "derive"]
      /\ UNCHANGED <<bundleVars, exports, ledger, files, verified>>
  BY DEF EnsureLedger, ReleaseLock
<1>2. call'[p] = [call[p] EXCEPT !.at = "derive"] /\ call[p] \in CallType /\ call'[p] \in CallType
  BY <1>1, KindTyped, CallUpdates DEF EvidenceInv, Typed
<1>3. call'[p].at = "derive" /\ call'[p].kind = Kind /\ call'[p].op = "ensure"
  BY <1>1, <1>2 DEF CallType
<1>4. lock = p /\ bundle.approval # NoContent
  BY <1>1 DEF EvidenceInv, CallInv, HasLock
<1>5. Evolves(p) /\ CallInv(p)'
  BY <1>1, <1>2, <1>3, <1>4 DEF Evolves, CallInv, Exporting, Recording, HasLock, bundleVars
<1> QED
  BY <1>1, <1>4, <1>5, CallStep DEF EvidenceInv, Typed, TypeOK

LEMMA ExportStep ==
  ASSUME EvidenceInv, NEW p \in Procs, NEW before, RecordExport(p, before)
  PROVE  EvidenceInv'
BY ExportBegins, ExportAppends, EnsureStep DEF RecordExport

LEMMA VerifyStep ==
  ASSUME EvidenceInv, NEW p \in Procs, VerifyOffer(p)
  PROVE  EvidenceInv'
<1>1. ASSUME NEW mode \in {"full", "incremental"}, BeginVerify(p, mode)
      PROVE  EvidenceInv'
  <2> DEFINE c == [Idle EXCEPT !.at = "verify", !.op = "verify", !.kind = Kind, !.seen = Heads]
  <2>1. /\ call' = [call EXCEPT ![p] = c] /\ ValidateApprovedRelease
        /\ UNCHANGED <<bundleVars, exports, ledger, files, verified, lock>>
    BY <1>1 DEF BeginVerify, storeVars
  <2>2. Heads \in [exports : Nat, events : Nat]
    BY DEF Heads, EvidenceInv, Typed, TypeOK
  <2>3. c \in CallType
    BY <2>2, IdleTyped, EvidenceAssumption DEF CallType
  <2>4. c.kind = Kind /\ c.at = "verify" /\ c.op = "verify"
    BY DEF Idle
  <2> HIDE DEF c
  <2>5. Evolves(p) /\ CallInv(p)'
    BY <2>1, <2>3, <2>4, BegunCall
  <2> QED
    BY <2>1, <2>5, CallStep DEF EvidenceInv, Typed, TypeOK
<1>2. CASE WriteVerifyStatus(p)
  <2>1. /\ call[p].at = "verify" /\ call[p].kind = Kind /\ verified' = call[p].seen
        /\ UNCHANGED <<bundleVars, exports, ledger, files, lock>>
    BY <1>2 DEF WriteVerifyStatus
  <2>2. call[p] \in CallType /\ call[p].op = "verify" /\ bundle.approval # NoContent
    BY <2>1, KindTyped DEF EvidenceInv, CallInv
  <2>3. verified' \in [exports : Nat, events : Nat]
    BY <2>1, <2>2 DEF CallType
  <2>4. CASE call' = [call EXCEPT ![p] = [@ EXCEPT !.at = "derive"]]
    <3>1. call'[p] = [call[p] EXCEPT !.at = "derive"] /\ call'[p] \in CallType
      BY <2>2, <2>4, CallUpdates DEF EvidenceInv, Typed
    <3>2. call'[p].at = "derive" /\ call'[p].kind = Kind /\ call'[p].op = "verify"
      BY <2>1, <2>2, <3>1 DEF CallType
    <3>3. Evolves(p) /\ CallInv(p)'
      BY <2>1, <2>2, <2>4, <3>1, <3>2 DEF Evolves, CallInv, Exporting, Recording, HasLock, bundleVars
    <3> QED
      BY <2>1, <2>3, <3>3, CallStep DEF EvidenceInv, Typed, TypeOK
  <2>5. CASE call' = [call EXCEPT ![p] = Idle]
    BY <2>1, <2>3, <2>5, EndedNow, CallStep DEF EvidenceInv, Typed, TypeOK
  <2> QED
    BY <1>2, <2>4, <2>5 DEF WriteVerifyStatus
<1> QED
  BY <1>1, <1>2 DEF VerifyOffer

\* What the end of a call, or of its process, may put in its place.
After(after) == after \in CallType /\ after.kind = "none"

LEMMA DerivedStep ==
  ASSUME EvidenceInv, NEW p \in Procs, NEW after, After(after), RebuildDerived(p, after)
  PROVE  EvidenceInv'
<1>1. CASE ReadForSnapshots(p)
  <2>1. /\ call[p].at = "derive" /\ call[p].kind = Kind
        /\ call' = [call EXCEPT ![p].at = "snapshots"]
        /\ UNCHANGED <<bundleVars, exports, ledger, files, verified, lock>>
    BY <1>1 DEF ReadForSnapshots, UNCHANGED_ButCall, storeVars
  <2>2. call'[p] = [call[p] EXCEPT !.at = "snapshots"] /\ call[p] \in CallType /\ call'[p] \in CallType
    BY <2>1, KindTyped, CallUpdates DEF EvidenceInv, Typed
  <2>3. call'[p].at = "snapshots" /\ call'[p].kind = Kind /\ call'[p].op = call[p].op
    BY <2>1, <2>2 DEF CallType
  <2>4. bundle.approval # NoContent /\ (HasLock(call[p]) => lock = p)
    BY <2>1 DEF EvidenceInv, CallInv
  <2>5. Evolves(p) /\ CallInv(p)'
    BY <2>1, <2>2, <2>3, <2>4 DEF Evolves, CallInv, Exporting, Recording, HasLock, bundleVars
  <2> QED
    BY <2>1, <2>5, CallStep DEF EvidenceInv, Typed, TypeOK
<1>2. CASE RebuildFails(p) \/ WriteSnapshots(p, after)
  <2>1. /\ call[p].at \in {"derive", "snapshots"} /\ call[p].kind = Kind
        /\ lock' = IF call[p].op = "outcome" THEN NoProc ELSE lock
        /\ UNCHANGED <<bundleVars, exports, ledger, files, verified>>
        /\ \/ call' = [call EXCEPT ![p] = Idle]
           \/ call' = [call EXCEPT ![p] = after]
    BY <1>2 DEF RebuildFails, WriteSnapshots
  <2>2. bundle.approval # NoContent /\ (call[p].op = "outcome" => lock = p)
    BY <2>1 DEF EvidenceInv, CallInv, HasLock
  <2>3. Evolves(p) /\ CallInv(p)'
    BY <2>1, <2>2, EndedCall, IdleTyped DEF After
  <2>4. lock' = lock \/ (lock' = NoProc /\ lock = p)
    BY <2>1, <2>2
  <2> QED
    BY <2>1, <2>3, <2>4, CallStep DEF EvidenceInv, Typed, TypeOK
<1> QED
  BY <1>1, <1>2 DEF RebuildDerived

LEMMA CrashStep ==
  ASSUME EvidenceInv, NEW p \in Procs, Crash(p)
  PROVE  EvidenceInv'
<1>1. /\ call' = [call EXCEPT ![p] = Idle] /\ lock' = IF lock = p THEN Ended ELSE lock
      /\ UNCHANGED <<bundleVars, exports, ledger, files, verified>>
  BY DEF Crash
<1> QED
  BY <1>1, EndedNow, CallStep DEF EvidenceInv, Typed, TypeOK

-----------------------------------------------------------------------------
(* A step of one call: before is what it may begin from, after what it may  *)
(* leave.                                                                   *)

CallActs(p, before, after) ==
  \/ WithLock(p) \/ RecordOutcome(p) \/ RecordExport(p, before) \/ VerifyOffer(p)
  \/ RebuildDerived(p, after) \/ Crash(p)

LEMMA CallKeeps ==
  ASSUME EvidenceInv, NEW p \in Procs, NEW before, NEW after, After(after), CallActs(p, before, after)
  PROVE  EvidenceInv'
BY LockStep, OutcomeStep, ExportStep, VerifyStep, DerivedStep, CrashStep DEF CallActs

\* A step of one call rewrites nothing.
LEMMA CallExtends ==
  ASSUME EvidenceInv, NEW p \in Procs, NEW before, NEW after, After(after), CallActs(p, before, after)
  PROVE  Extends(exports', exports) /\ Extends(ledger', ledger) /\ UNCHANGED bundleVars
<1>1. Extends(exports, exports) /\ Extends(ledger, ledger)
  BY SubSeqFull DEF Extends, EvidenceInv, Typed, TypeOK
<1>2. CASE WithLock(p) \/ VerifyOffer(p) \/ RebuildDerived(p, after) \/ Crash(p)
  BY <1>1, <1>2 DEF WithLock, AcquireLock, LockTimeout, UNCHANGED_ButCall, storeVars, VerifyOffer, BeginVerify,
     WriteVerifyStatus, RebuildDerived, ReadForSnapshots, RebuildFails, WriteSnapshots, Crash
<1>3. CASE RecordOutcome(p)
  <2>1. CASE WriteLedger(p)
    BY <1>1, <2>1, WriteStep DEF WriteLedger
  <2> QED
    BY <1>1, <1>3, <2>1 DEF RecordOutcome, BeginOutcome, OutcomeRefused, Refuse, StageAttachments,
       StagingBlocked, StagingMismatch, storeVars
<1>4. CASE RecordExport(p, before)
  <2>1. CASE AppendExportEvent(p)
    BY <1>1, <2>1, ExportAppends DEF AppendExportEvent
  <2> QED
    BY <1>1, <1>4, <2>1 DEF RecordExport, BeginExport, EnsureLedger, UNCHANGED_ButCall, storeVars
<1> QED
  BY <1>2, <1>3, <1>4 DEF CallActs

\* What a step of this kind makes of the call: it begins, goes on or ends.
Course(p, before, after) ==
  /\ call' = [call EXCEPT ![p] = call'[p]]
  /\ \/ /\ call[p].kind = Kind /\ call[p].op = "export"
        /\ call'[p].kind = Kind /\ call'[p].op = "ensure"
        /\ Len(exports') = Len(exports) + 1
     \/ /\ exports' = exports
        /\ \/ /\ call[p] = before
              /\ call'[p].kind = Kind /\ call'[p].op = "export"
           \/ /\ call[p] = Idle
              /\ call'[p].kind = Kind /\ call'[p].op \in {"outcome", "verify"}
           \/ /\ call[p].kind = Kind /\ call'[p].kind = Kind
              /\ call'[p].op \in {call[p].op, "outcome"}
           \/ call[p].kind = Kind /\ call'[p] \in {Idle, after}

LEMMA CallCourse ==
  ASSUME EvidenceInv, NEW p \in Procs, NEW before, NEW after, After(after), CallActs(p, before, after)
  PROVE  Course(p, before, after)
<1>1. call = [q \in Procs |-> call[q]]
  BY DEF EvidenceInv, Typed
<1>2. ASSUME call[p].kind = Kind, exports' = exports,
             \E at : call' = [call EXCEPT ![p].at = at]
      PROVE  Course(p, before, after)
  <2>1. PICK at : call' = [call EXCEPT ![p].at = at]
    BY <1>2
  <2>2. call[p] \in CallType
    BY <1>2, KindTyped
  <2>3. call'[p] = [call[p] EXCEPT !.at = at] /\ call' = [call EXCEPT ![p] = call'[p]]
    BY <2>1 DEF EvidenceInv, Typed
  <2>4. call'[p].kind = Kind /\ call'[p].op = call[p].op
    BY <1>2, <2>2, <2>3 DEF CallType
  <2> QED
    BY <1>2, <2>3, <2>4 DEF Course
<1>3. ASSUME call[p].kind = Kind, exports' = exports,
             call' = [call EXCEPT ![p] = Idle] \/ call' = [call EXCEPT ![p] = after]
      PROVE  Course(p, before, after)
  BY <1>1, <1>3 DEF Course
<1>4. CASE WithLock(p) \/ Crash(p)
  BY <1>2, <1>3, <1>4 DEF WithLock, AcquireLock, LockTimeout, Crash, UNCHANGED_ButCall, storeVars
<1>5. CASE RebuildDerived(p, after)
  BY <1>2, <1>3, <1>5 DEF RebuildDerived, ReadForSnapshots, RebuildFails, WriteSnapshots, UNCHANGED_ButCall,
     storeVars
<1>6. CASE RecordExport(p, before)
  <2>1. CASE BeginExport(p, before)
    <3>1. call' = [call EXCEPT ![p] = [Idle EXCEPT !.at = "wait", !.op = "export", !.kind = Kind,
                                                   !.hash = bundle.approval]]
          /\ exports' = exports /\ call[p] = before
      BY <2>1 DEF BeginExport, UNCHANGED_ButCall, storeVars
    <3>2. call'[p].kind = Kind /\ call'[p].op = "export" /\ call' = [call EXCEPT ![p] = call'[p]]
      <4>1. /\ call'[p] = [Idle EXCEPT !.at = "wait", !.op = "export", !.kind = Kind, !.hash = bundle.approval]
            /\ call' = [call EXCEPT ![p] = call'[p]]
        BY <1>1, <3>1
      <4> QED
        BY <4>1 DEF Idle
    <3> QED
      BY <3>1, <3>2 DEF Course
  <2>2. CASE AppendExportEvent(p)
    <3>1. call' = [call EXCEPT ![p] = [Idle EXCEPT !.at = "wait", !.op = "ensure", !.kind = Kind]]
          /\ call[p].op = "export" /\ call[p].kind = Kind
      BY <2>2 DEF AppendExportEvent
    <3>2. call'[p].kind = Kind /\ call'[p].op = "ensure" /\ call' = [call EXCEPT ![p] = call'[p]]
      <4>1. /\ call'[p] = [Idle EXCEPT !.at = "wait", !.op = "ensure", !.kind = Kind]
            /\ call' = [call EXCEPT ![p] = call'[p]]
        BY <1>1, <3>1
      <4> QED
        BY <4>1 DEF Idle
    <3> QED
      BY <2>2, <3>1, <3>2, ExportAppends DEF Course
  <2>3. CASE EnsureLedger(p)
    BY <1>2, <2>3 DEF EnsureLedger
  <2> QED
    BY <1>6, <2>1, <2>2, <2>3 DEF RecordExport
<1>7. CASE VerifyOffer(p)
  <2>1. ASSUME NEW mode \in {"full", "incremental"}, BeginVerify(p, mode)
        PROVE  Course(p, before, after)
    <3>1. call' = [call EXCEPT ![p] = [Idle EXCEPT !.at = "verify", !.op = "verify", !.kind = Kind,
                                                   !.seen = Heads]]
          /\ exports' = exports /\ call[p] = Idle
      BY <2>1 DEF BeginVerify, storeVars
    <3>2. call'[p].kind = Kind /\ call'[p].op = "verify" /\ call' = [call EXCEPT ![p] = call'[p]]
      <4>1. /\ call'[p] = [Idle EXCEPT !.at = "verify", !.op = "verify", !.kind = Kind, !.seen = Heads]
            /\ call' = [call EXCEPT ![p] = call'[p]]
        BY <1>1, <3>1
      <4> QED
        BY <4>1 DEF Idle
    <3> QED
      BY <3>1, <3>2 DEF Course
  <2>2. CASE WriteVerifyStatus(p)
    <3>1. /\ call[p].kind = Kind /\ exports' = exports
          /\ \/ call' = [call EXCEPT ![p] = [@ EXCEPT !.at = "derive"]]
             \/ call' = [call EXCEPT ![p] = Idle]
      BY <2>2 DEF WriteVerifyStatus
    <3>2. CASE call' = [call EXCEPT ![p] = [@ EXCEPT !.at = "derive"]]
      <4>1. call' = [call EXCEPT ![p].at = "derive"]
        BY <3>2
      <4> QED
        BY <3>1, <4>1, <1>2
    <3> QED
      BY <3>1, <3>2, <1>3
  <2> QED
    BY <1>7, <2>1, <2>2 DEF VerifyOffer
<1>8. CASE RecordOutcome(p)
  <2>1. CASE BeginOutcome(p)
    <3>1. PICK key \in Keys, target \in Targets, to \in Reported \cap States, payload \in Payloads :
            call' = [call EXCEPT ![p] = [Idle EXCEPT !.at = "wait", !.op = "outcome", !.kind = Kind,
                  !.key = key, !.target = target, !.to = to, !.payload = payload, !.hash = bundle.approval]]
      BY <2>1 DEF BeginOutcome
    <3>2. call'[p].kind = Kind /\ call'[p].op = "outcome" /\ call' = [call EXCEPT ![p] = call'[p]]
      <4>1. /\ call'[p] = [Idle EXCEPT !.at = "wait", !.op = "outcome", !.kind = Kind, !.key = key,
               !.target = target, !.to = to, !.payload = payload, !.hash = bundle.approval]
            /\ call' = [call EXCEPT ![p] = call'[p]]
        BY <1>1, <3>1
      <4> QED
        BY <4>1 DEF Idle
    <3> QED
      BY <2>1, <3>2 DEF Course, BeginOutcome, storeVars
  <2>2. CASE StageAttachments(p)
    <3>1. /\ call' = [call EXCEPT ![p].at = "staged", ![p].base = ledger]
          /\ call[p].kind = Kind /\ exports' = exports
      BY <2>2 DEF StageAttachments
    <3>2. call'[p] = [call[p] EXCEPT !.at = "staged", !.base = ledger] /\ call[p] \in CallType
          /\ call' = [call EXCEPT ![p] = call'[p]]
      BY <3>1, KindTyped DEF EvidenceInv, Typed
    <3>3. call'[p].kind = Kind /\ call'[p].op = call[p].op
      <4> DEFINE c == call[p]
                 d == call'[p]
      <4>1. d = [c EXCEPT !.at = "staged", !.base = ledger] /\ c \in CallType
        BY <3>2
      <4> HIDE DEF c, d
      <4>2. d.kind = c.kind /\ d.op = c.op
        BY <4>1 DEF CallType
      <4> QED
        BY <3>1, <4>2 DEF c, d
    <3> QED
      BY <3>1, <3>2, <3>3 DEF Course
  <2>3. CASE WriteLedger(p)
    <3>1. call' = [call EXCEPT ![p] = [Idle EXCEPT !.at = "derive", !.op = "outcome", !.kind = Kind]]
          /\ call[p].kind = Kind /\ exports' = exports
      BY <2>3 DEF WriteLedger
    <3>2. call'[p].kind = Kind /\ call'[p].op = "outcome" /\ call' = [call EXCEPT ![p] = call'[p]]
      <4>1. /\ call'[p] = [Idle EXCEPT !.at = "derive", !.op = "outcome", !.kind = Kind]
            /\ call' = [call EXCEPT ![p] = call'[p]]
        BY <1>1, <3>1
      <4> QED
        BY <4>1 DEF Idle
    <3> QED
      BY <3>1, <3>2 DEF Course
  <2>4. CASE OutcomeRefused(p) \/ StagingBlocked(p) \/ StagingMismatch(p)
    BY <1>3, <2>4 DEF OutcomeRefused, StagingBlocked, StagingMismatch, Refuse
  <2> QED
    BY <1>8, <2>1, <2>2, <2>3, <2>4 DEF RecordOutcome
<1> QED
  BY <1>4, <1>5, <1>6, <1>7, <1>8 DEF CallActs

-----------------------------------------------------------------------------
(* A step that is not of this kind, and what is done to the bundle.         *)

\* A call of another kind is none of this evidence's business.
LEMMA OtherStep ==
  ASSUME EvidenceInv, NEW p \in Procs, call' = [call EXCEPT ![p] = call'[p]],
         UNCHANGED <<storeVars, bundleVars>>, call[p].kind # Kind, call'[p].kind # Kind,
         call'[p].kind = "none" => call'[p] \in CallType,
         call'[p].at # "idle" => bundle.approval # NoContent
  PROVE  EvidenceInv'
<1>1. UNCHANGED <<exports, ledger, files, lock, verified>>
  BY DEF storeVars
<1>2. \A q \in Procs : q # p => call'[q] = call[q]
  BY DEF EvidenceInv, Typed
<1>3. Typed'
  <2>1. \A q \in Procs : call'[q].kind \in {Kind, "none"} => call'[q] \in CallType
    BY <1>2 DEF EvidenceInv, Typed, TypeOK
  <2>2. TypeOK'
    BY <1>1, <2>1 DEF EvidenceInv, Typed, TypeOK, bundleVars
  <2>3. (call = [q \in Procs |-> call[q]])'
    BY DEF EvidenceInv, Typed
  <2> QED
    BY <2>2, <2>3 DEF Typed
<1>4. \A q \in Procs : CallInv(q)'
  <2>1. CallInv(p)'
    BY <1>1 DEF CallInv, Exporting, Recording, HasLock, bundleVars
  <2> QED
    BY <1>1, <1>2, <2>1, OthersKept DEF ExportsGrow
<1>5. StoreInv' /\ KeyRecordedOnce'
  BY <1>1, StoreKept DEF ExportsGrow, storeVars
<1>6. BundleInv'
  BY DEF EvidenceInv, BundleInv, bundleVars, NoBundle
<1> QED
  BY <1>3, <1>4, <1>5, <1>6 DEF EvidenceInv

BundleType ==
  [content : Contents \cup {NoContent}, manifest : Contents \cup {NoContent},
   approval : Contents \cup {NoContent}]

\* The approval stays, or is the first.
ApprovalStays == bundle'.approval = bundle.approval \/ bundle.approval = NoContent

LEMMA EmptyVerifies ==
  ASSUME exports' = <<>>, ledger' = <<>>
  PROVE  (StoresVerify /\ KeyRecordedOnce)'
<1>1. DOMAIN exports' = {} /\ DOMAIN ledger' = {}
  OBVIOUS
<1> QED
  BY <1>1 DEF StoresVerify, KeyRecordedOnce, ChainVerifies, LegalPath, EventsOf

LEMMA BundleQuiet ==
  ASSUME EvidenceInv, UNCHANGED <<call, storeVars>>, bundle' \in BundleType, BundleInv', ApprovalStays
  PROVE  EvidenceInv'
<1>1. UNCHANGED <<exports, ledger, files, lock, verified>>
  BY DEF storeVars
<1>2. Typed'
  BY <1>1 DEF EvidenceInv, Typed, TypeOK, BundleType
<1>3. CASE bundle'.approval = bundle.approval
  <2>1. StoreInv' /\ KeyRecordedOnce'
    <3>1. StoreInv /\ KeyRecordedOnce
      BY DEF EvidenceInv
    <3>2. (\A i \in DOMAIN exports : ExportVerifies(exports[i]))'
      BY <1>1, <1>3, <3>1 DEF StoreInv, StoresVerify, ExportVerifies
    <3>3. (\A i \in DOMAIN ledger : OutcomeVerifies(ledger[i]))'
      BY <1>1, <1>3, <3>1 DEF StoreInv, StoresVerify, OutcomeVerifies
    <3>4. (\A i \in DOMAIN ledger : AttachmentVerifies(ledger[i]))'
      BY <1>1, <3>1 DEF StoreInv, StoresVerify, AttachmentVerifies
    <3> QED
      BY <1>1, <1>3, <3>1, <3>2, <3>3, <3>4 DEF StoreInv, StoresVerify, KeyRecordedOnce
  <2>2. \A q \in Procs : CallInv(q)'
    BY <1>1, <1>3 DEF EvidenceInv, CallInv, Staged, IsNew
  <2> QED
    BY <1>2, <2>1, <2>2 DEF EvidenceInv
<1>4. CASE bundle.approval = NoContent
  <2>1. exports = <<>> /\ ledger = <<>> /\ \A q \in Procs : call[q].at = "idle"
    BY <1>4 DEF EvidenceInv, StoreInv, CallInv
  <2>2. exports' = <<>> /\ ledger' = <<>>
    BY <1>1, <2>1
  <2>3. (StoresVerify /\ KeyRecordedOnce)'
    BY <2>2, EmptyVerifies
  <2>4. \A q \in Procs : CallInv(q)'
    BY <1>1, <2>1 DEF EvidenceInv, CallInv, Exporting, Recording, HasLock
  <2> QED
    BY <1>2, <2>2, <2>3, <2>4 DEF EvidenceInv, StoreInv
<1> QED
  BY <1>3, <1>4 DEF ApprovalStays

\* When the directory goes no call is at work.
LEMMA RemovalKeeps ==
  ASSUME EvidenceInv, UNCHANGED call, NoCalls, RemoveBundle, EvidenceRemoved
  PROVE  EvidenceInv'
<1>1. /\ exports' = <<>> /\ ledger' = <<>> /\ files' = {} /\ lock' = NoProc /\ verified' = Nothing
      /\ bundle' = NoBundle /\ generator' = "removed"
  BY DEF EvidenceRemoved, RemoveBundle
<1>2. Typed'
  <2>1. <<>> \in Seq([hash : Contents, targets : SUBSET Targets]) /\ <<>> \in Seq(EventType)
    OBVIOUS
  <2> QED
    BY <1>1, <2>1 DEF EvidenceInv, Typed, TypeOK, NoBundle, Nothing
<1>3. (StoresVerify /\ KeyRecordedOnce)'
  BY <1>1, EmptyVerifies
<1>4. BundleInv'
  BY <1>1 DEF BundleInv, NoBundle
<1>5. \A q \in Procs : CallInv(q)'
  BY DEF NoCalls, EvidenceInv, CallInv, Exporting, Recording, HasLock
<1> QED
  BY <1>1, <1>2, <1>3, <1>4, <1>5 DEF EvidenceInv, StoreInv

\* What the generator, the approval and an editor do to the bundle.
LEMMA BundleChanges ==
  ASSUME EvidenceInv, Package \/ InstallBundle \/ GeneratorFails \/ ApproveRelease \/ EditFiles
  PROVE  /\ bundle' \in BundleType /\ BundleInv' /\ ApprovalStays
         /\ bundle' = NoBundle => bundle = NoBundle
<1>1. bundle \in BundleType /\ BundleInv
  BY DEF EvidenceInv, Typed, TypeOK, BundleType
<1>2. CASE Package \/ GeneratorFails
  BY <1>1, <1>2 DEF Package, GeneratorFails, BundleInv, ApprovalStays
<1>3. CASE InstallBundle
  <2>1. bundle = NoBundle
    BY <1>1, <1>3 DEF InstallBundle, BundleInv
  <2> QED
    BY <1>3, <2>1 DEF InstallBundle, FinalizeBundle, BundleType, BundleInv, ApprovalStays, NoBundle
<1>4. CASE ApproveRelease
  BY <1>1, <1>4 DEF ApproveRelease, ValidateManifest, ComputeBundleHash, BundleInv, ApprovalStays, BundleType,
     NoBundle
<1>5. CASE EditFiles
  BY <1>1, <1>5, EvidenceAssumption DEF EditFiles, BundleInv, ApprovalStays, BundleType, NoBundle
<1> QED
  BY <1>2, <1>3, <1>4, <1>5

LEMMA BundleKeeps ==
  ASSUME EvidenceInv, BundleStep, UNCHANGED call
  PROVE  EvidenceInv'
<1>1. CASE NoCalls /\ RemoveBundle /\ EvidenceRemoved
  BY <1>1, RemovalKeeps
<1> QED
  BY <1>1, BundleChanges, BundleQuiet DEF BundleStep

-----------------------------------------------------------------------------
(* One kind of evidence by itself.                                          *)

LEMMA EvidenceBegins == EvidenceInit => EvidenceInv
<1> SUFFICES ASSUME EvidenceInit PROVE EvidenceInv
  OBVIOUS
<1>1. /\ bundle = NoBundle /\ generator = "idle" /\ exports = <<>> /\ ledger = <<>> /\ files = {}
      /\ lock = NoProc /\ verified = Nothing /\ call = [p \in Procs |-> Idle]
  BY DEF EvidenceInit, BundleInit, StoresInit
<1>2. \A p \in Procs : call[p] = Idle
  BY <1>1
<1>3. DOMAIN exports = {} /\ DOMAIN ledger = {}
  BY <1>1
<1>4. Typed
  <2>1. <<>> \in Seq([hash : Contents, targets : SUBSET Targets]) /\ <<>> \in Seq(EventType)
    OBVIOUS
  <2> QED
    BY <1>1, <1>2, <2>1, IdleTyped DEF Typed, TypeOK, NoBundle, Nothing
<1>5. StoreInv /\ KeyRecordedOnce
  BY <1>1, <1>3 DEF StoreInv, StoresVerify, KeyRecordedOnce, ChainVerifies, LegalPath, EventsOf
<1>6. BundleInv
  BY <1>1 DEF BundleInv, NoBundle
<1>7. \A p \in Procs : CallInv(p)
  BY <1>2, IdleTyped, EvidenceAssumption DEF CallInv, Exporting, Recording, HasLock
<1> QED
  BY <1>4, <1>5, <1>6, <1>7 DEF EvidenceInv

LEMMA StutterKeeps == EvidenceInv /\ UNCHANGED evidenceVars => EvidenceInv'
<1> SUFFICES ASSUME EvidenceInv, UNCHANGED evidenceVars PROVE EvidenceInv'
  OBVIOUS
<1>1. UNCHANGED <<call, storeVars>> /\ UNCHANGED bundle /\ UNCHANGED generator
  BY DEF evidenceVars, bundleVars
<1>2. bundle' \in BundleType /\ BundleInv' /\ ApprovalStays
  BY <1>1 DEF EvidenceInv, Typed, TypeOK, BundleType, BundleInv, ApprovalStays
<1> QED
  BY <1>1, <1>2, BundleQuiet

LEMMA NextKeeps == EvidenceInv /\ [Next]_evidenceVars => EvidenceInv'
<1> SUFFICES ASSUME EvidenceInv, [Next]_evidenceVars PROVE EvidenceInv'
  OBVIOUS
<1>1. ASSUME NEW p \in Procs, CallActs(p, Idle, Idle) PROVE EvidenceInv'
  BY <1>1, CallKeeps, IdleTyped DEF After
<1>2. CASE BundleStep /\ UNCHANGED <<call, countVars>>
  BY <1>2, BundleKeeps
<1>3. CASE UNCHANGED evidenceVars
  BY <1>3, StutterKeeps
<1> QED
  BY <1>1, <1>2, <1>3 DEF Next, CallActs

LEMMA NextExtends ==
  ASSUME EvidenceInv, [Next]_evidenceVars, bundle' # NoBundle
  PROVE  Extends(exports', exports) /\ Extends(ledger', ledger)
<1>1. Extends(exports, exports) /\ Extends(ledger, ledger)
  BY SubSeqFull DEF Extends, EvidenceInv, Typed, TypeOK
<1>2. ASSUME NEW p \in Procs, CallActs(p, Idle, Idle)
      PROVE  Extends(exports', exports) /\ Extends(ledger', ledger)
  BY <1>2, CallExtends, IdleTyped DEF After
<1>3. CASE BundleStep /\ UNCHANGED <<call, countVars>>
  <2>1. ~RemoveBundle
    BY DEF RemoveBundle
  <2> QED
    BY <1>1, <1>3, <2>1 DEF BundleStep, storeVars
<1>4. CASE UNCHANGED evidenceVars
  BY <1>1, <1>4 DEF evidenceVars, storeVars
<1> QED
  BY <1>2, <1>3, <1>4 DEF Next, CallActs

\* Whatever the number of commands, each may end halfway, the invariant of one kind
\* of evidence holds: what a call under the lock has read is what it replaces.
THEOREM EvidenceInvariant == Spec => []EvidenceInv
BY EvidenceBegins, NextKeeps, PTL DEF Spec

\* The stores, the attachments and the locks have their types.
THEOREM EvidenceTypes == Spec => []TypeOK
<1>1. EvidenceInv => TypeOK
  BY DEF EvidenceInv, Typed
<1> QED
  BY <1>1, EvidenceInvariant, PTL

\* What the calls leave, overlapping, refused or ended halfway, passes the full
\* verification of verifyOfferEvidence.
THEOREM EvidenceVerifies == Spec => []VerificationPasses
<1>1. EvidenceInv => VerificationPasses
  BY DEF EvidenceInv, StoreInv, VerificationPasses
<1> QED
  BY <1>1, EvidenceInvariant, PTL

\* Two recordings under one idempotency key leave one event.
THEOREM EvidenceKeys == Spec => []KeyRecordedOnce
<1>1. EvidenceInv => KeyRecordedOnce
  BY DEF EvidenceInv
<1> QED
  BY <1>1, EvidenceInvariant, PTL

\* While the bundle stays, each step extends the two stores or leaves them.
THEOREM EvidenceAppends == Spec => AppendOnlyWithinBundle
<1>1. EvidenceInv /\ [Next]_evidenceVars =>
        [bundle' # NoBundle => Extends(exports', exports) /\ Extends(ledger', ledger)]_evidenceVars
  BY NextExtends
<1> QED
  BY <1>1, EvidenceInvariant, PTL DEF Spec, AppendOnlyWithinBundle
=============================================================================
