------------------------ MODULE GovernanceStoreProofs ------------------------
(* Machine-checked proofs about GovernanceStore: what the chain of            *)
(* transactions and the reconciliation of loadState keep true, whatever       *)
(* fails and whenever the process dies.                                       *)
EXTENDS GovernanceStore, SequenceTheorems, TLAPS

LEMMA InitialStateType == InitialState \in State
<1>1. <<>> \in Seq(Nat)
  OBVIOUS
<1> QED
  BY <1>1 DEF InitialState, State

\* While the stored sequences are contiguous the largest is their number.
LEMMA MaxSequenceIsLength ==
  ASSUME research \in Seq(Nat \ {0}), InSequence
  PROVE  MaxSequence = Len(research)
BY EmptySeq, LenProperties DEF MaxSequence, InSequence

LEMMA ReconciledType ==
  ASSUME research \in Seq(Nat \ {0}), NEW s \in State
  PROVE  Reconciled(s) \in State
<1>1. MaxSequence \in Nat
  BY EmptySeq, LenProperties DEF MaxSequence
<1>2. ASSUME NEW m \in Nat, NEW n \in Nat \ {0}
      PROVE  [s EXCEPT !.next = n, !.last = m] \in State
  BY DEF State
<1>3. MaxSequence + 1 \in Nat \ {0}
  BY <1>1
<1>4. [s EXCEPT !.next = MaxSequence + 1, !.last = MaxSequence] \in State
  BY <1>1, <1>2, <1>3, Zenon
<1> QED
  BY <1>4 DEF Reconciled

\* Records appended from the next sequence on keep their type.
LEMMA AppendedType ==
  ASSUME research \in Seq(Nat \ {0}), NEW first \in Nat \ {0}, NEW n \in Nat
  PROVE  research \o [i \in 1..n |-> first + i - 1] \in Seq(Nat \ {0})
<1>1. [i \in 1..n |-> first + i - 1] \in Seq(Nat \ {0})
  OBVIOUS
<1> QED
  BY <1>1, ConcatProperties

FilesOK == /\ research \in Seq(Nat \ {0})
           /\ unsequenced \in Nat
           /\ mutationLog \in Seq([id : Nat, prev : Seq(Nat)])
           /\ disk \in State
CallsOK == /\ chain \in Seq(Callers)
           /\ pc \in [Callers -> {"idle", "queued", "loaded", "appended"}]
           /\ kind \in [Callers -> Kinds]
           /\ mem \in [Callers -> State]
           /\ written \in [Callers -> SUBSET Nat]
RestOK  == /\ ready \in BOOLEAN
           /\ returned \in [sequences : SUBSET Nat, ids : SUBSET Nat, requests : Nat, events : Nat]
           /\ calls \in 0..MaxCalls
           /\ crashes \in 0..MaxCrashes

\* A transaction that runs is at the head of the chain.
HeadRuns == \A c \in Callers : pc[c] \in {"loaded", "appended"} => Runs(c)

TypeInv == FilesOK /\ CallsOK /\ RestOK /\ HeadRuns

\* A transaction settles: the chain loses its head, and no transaction runs.
LEMMA SettleTypes ==
  ASSUME CallsOK, HeadRuns, NEW c \in Callers, Runs(c), Settle(c)
  PROVE  CallsOK' /\ HeadRuns' /\ \A d \in Callers : pc'[d] \notin {"loaded", "appended"}
<1>1. chain' \in Seq(Callers)
  BY HeadTailProperties DEF CallsOK, Settle, Runs
<1>2. CallsOK'
  BY <1>1 DEF CallsOK, Settle
<1>3. \A d \in Callers : pc'[d] \notin {"loaded", "appended"}
  BY DEF CallsOK, HeadRuns, Settle, Runs
<1> QED
  BY <1>2, <1>3 DEF HeadRuns

LEMMA TypeStep == TypeInv /\ [Next]_vars => TypeInv'
<1> SUFFICES ASSUME TypeInv, [Next]_vars PROVE TypeInv'
  OBVIOUS
<1> USE StoreAssumption DEF TypeInv
<1>1. CASE Startup
  BY <1>1 DEF Startup, files, FilesOK, CallsOK, RestOK, HeadRuns, Runs
<1>2. ASSUME NEW c \in Callers, NEW k \in Kinds, Ask(c, k) PROVE TypeInv'
  <2>1. CallsOK'
    BY <1>2, AppendProperties DEF Ask, CallsOK
  <2>2. HeadRuns'
    <3>1. chain # <<>> => Head(chain') = Head(chain)
      BY <1>2, AppendProperties, EmptySeq DEF Ask, CallsOK
    <3>2. chain' # <<>>
      BY <1>2, AppendProperties, EmptySeq DEF Ask, CallsOK
    <3> QED
      BY <1>2, <3>1, <3>2 DEF Ask, CallsOK, HeadRuns, Runs
  <2>3. FilesOK' /\ RestOK'
    BY <1>2 DEF Ask, FilesOK, RestOK, files
  <2> QED
    BY <2>1, <2>2, <2>3
<1>3. ASSUME NEW c \in Callers, Load(c) PROVE TypeInv'
  <2>1. FilesOK' /\ RestOK'
    BY <1>3 DEF Load, FilesOK, RestOK, files
  <2>2. CASE MaxSequence < disk.last
    BY <1>3, <2>1, <2>2, SettleTypes DEF Load
  <2>3. CASE ~(MaxSequence < disk.last)
    <3>1. Reconciled(disk) \in State
      BY ReconciledType DEF FilesOK
    <3> QED
      BY <1>3, <2>1, <2>3, <3>1 DEF Load, CallsOK, HeadRuns, Runs
  <2> QED
    BY <2>2, <2>3
<1>4. ASSUME NEW c \in Callers, HandlerThrows(c) PROVE TypeInv'
  BY <1>4, SettleTypes DEF HandlerThrows, HeadRuns, FilesOK, RestOK, files
<1>5. ASSUME NEW c \in Callers, AppendResearch(c) PROVE TypeInv'
  <2>1. PICK n \in 0..MaxBatch :
          /\ research' = research \o [i \in 1..n |-> mem[c].next + i - 1]
          /\ written' = [written EXCEPT ![c] = {mem[c].next + i - 1 : i \in 1..n}]
          /\ mem' = [mem EXCEPT ![c].next = @ + n,
                                ![c].requests = @ + 1,
                                ![c].last = HighestAllocated(mem[c], n)]
    BY <1>5 DEF AppendResearch
  <2>2. mem[c] \in State
    BY DEF CallsOK
  <2>3. research' \in Seq(Nat \ {0})
    <3>1. mem[c].next \in Nat \ {0} /\ n \in Nat /\ research \in Seq(Nat \ {0})
      BY <2>2 DEF FilesOK, State
    <3> QED
      BY <2>1, <3>1, AppendedType
  <2>4. HighestAllocated(mem[c], n) \in Nat
    BY <2>2 DEF HighestAllocated, State
  <2>5. {mem[c].next + i - 1 : i \in 1..n} \in SUBSET Nat
    BY <2>2 DEF State
  <2>6. mem'[c] \in State
    BY <2>1, <2>2, <2>4, SMTT(30) DEF State, CallsOK
  <2>7. mem' \in [Callers -> State]
    BY <2>1, <2>6 DEF CallsOK
  <2>8. CallsOK' /\ HeadRuns'
    BY <1>5, <2>1, <2>5, <2>7 DEF AppendResearch, CallsOK, HeadRuns, Runs
  <2> QED
    BY <1>5, <2>3, <2>8 DEF AppendResearch, FilesOK, RestOK
<1>6. ASSUME NEW c \in Callers, AppendAudit(c) PROVE TypeInv'
  <2> DEFINE id == Len(mutationLog) + 1
  <2>1. id \in Nat /\ mem[c] \in State
    BY LenProperties DEF FilesOK, CallsOK
  <2>2. [id |-> id, prev |-> mem[c].tip] \in [id : Nat, prev : Seq(Nat)]
    BY <2>1 DEF State
  <2>3. mutationLog' \in Seq([id : Nat, prev : Seq(Nat)])
    BY <1>6, <2>2, AppendProperties DEF AppendAudit, FilesOK
  <2>4. Append(mem[c].tip, id) \in Seq(Nat)
    BY <2>1, AppendProperties DEF State
  <2>5. mem' \in [Callers -> State]
    BY <1>6, <2>1, <2>4 DEF AppendAudit, CallsOK, State
  <2>6. CallsOK' /\ HeadRuns'
    BY <1>6, <2>1, <2>5 DEF AppendAudit, CallsOK, HeadRuns, Runs
  <2> QED
    BY <1>6, <2>3, <2>6 DEF AppendAudit, FilesOK, RestOK
<1>12. ASSUME NEW c \in Callers, AppendEvent(c) PROVE TypeInv'
  <2>1. CallsOK' /\ HeadRuns'
    BY <1>12 DEF AppendEvent, CallsOK, HeadRuns, Runs
  <2> QED
    BY <1>12, <2>1 DEF AppendEvent, FilesOK, RestOK
<1>7. ASSUME NEW c \in Callers, AppendFails(c) PROVE TypeInv'
  BY <1>7, SettleTypes DEF AppendFails, HeadRuns, FilesOK, RestOK, files
<1>8. ASSUME NEW c \in Callers, Commit(c) PROVE TypeInv'
  <2>1. CallsOK' /\ HeadRuns'
    BY <1>8, SettleTypes DEF Commit, HeadRuns
  <2>2. FilesOK'
    BY <1>8 DEF Commit, FilesOK, CallsOK
  <2>3. returned' \in [sequences : SUBSET Nat, ids : SUBSET Nat, requests : Nat, events : Nat]
    <3>1. written[c] \in SUBSET Nat
      BY DEF CallsOK
    <3>2. CASE kind[c] = "audit"
      BY <1>8, <3>1, <3>2 DEF Commit, Report, RestOK
    <3>3. CASE kind[c] = "research"
      <4>1. returned' = [returned EXCEPT !.sequences = @ \cup written[c], !.requests = @ + 1]
        BY <1>8, <3>3 DEF Commit, Report
      <4>2. returned' = [sequences |-> returned.sequences \cup written[c],
                         ids |-> returned.ids, requests |-> returned.requests + 1,
                         events |-> returned.events]
        BY <4>1 DEF RestOK
      <4> QED
        BY <3>1, <4>2 DEF RestOK
    <3>4. CASE kind[c] = "event"
      BY <1>8, <3>4 DEF Commit, Report, RestOK
    <3> QED
      BY <3>2, <3>3, <3>4 DEF CallsOK, Kinds
  <2> QED
    BY <1>8, <2>1, <2>2, <2>3 DEF Commit, RestOK
<1>9. ASSUME NEW c \in Callers, PersistFails(c) PROVE TypeInv'
  <2>1. CallsOK' /\ HeadRuns'
    BY <1>9, SettleTypes DEF PersistFails, HeadRuns
  <2>2. FilesOK'
    BY <1>9 DEF PersistFails, FilesOK, CallsOK
  <2> QED
    BY <1>9, <2>1, <2>2 DEF PersistFails, RestOK
<1>10. CASE Crash
  <2>1. chain' \in Seq(Callers)
    BY <1>10 DEF Crash
  <2>2. CallsOK' /\ HeadRuns'
    BY <1>10, <2>1 DEF Crash, CallsOK, HeadRuns
  <2>3. FilesOK'
    BY <1>10 DEF Crash, FilesOK, files
  <2>4. /\ ready' = FALSE /\ calls' = calls /\ returned' = returned
        /\ crashes' \in 0..MaxCrashes
    BY <1>10 DEF Crash, RestOK
  <2>5. RestOK'
    BY <2>4 DEF RestOK
  <2> QED
    BY <2>2, <2>3, <2>5
<1>11. CASE UNCHANGED vars
  BY <1>11 DEF vars, files, FilesOK, CallsOK, RestOK, HeadRuns, Runs
<1> QED
  BY <1>1, <1>2, <1>3, <1>4, <1>5, <1>6, <1>7, <1>8, <1>9, <1>10, <1>11, <1>12
     DEF Next, CallStep

LEMMA TypeInit == Init => TypeInv
<1> SUFFICES ASSUME Init PROVE TypeInv
  OBVIOUS
<1> USE StoreAssumption DEF Init
<1>1. FilesOK
  BY InitialStateType DEF FilesOK
<1>2. CallsOK
  <2>1. chain \in Seq(Callers) /\ mem \in [Callers -> State]
    BY InitialStateType
  <2>2. pc \in [Callers -> {"idle"}]
    OBVIOUS
  <2>3. kind \in [Callers -> Kinds] /\ written \in [Callers -> SUBSET Nat]
    BY DEF Kinds
  <2> QED
    BY <2>1, <2>2, <2>3 DEF CallsOK
<1>3. RestOK
  <2>1. calls \in 0..MaxCalls /\ crashes \in 0..MaxCrashes
    OBVIOUS
  <2>2. returned \in [sequences : SUBSET Nat, ids : SUBSET Nat, requests : Nat, events : Nat]
    OBVIOUS
  <2>3. ready \in BOOLEAN
    OBVIOUS
  <2> QED
    BY <2>1, <2>2, <2>3 DEF RestOK
<1>4. HeadRuns
  BY DEF HeadRuns
<1> QED
  BY <1>1, <1>2, <1>3, <1>4 DEF TypeInv

LEMMA TypeAlways == Spec => []TypeInv
BY TypeInit, TypeStep, PTL DEF Spec

\* Every variable of the store keeps its type; in particular the next sequence
\* to allocate is never zero.
THEOREM TypeCorrect == Spec => []TypeOK
<1>1. TypeInv => TypeOK
  BY DEF TypeInv, FilesOK, CallsOK, RestOK, TypeOK
<1> QED
  BY <1>1, TypeAlways, PTL

-----------------------------------------------------------------------------
(* The stored sequences and the reconciliation.                             *)

\* The state never claims more than is stored, and the transaction that runs is
\* about to allocate the sequence after the last one stored.
StoreInv ==
  /\ InSequence
  /\ disk.last <= Len(research)
  /\ disk.next <= Len(research) + 1
  /\ \A c \in Callers :
       /\ pc[c] = "loaded" => /\ mem[c].next = Len(research) + 1
                              /\ mem[c].last <= Len(research)
       /\ pc[c] = "appended" => /\ mem[c].next <= Len(research) + 1
                                /\ mem[c].last <= Len(research)

\* A step after which no transaction runs, and that stores no record.
LEMMA StoreFrame ==
  ASSUME StoreInv, UNCHANGED research,
         disk' = disk \/ \E c \in Callers : pc[c] = "appended" /\ disk' = mem[c],
         \A c \in Callers : pc'[c] \in {"loaded", "appended"}
                              => pc'[c] = pc[c] /\ mem'[c] = mem[c]
  PROVE  StoreInv'
BY DEF StoreInv, InSequence

LEMMA StoreStep == TypeInv /\ StoreInv /\ [Next]_vars => StoreInv'
<1> SUFFICES ASSUME TypeInv, StoreInv, [Next]_vars PROVE StoreInv'
  OBVIOUS
<1>1. CASE Startup \/ Crash \/ UNCHANGED vars
  BY <1>1, StoreFrame DEF Startup, Crash, vars, files
<1>2. ASSUME NEW c \in Callers, NEW k \in Kinds, Ask(c, k) PROVE StoreInv'
  BY <1>2, StoreFrame DEF Ask, files, TypeInv, CallsOK
<1>3. ASSUME NEW c \in Callers, Load(c) PROVE StoreInv'
  <2>1. CASE MaxSequence < disk.last
    BY <1>3, <2>1, SettleTypes, StoreFrame DEF Load, files, TypeInv
  <2>2. CASE ~(MaxSequence < disk.last)
    <3>1. /\ mem'[c] = Reconciled(disk) /\ pc'[c] = "loaded"
          /\ \A d \in Callers : d # c => pc'[d] = pc[d] /\ mem'[d] = mem[d]
          /\ UNCHANGED <<research, disk>>
      BY <1>3, <2>2 DEF Load, files, TypeInv, CallsOK
    <3>2. MaxSequence = Len(research) /\ Len(research) \in Nat
      BY MaxSequenceIsLength, LenProperties DEF StoreInv, TypeInv, FilesOK
    <3>3. Reconciled(disk).next = Len(research) + 1 /\ Reconciled(disk).last <= Len(research)
      BY <3>2 DEF Reconciled, StoreInv, TypeInv, FilesOK, State
    <3> QED
      BY <3>1, <3>3 DEF StoreInv, InSequence
  <2> QED
    BY <2>1, <2>2
<1>4. ASSUME NEW c \in Callers, HandlerThrows(c) \/ AppendFails(c) PROVE StoreInv'
  <2>1. Runs(c) /\ Settle(c) /\ UNCHANGED <<research, disk>>
    BY <1>4 DEF HandlerThrows, AppendFails, TypeInv, HeadRuns, files
  <2> QED
    BY <2>1, SettleTypes, StoreFrame DEF TypeInv
<1>5. ASSUME NEW c \in Callers, AppendResearch(c) PROVE StoreInv'
  <2>1. PICK n \in 0..MaxBatch :
          /\ research' = research \o [i \in 1..n |-> mem[c].next + i - 1]
          /\ mem' = [mem EXCEPT ![c].next = @ + n,
                                ![c].requests = @ + 1,
                                ![c].last = HighestAllocated(mem[c], n)]
    BY <1>5 DEF AppendResearch
  <2>2. /\ n \in Nat /\ Len(research) \in Nat /\ mem[c] \in State
        /\ mem[c].next = Len(research) + 1 /\ mem[c].last <= Len(research)
    BY <1>5, StoreAssumption, LenProperties
       DEF AppendResearch, StoreInv, TypeInv, FilesOK, CallsOK
  <2>3. \A d \in Callers : d # c => pc[d] \notin {"loaded", "appended"}
    BY <1>5 DEF AppendResearch, TypeInv, HeadRuns, Runs
  <2> DEFINE new == [i \in 1..n |-> mem[c].next + i - 1]
  <2>4. new \in Seq(Nat) /\ Len(new) = n /\ research \in Seq(Nat)
    BY <2>2 DEF TypeInv, FilesOK
  <2>5. Len(research') = Len(research) + n
    BY <2>1, <2>4, ConcatProperties
  <2>6. InSequence'
    <3>0. DOMAIN (research') = 1..(Len(research) + n)
      <4>1. research' \in Seq(Nat)
        BY <2>1, <2>4, ConcatProperties
      <4> QED
        BY <2>5, <4>1, LenProperties
    <3> SUFFICES ASSUME NEW i \in 1..(Len(research) + n) PROVE research'[i] = i
      BY <3>0 DEF InSequence
    <3>1. CASE i <= Len(research)
      BY <2>1, <2>2, <2>4, <3>1, ConcatProperties, LenProperties DEF StoreInv, InSequence
    <3>2. CASE i > Len(research)
      BY <2>1, <2>2, <2>4, <3>2, ConcatProperties
    <3> QED
      BY <2>2, <3>1, <3>2
  <2>7. mem'[c].next = Len(research') + 1 /\ mem'[c].last <= Len(research')
    BY <2>1, <2>2, <2>5 DEF HighestAllocated, State, TypeInv, CallsOK
  <2>8. disk'.last <= Len(research') /\ disk'.next <= Len(research') + 1
    BY <1>5, <2>2, <2>5, SMTT(30) DEF AppendResearch, StoreInv, TypeInv, FilesOK, State
  <2>9. \A d \in Callers : d # c => pc'[d] \notin {"loaded", "appended"}
    BY <1>5, <2>3 DEF AppendResearch, TypeInv, CallsOK
  <2>10. pc'[c] = "appended"
    BY <1>5 DEF AppendResearch, TypeInv, CallsOK
  <2>11. mem'[c].next <= Len(research') + 1
    BY <2>2, <2>5, <2>7
  <2> QED
    BY <2>6, <2>7, <2>8, <2>9, <2>10, <2>11 DEF StoreInv
<1>6. ASSUME NEW c \in Callers, AppendAudit(c) PROVE StoreInv'
  <2>1. /\ pc[c] = "loaded" /\ pc'[c] = "appended" /\ UNCHANGED <<research, disk>>
        /\ mem'[c].next = mem[c].next /\ mem'[c].last = mem[c].last
        /\ \A d \in Callers : d # c => pc'[d] = pc[d] /\ mem'[d] = mem[d]
    BY <1>6 DEF AppendAudit, TypeInv, CallsOK, State
  <2>2. Len(research) \in Nat
    BY LenProperties DEF TypeInv, FilesOK
  <2> QED
    BY <2>1, <2>2 DEF StoreInv, InSequence
<1>8. ASSUME NEW c \in Callers, AppendEvent(c) PROVE StoreInv'
  <2>1. /\ pc[c] = "loaded" /\ pc'[c] = "appended" /\ UNCHANGED <<research, disk, mem>>
        /\ \A d \in Callers : d # c => pc'[d] = pc[d]
    BY <1>8 DEF AppendEvent, TypeInv, CallsOK
  <2>2. Len(research) \in Nat
    BY LenProperties DEF TypeInv, FilesOK
  <2> QED
    BY <2>1, <2>2 DEF StoreInv, InSequence
<1>7. ASSUME NEW c \in Callers, Commit(c) \/ PersistFails(c) PROVE StoreInv'
  <2>1. Runs(c) /\ Settle(c) /\ pc[c] = "appended" /\ disk' = mem[c] /\ UNCHANGED research
    BY <1>7 DEF Commit, PersistFails, TypeInv, HeadRuns
  <2> QED
    BY <2>1, SettleTypes, StoreFrame DEF TypeInv
<1> QED
  BY <1>1, <1>2, <1>3, <1>4, <1>5, <1>6, <1>7, <1>8 DEF Next, CallStep

LEMMA StoreInit == Init => StoreInv
BY EmptySeq DEF Init, InitialState, StoreInv, InSequence

LEMMA StoreAlways == Spec => []StoreInv
BY StoreInit, StoreStep, TypeAlways, PTL DEF Spec

\* The sequences of the stored records that have one are 1, 2, 3, ... whatever
\* write fails, whenever the process dies and whatever is stored without one.
THEOREM SequencesContiguousHolds == Spec => []SequencesContiguous
<1>1. StoreInv => SequencesContiguous
  BY DEF StoreInv, SequencesContiguous
<1> QED
  BY <1>1, StoreAlways, PTL

\* loadState never refuses the state as being ahead of the stored records.
THEOREM StateNotAheadHolds == Spec => []StateNotAhead
<1>1. TypeInv /\ StoreInv => StateNotAhead
  BY MaxSequenceIsLength DEF TypeInv, FilesOK, StoreInv, StateNotAhead
<1> QED
  BY <1>1, TypeAlways, StoreAlways, PTL

-----------------------------------------------------------------------------
(* What callers were told, and the chain of hashes of the mutation log.     *)

Ids(n) == [i \in 1..n |-> i]
Entries == Len(mutationLog)
Reported(n) == 1..n \subseteq returned.ids
Chained(n) == \A i \in 1..n : mutationLog[i].prev = Ids(i - 1)

LEMMA IdsGrow ==
  ASSUME NEW n \in Nat
  PROVE  /\ Append(Ids(n), n + 1) = Ids(n + 1)
         /\ Ids(n) \in Seq(Nat)
<1>1. Ids(n) \in Seq(Nat) /\ Len(Ids(n)) = n /\ DOMAIN Ids(n) = 1..n
  BY DEF Ids
<1>2. /\ Append(Ids(n), n + 1) \in Seq(Nat)
      /\ Len(Append(Ids(n), n + 1)) = n + 1
      /\ \A i \in 1..n : Append(Ids(n), n + 1)[i] = i
      /\ Append(Ids(n), n + 1)[n + 1] = n + 1
  BY <1>1, AppendProperties DEF Ids
<1>3. Append(Ids(n), n + 1) = [i \in 1..(n + 1) |-> Append(Ids(n), n + 1)[i]]
  BY <1>2, LenProperties
<1>4. \A i \in 1..(n + 1) : Append(Ids(n), n + 1)[i] = i
  BY <1>2
<1>5. Append(Ids(n), n + 1) = Ids(n + 1)
  BY <1>3, <1>4 DEF Ids
<1> QED
  BY <1>1, <1>5

\* Nothing was reported that is not stored, or counted in the state.
ReportInv ==
  /\ \A i \in 1..Entries : mutationLog[i].id = i
  /\ returned.ids \subseteq 1..Entries
  /\ returned.sequences \subseteq 1..Len(research)
  /\ returned.requests <= disk.requests
  /\ returned.events <= unsequenced

\* While every stored entry has been reported the state holds their chain.
ChainInv == Reported(Entries) => disk.tip = Ids(Entries) /\ Chained(Entries)

\* The transaction that runs works on the state that is stored; the entry it has
\* stored is the last one, and not reported yet.
Progress(c) ==
  /\ pc[c] = "loaded" => mem[c].requests = disk.requests /\ mem[c].tip = disk.tip
  /\ pc[c] = "appended" /\ kind[c] = "research" =>
       /\ mem[c].requests = disk.requests + 1 /\ mem[c].tip = disk.tip
       /\ written[c] \subseteq 1..Len(research)
  /\ pc[c] = "appended" /\ kind[c] = "audit" =>
       /\ mem[c].requests = disk.requests
       /\ written[c] = {Entries} /\ Entries > 0 /\ Entries \notin returned.ids
       /\ Reported(Entries - 1) => mem[c].tip = Ids(Entries) /\ Chained(Entries)
  /\ pc[c] = "appended" /\ kind[c] = "event" =>
       /\ mem[c].requests = disk.requests /\ mem[c].tip = disk.tip
       /\ returned.events < unsequenced

RecordInv == ReportInv /\ ChainInv /\ \A c \in Callers : Progress(c)

\* A step after which no transaction runs, that stores and reports nothing.
LEMMA RecordFrame ==
  ASSUME RecordInv, UNCHANGED <<files, returned>>,
         \A c \in Callers : pc'[c] \in {"loaded", "appended"} =>
           /\ pc'[c] = pc[c] /\ mem'[c] = mem[c]
           /\ kind'[c] = kind[c] /\ written'[c] = written[c]
  PROVE  RecordInv'
<1>1. ReportInv' /\ ChainInv'
  BY DEF RecordInv, ReportInv, ChainInv, Reported, Chained, Entries, files
<1>2. ASSUME NEW c \in Callers PROVE Progress(c)'
  BY DEF RecordInv, Progress, Reported, Chained, Entries, files
<1> QED
  BY <1>1, <1>2 DEF RecordInv

LEMMA EntriesType == TypeInv => Entries \in Nat /\ Len(research) \in Nat
BY LenProperties DEF TypeInv, FilesOK, Entries

\* The state of a finished transaction reaches the file, reported or not.
LEMMA RecordCommit ==
  ASSUME TypeInv, RecordInv, NEW c \in Callers, pc[c] = "appended", disk' = mem[c],
         Settle(c), UNCHANGED <<research, unsequenced, mutationLog>>,
         Report(c) \/ UNCHANGED returned
  PROVE  RecordInv'
<1>1. Runs(c) /\ mem[c] \in State /\ kind[c] \in Kinds /\ Entries \in Nat
  BY EntriesType DEF TypeInv, HeadRuns, CallsOK
<1>2. \A d \in Callers : pc'[d] \notin {"loaded", "appended"}
  BY <1>1, SettleTypes DEF TypeInv
<1>3. \A d \in Callers : Progress(d)'
  BY <1>2 DEF Progress
<1>4. Entries' = Entries /\ Len(research') = Len(research)
  BY DEF Entries
<1>5. CASE kind[c] = "audit"
  <2>1. /\ returned'.ids \in {returned.ids, returned.ids \cup {Entries}}
        /\ returned'.sequences = returned.sequences /\ returned'.requests = returned.requests
        /\ returned'.events = returned.events
    BY <1>5 DEF Report, RecordInv, Progress, TypeInv, RestOK
  <2>2. Entries > 0 /\ mem[c].requests = disk.requests
    BY <1>5 DEF RecordInv, Progress
  <2>3. ReportInv'
    BY <1>1, <1>4, <2>1, <2>2 DEF RecordInv, ReportInv
  <2>4. ChainInv'
    <3> SUFFICES ASSUME Reported(Entries)' PROVE (disk.tip = Ids(Entries) /\ Chained(Entries))'
      BY DEF ChainInv
    <3>1. \A i \in 1..(Entries - 1) : i \in returned.ids
      BY <1>1, <1>4, <2>1 DEF Reported
    <3>2. mem[c].tip = Ids(Entries) /\ Chained(Entries)
      BY <1>5, <3>1 DEF RecordInv, Progress, Reported
    <3> QED
      BY <1>4, <3>2 DEF Chained
  <2> QED
    BY <1>3, <2>3, <2>4 DEF RecordInv
<1>6. CASE kind[c] = "research"
  <2>1. /\ returned'.ids = returned.ids /\ returned'.events = returned.events
        /\ \/ returned'.sequences = returned.sequences /\ returned'.requests = returned.requests
           \/ /\ returned'.sequences = returned.sequences \cup written[c]
              /\ returned'.requests = returned.requests + 1
    BY <1>6 DEF Report, TypeInv, RestOK
  <2>2. mem[c].requests = disk.requests + 1 /\ mem[c].tip = disk.tip /\ written[c] \subseteq 1..Len(research)
    BY <1>6 DEF RecordInv, Progress
  <2>3. returned.requests \in Nat /\ disk.requests \in Nat
    BY DEF TypeInv, RestOK, FilesOK, State
  <2>4. ReportInv'
    BY <1>4, <2>1, <2>2, <2>3 DEF RecordInv, ReportInv
  <2>5. ChainInv'
    BY <1>4, <2>1, <2>2 DEF RecordInv, ChainInv, Reported, Chained
  <2> QED
    BY <1>3, <2>4, <2>5 DEF RecordInv
<1>7. CASE kind[c] = "event"
  <2>1. /\ returned'.ids = returned.ids /\ returned'.sequences = returned.sequences
        /\ returned'.requests = returned.requests
        /\ returned'.events \in {returned.events, returned.events + 1}
    BY <1>7 DEF Report, TypeInv, RestOK
  <2>2. /\ mem[c].requests = disk.requests /\ mem[c].tip = disk.tip
        /\ returned.events < unsequenced
    BY <1>7 DEF RecordInv, Progress
  <2>3. returned.events \in Nat /\ unsequenced \in Nat
    BY DEF TypeInv, RestOK, FilesOK
  <2>4. ReportInv'
    BY <1>4, <2>1, <2>2, <2>3 DEF RecordInv, ReportInv
  <2>5. ChainInv'
    BY <1>4, <2>1, <2>2 DEF RecordInv, ChainInv, Reported, Chained
  <2> QED
    BY <1>3, <2>4, <2>5 DEF RecordInv
<1> QED
  BY <1>1, <1>5, <1>6, <1>7 DEF Kinds

LEMMA RecordStep == TypeInv /\ StoreInv /\ RecordInv /\ [Next]_vars => RecordInv'
<1> SUFFICES ASSUME TypeInv, StoreInv, RecordInv, [Next]_vars PROVE RecordInv'
  OBVIOUS
<1>1. CASE Startup \/ Crash \/ UNCHANGED vars
  BY <1>1, RecordFrame DEF Startup, Crash, vars, files
<1>2. ASSUME NEW c \in Callers, NEW k \in Kinds, Ask(c, k) PROVE RecordInv'
  BY <1>2, RecordFrame DEF Ask, TypeInv, CallsOK
<1>3. ASSUME NEW c \in Callers, Load(c) PROVE RecordInv'
  <2>1. CASE MaxSequence < disk.last
    BY <1>3, <2>1, SettleTypes, RecordFrame DEF Load, TypeInv
  <2>2. CASE ~(MaxSequence < disk.last)
    <3>1. /\ mem'[c] = Reconciled(disk) /\ pc'[c] = "loaded"
          /\ \A d \in Callers : d # c => pc'[d] = pc[d] /\ mem'[d] = mem[d]
          /\ UNCHANGED <<kind, written, files, returned>>
      BY <1>3, <2>2 DEF Load, TypeInv, CallsOK
    <3>2. Reconciled(disk).requests = disk.requests /\ Reconciled(disk).tip = disk.tip
      BY DEF Reconciled, TypeInv, FilesOK, State
    <3>3. ReportInv' /\ ChainInv'
      BY <3>1 DEF RecordInv, ReportInv, ChainInv, Reported, Chained, Entries, files
    <3>4. Progress(c)'
      BY <3>1, <3>2 DEF Progress, files
    <3>5. ASSUME NEW d \in Callers, d # c PROVE Progress(d)'
      BY <3>1, <3>5 DEF RecordInv, Progress, Reported, Chained, Entries, files
    <3> QED
      BY <3>3, <3>4, <3>5 DEF RecordInv
  <2> QED
    BY <2>1, <2>2
<1>4. ASSUME NEW c \in Callers, HandlerThrows(c) \/ AppendFails(c) PROVE RecordInv'
  <2>1. Runs(c) /\ Settle(c) /\ UNCHANGED <<files, returned>>
    BY <1>4 DEF HandlerThrows, AppendFails, TypeInv, HeadRuns
  <2> QED
    BY <2>1, SettleTypes, RecordFrame DEF TypeInv
<1>5. ASSUME NEW c \in Callers, AppendResearch(c) PROVE RecordInv'
  <2>1. PICK n \in 0..MaxBatch :
          /\ research' = research \o [i \in 1..n |-> mem[c].next + i - 1]
          /\ written' = [written EXCEPT ![c] = {mem[c].next + i - 1 : i \in 1..n}]
          /\ mem' = [mem EXCEPT ![c].next = @ + n,
                                ![c].requests = @ + 1,
                                ![c].last = HighestAllocated(mem[c], n)]
    BY <1>5 DEF AppendResearch
  <2>2. /\ n \in Nat /\ Len(research) \in Nat /\ mem[c] \in State
        /\ mem[c].next = Len(research) + 1
        /\ mem[c].requests = disk.requests /\ mem[c].tip = disk.tip
        /\ kind[c] = "research"
    BY <1>5, StoreAssumption, EntriesType
       DEF AppendResearch, StoreInv, TypeInv, CallsOK, RecordInv, Progress
  <2> DEFINE new == [i \in 1..n |-> mem[c].next + i - 1]
  <2>3. new \in Seq(Nat) /\ Len(new) = n /\ research \in Seq(Nat)
    BY <2>2 DEF TypeInv, FilesOK
  <2>4. Len(research') = Len(research) + n
    BY <2>1, <2>3, ConcatProperties
  <2>5. \A d \in Callers : d # c => pc'[d] \notin {"loaded", "appended"}
    BY <1>5 DEF AppendResearch, TypeInv, CallsOK, HeadRuns, Runs
  <2>6. written'[c] \subseteq 1..Len(research')
    BY <2>1, <2>2, <2>4 DEF TypeInv, CallsOK
  <2>7. mem'[c].requests = disk.requests + 1 /\ mem'[c].tip = disk.tip
    BY <2>1, <2>2 DEF TypeInv, CallsOK, State
  <2>8. pc'[c] = "appended" /\ UNCHANGED <<unsequenced, mutationLog, disk, kind, returned>>
    BY <1>5 DEF AppendResearch, TypeInv, CallsOK
  <2>9. returned.sequences \subseteq 1..Len(research')
    BY <2>2, <2>4 DEF RecordInv, ReportInv
  <2>10. ReportInv' /\ ChainInv'
    BY <2>8, <2>9 DEF RecordInv, ReportInv, ChainInv, Reported, Chained, Entries
  <2>11. Progress(c)'
    BY <2>2, <2>6, <2>7, <2>8 DEF Progress
  <2>12. ASSUME NEW d \in Callers, d # c PROVE Progress(d)'
    BY <2>5, <2>12 DEF Progress
  <2> QED
    BY <2>10, <2>11, <2>12 DEF RecordInv
<1>6. ASSUME NEW c \in Callers, AppendAudit(c) PROVE RecordInv'
  <2> DEFINE n == Entries + 1
  <2>1. /\ Entries \in Nat /\ mem[c] \in State /\ mem[c].tip = disk.tip
        /\ mem[c].requests = disk.requests /\ kind[c] = "audit"
    BY <1>6, EntriesType DEF AppendAudit, TypeInv, CallsOK, RecordInv, Progress
  <2>2. [id |-> n, prev |-> mem[c].tip] \in [id : Nat, prev : Seq(Nat)]
    BY <2>1 DEF State
  <2>3. /\ Entries' = n
        /\ \A i \in 1..Entries : mutationLog'[i] = mutationLog[i]
        /\ mutationLog'[n] = [id |-> n, prev |-> mem[c].tip]
    BY <1>6, <2>1, <2>2, AppendProperties DEF AppendAudit, TypeInv, FilesOK, Entries
  <2>4. n \notin returned.ids
    BY <2>1 DEF RecordInv, ReportInv
  <2>5. /\ mem'[c].tip = Append(mem[c].tip, n) /\ mem'[c].requests = mem[c].requests
        /\ written'[c] = {n} /\ pc'[c] = "appended"
        /\ UNCHANGED <<research, unsequenced, disk, kind, returned>>
    BY <1>6, <2>1 DEF AppendAudit, TypeInv, CallsOK, State, Entries
  <2>6. ReportInv'
    <3>1. \A i \in 1..n : mutationLog'[i].id = i
      BY <2>1, <2>3 DEF RecordInv, ReportInv
    <3>2. returned.ids \subseteq 1..n
      BY <2>1 DEF RecordInv, ReportInv
    <3> QED
      BY <2>3, <2>5, <3>1, <3>2 DEF RecordInv, ReportInv
  <2>7. ChainInv'
    <3>1. n \in 1..n
      BY <2>1
    <3> QED
      BY <2>3, <2>4, <2>5, <3>1 DEF ChainInv, Reported
  <2>8. Reported(Entries) =>
          mem'[c].tip = Ids(n) /\ \A i \in 1..n : mutationLog'[i].prev = Ids(i - 1)
    <3> SUFFICES ASSUME Reported(Entries)
                 PROVE  mem'[c].tip = Ids(n) /\ \A i \in 1..n : mutationLog'[i].prev = Ids(i - 1)
      OBVIOUS
    <3>1. disk.tip = Ids(Entries) /\ Chained(Entries)
      BY DEF RecordInv, ChainInv
    <3>2. mem'[c].tip = Ids(n)
      BY <2>1, <2>5, <3>1, IdsGrow
    <3>3. \A i \in 1..n : mutationLog'[i].prev = Ids(i - 1)
      <4> SUFFICES ASSUME NEW i \in 1..n PROVE mutationLog'[i].prev = Ids(i - 1)
        OBVIOUS
      <4>1. CASE i = n
        BY <2>1, <2>3, <3>1, <4>1
      <4>2. CASE i # n
        BY <2>1, <2>3, <3>1, <4>2 DEF Chained
      <4> QED
        BY <4>1, <4>2
    <3> QED
      BY <3>2, <3>3
  <2>9. Progress(c)'
    <3>1. (Entries - 1)' = Entries /\ Entries' > 0
      BY <2>1, <2>3
    <3> QED
      BY <2>1, <2>3, <2>4, <2>5, <2>8, <3>1 DEF Progress, Reported, Chained
  <2>10. ASSUME NEW d \in Callers, d # c PROVE Progress(d)'
    BY <1>6, <2>10 DEF AppendAudit, Progress, TypeInv, CallsOK, HeadRuns, Runs
  <2> QED
    BY <2>6, <2>7, <2>9, <2>10 DEF RecordInv
<1>8. ASSUME NEW c \in Callers, AppendEvent(c) PROVE RecordInv'
  <2>1. /\ pc[c] = "loaded" /\ pc'[c] = "appended" /\ kind[c] = "event"
        /\ unsequenced' = unsequenced + 1
        /\ UNCHANGED <<research, mutationLog, disk, kind, mem, returned>>
    BY <1>8 DEF AppendEvent, TypeInv, CallsOK
  <2>2. \A d \in Callers : d # c => pc'[d] \notin {"loaded", "appended"}
    BY <1>8 DEF AppendEvent, TypeInv, CallsOK, HeadRuns, Runs
  <2>3. unsequenced \in Nat /\ returned.events \in Nat
    BY DEF TypeInv, FilesOK, RestOK
  <2>4. ReportInv' /\ ChainInv'
    BY <2>1, <2>3 DEF RecordInv, ReportInv, ChainInv, Reported, Chained, Entries
  <2>5. Progress(c)'
    BY <2>1, <2>3 DEF RecordInv, ReportInv, Progress
  <2>6. ASSUME NEW d \in Callers, d # c PROVE Progress(d)'
    BY <2>2, <2>6 DEF Progress
  <2> QED
    BY <2>4, <2>5, <2>6 DEF RecordInv
<1>7. ASSUME NEW c \in Callers, Commit(c) \/ PersistFails(c) PROVE RecordInv'
  BY <1>7, RecordCommit DEF Commit, PersistFails
<1> QED
  BY <1>1, <1>2, <1>3, <1>4, <1>5, <1>6, <1>7, <1>8 DEF Next, CallStep

LEMMA RecordInit == Init => RecordInv
<1> SUFFICES ASSUME Init PROVE RecordInv
  OBVIOUS
<1>1. Entries = 0 /\ Len(research) = 0
  BY EmptySeq DEF Init, Entries
<1>2. disk.tip = Ids(0)
  BY DEF Init, InitialState, Ids
<1>3. ReportInv
  BY <1>1 DEF Init, InitialState, ReportInv
<1>4. ChainInv
  BY <1>1, <1>2 DEF ChainInv, Chained
<1>5. \A c \in Callers : Progress(c)
  BY DEF Init, Progress
<1> QED
  BY <1>3, <1>4, <1>5 DEF RecordInv

LEMMA RecordAlways == Spec => []RecordInv
BY RecordInit, RecordStep, TypeAlways, StoreAlways, PTL DEF Spec

\* What a caller was told is stored, is, and is counted, whatever fails later.
THEOREM ReportedIsStoredHolds == Spec => []ReportedIsStored
<1>1. TypeInv /\ StoreInv /\ RecordInv => ReportedIsStored
  <2> SUFFICES ASSUME TypeInv, StoreInv, RecordInv PROVE ReportedIsStored
    OBVIOUS
  <2>1. DOMAIN research = 1..Len(research) /\ DOMAIN mutationLog = 1..Entries
    BY LenProperties DEF TypeInv, FilesOK, Entries
  <2>2. \A i \in DOMAIN research : research[i] = i
    BY DEF StoreInv, InSequence
  <2> QED
    BY <2>1, <2>2 DEF RecordInv, ReportInv, ReportedIsStored
<1> QED
  BY <1>1, TypeAlways, StoreAlways, RecordAlways, PTL

\* The calls of a process never fork the chain of the mutation log.
THEOREM LogVerifiesHolds == Spec => []LogVerifies
<1>1. TypeInv /\ RecordInv => LogVerifies
  <2> SUFFICES ASSUME TypeInv, RecordInv,
                      {mutationLog[i].id : i \in DOMAIN mutationLog} \subseteq returned.ids
               PROVE  LogChainVerifies
    BY DEF LogVerifies
  <2>1. DOMAIN mutationLog = 1..Entries /\ Entries \in Nat
    BY LenProperties DEF TypeInv, FilesOK, Entries
  <2>2. \A n \in 0..Entries : EntryIds(n) = Ids(n)
    BY <2>1 DEF EntryIds, Ids, RecordInv, ReportInv
  <2>3. Reported(Entries)
    BY <2>1 DEF Reported, RecordInv, ReportInv
  <2>4. disk.tip = Ids(Entries) /\ Chained(Entries)
    BY <2>3 DEF RecordInv, ChainInv
  <2>5. \A i \in 1..Entries : mutationLog[i].prev = EntryIds(i - 1)
    BY <2>1, <2>2, <2>4 DEF Chained
  <2> QED
    BY <2>1, <2>2, <2>4, <2>5 DEF LogChainVerifies, Entries
<1> QED
  BY <1>1, TypeAlways, RecordAlways, PTL
=============================================================================
