--------------------------- MODULE GovernanceStore ---------------------------
(***************************************************************************)
(* The governance transactions of security/api-governance.js and the two   *)
(* append-only files that they keep beside the state file: the research    *)
(* records, which loadState reconciles the state with, and the mutation    *)
(* log of security/mutation-control.js, whose tip only the state holds.    *)
(*                                                                         *)
(* createStateTransactionWrapper chains the transactions of a process, so  *)
(* only the head of the chain runs; each reads the state file, runs its    *)
(* handler, writes the file it appends to, and then the state file.  Each  *)
(* of these is a step: the process may crash, or a write fail, in between. *)
(***************************************************************************)
EXTENDS Naturals, Sequences

CONSTANTS
  Callers,        \* calls that may be in a transaction at the same time
  MaxBatch,       \* records that one research request brings
  MaxRecords,     \* bound: research records stored in a behaviour
  MaxEntries,     \* bound: mutation log entries stored in a behaviour
  MaxCalls,       \* bound: transactions asked for in a behaviour
  MaxCrashes,     \* bound: process restarts in a behaviour
  StorageMayFail  \* whether a write may fail, before or after its rename

ASSUME StoreAssumption ==
  /\ MaxBatch \in Nat /\ MaxRecords \in Nat /\ MaxEntries \in Nat
  /\ MaxCalls \in Nat /\ MaxCrashes \in Nat
  /\ StorageMayFail \in BOOLEAN

VARIABLES
  research,     \* research-ingestion.ndjson: the sequence of each record that has one
  unsequenced,  \* the same file: how many records have none
  mutationLog,  \* mutation-attempts.ndjson: each entry's id and prevChainHash
  disk,         \* the state file
  ready,        \* the startup checks of mcp-service have passed in this process
  chain,        \* the promise chain: calls in the order they asked
  pc, kind,     \* what each call is doing, and for which transaction
  mem,          \* the state a transaction has loaded and changed
  written,      \* the sequences, or the entry id, that it has appended
  returned,     \* what callers were told is done: sequences, entry ids, requests, events
  calls, crashes

files == <<research, unsequenced, mutationLog, disk>>
vars  == <<files, ready, chain, pc, kind, mem, written, returned, calls, crashes>>

Kinds == {"research", "audit", "event"}

\* A chain hash stands for the entries it covers, so it is their ids in order.
State == [next : Nat \ {0}, last : Nat, requests : Nat, tip : Seq(Nat)]

TypeOK ==
  /\ research \in Seq(Nat \ {0})
  /\ unsequenced \in Nat
  /\ mutationLog \in Seq([id : Nat, prev : Seq(Nat)])
  /\ disk \in State
  /\ ready \in BOOLEAN
  /\ chain \in Seq(Callers)
  /\ pc \in [Callers -> {"idle", "queued", "loaded", "appended"}]
  /\ kind \in [Callers -> Kinds]
  /\ mem \in [Callers -> State]
  /\ written \in [Callers -> SUBSET Nat]
  /\ returned \in [sequences : SUBSET Nat, ids : SUBSET Nat, requests : Nat, events : Nat]
  /\ calls \in 0..MaxCalls
  /\ crashes \in 0..MaxCrashes

\* Variants named <definition>_<fault> are the same code with one fault; each is
\* used to see that a property notices the fault, and by no specification.

\* buildDefaultV8State
InitialState == [next |-> 1, last |-> 0, requests |-> 0, tip |-> <<>>]

Init ==
  /\ research = <<>>
  /\ unsequenced = 0
  /\ mutationLog = <<>>
  /\ disk = InitialState
  /\ ready = FALSE
  /\ chain = <<>>
  /\ pc = [c \in Callers |-> "idle"]
  /\ kind = [c \in Callers |-> "research"]
  /\ mem = [c \in Callers |-> InitialState]
  /\ written = [c \in Callers |-> {}]
  /\ returned = [sequences |-> {}, ids |-> {}, requests |-> 0, events |-> 0]
  /\ calls = 0
  /\ crashes = 0

-----------------------------------------------------------------------------
(* Startup.                                                                 *)

InSequence == \A i \in DOMAIN research : research[i] = i

\* verifyStoredReplay: the stored records have the sequences 1, 2, 3, ...; those
\* with none sort first, and the first of them fails the check.
StoredReplayVerifies == unsequenced = 0 /\ InSequence

EntryIds(n) == [i \in 1..n |-> mutationLog[i].id]

\* verifyMutationLogChain
LogChainVerifies ==
  /\ \A i \in DOMAIN mutationLog : mutationLog[i].prev = EntryIds(i - 1)
  /\ disk.tip = EntryIds(Len(mutationLog))

\* mcp-service's initialize and ensureMutationHydrated, before the first method;
\* a check that fails leaves the service refusing its methods.
Startup ==
  /\ ~ready
  /\ StoredReplayVerifies
  /\ LogChainVerifies
  /\ ready' = TRUE
  /\ UNCHANGED <<files, chain, pc, kind, mem, written, returned, calls, crashes>>

-----------------------------------------------------------------------------
(* A transaction.                                                           *)

\* withGovernanceTransaction joins the promise chain.
Ask(c, k) ==
  /\ ready
  /\ calls < MaxCalls
  /\ pc[c] = "idle"
  /\ pc' = [pc EXCEPT ![c] = "queued"]
  /\ kind' = [kind EXCEPT ![c] = k]
  /\ chain' = Append(chain, c)
  /\ calls' = calls + 1
  /\ UNCHANGED <<files, ready, mem, written, returned, crashes>>

Runs_Unchained(c) == \E i \in DOMAIN chain : chain[i] = c
Runs(c) == chain # <<>> /\ Head(chain) = c

Settle_Stuck(c) ==
  /\ pc' = [pc EXCEPT ![c] = "idle"]
  /\ UNCHANGED <<chain, kind, mem, written>>

\* The call has its answer or its error; the chain goes on in either case.
Settle(c) ==
  /\ pc' = [pc EXCEPT ![c] = "idle"]
  /\ chain' = Tail(chain)
  /\ UNCHANGED <<kind, mem, written>>

\* The largest stored sequence: records are stored in the order of their sequences,
\* and maxSequence passes over those that have none.
MaxSequence == IF research = <<>> THEN 0 ELSE research[Len(research)]

Reconciled_Trusting(state) == state

\* The records are the source of truth for the next sequence.
Reconciled(state) ==
  IF MaxSequence >= state.next
  THEN [state EXCEPT !.next = MaxSequence + 1, !.last = MaxSequence]
  ELSE state

\* loadState
Load(c) ==
  /\ pc[c] = "queued"
  /\ Runs(c)
  /\ IF MaxSequence < disk.last
     THEN Settle(c)                        \* API_GOVERNANCE_SEQUENCE_STATE_AHEAD
     ELSE /\ mem' = [mem EXCEPT ![c] = Reconciled(disk)]
          /\ pc' = [pc EXCEPT ![c] = "loaded"]
          /\ UNCHANGED <<chain, kind, written>>
  /\ UNCHANGED <<files, ready, returned, calls, crashes>>

\* The handler refuses (a limit, a check, a validation), or the first write fails
\* before its rename.  Nothing is persisted.
HandlerThrows(c) ==
  /\ pc[c] = "loaded"
  /\ Settle(c)
  /\ UNCHANGED <<files, ready, returned, calls, crashes>>

HighestAllocated_Next(state, n) == IF n = 0 THEN state.last ELSE state.next + n
HighestAllocated(state, n) == IF n = 0 THEN state.last ELSE state.next + n - 1

\* BaseMcp.run: the usage is counted and each record gets the next sequence; the
\* records are stored before the state that counts them.
AppendResearch(c) ==
  /\ pc[c] = "loaded"
  /\ kind[c] = "research"
  /\ \E n \in 0..MaxBatch :
       /\ Len(research) + n <= MaxRecords
       /\ research' = research \o [i \in 1..n |-> mem[c].next + i - 1]
       /\ written' = [written EXCEPT ![c] = {mem[c].next + i - 1 : i \in 1..n}]
       /\ mem' = [mem EXCEPT ![c].next = @ + n,
                             ![c].requests = @ + 1,
                             ![c].last = HighestAllocated(mem[c], n)]
  /\ pc' = [pc EXCEPT ![c] = "appended"]
  /\ UNCHANGED <<unsequenced, mutationLog, disk, ready, chain, kind, returned, calls, crashes>>

\* appendGovernanceTransactionRecord of the governance bridge: a decision or an
\* execution of a task is stored beside the research records, without a sequence.
AppendEvent(c) ==
  /\ pc[c] = "loaded"
  /\ kind[c] = "event"
  /\ unsequenced' = unsequenced + 1
  /\ written' = [written EXCEPT ![c] = {}]
  /\ pc' = [pc EXCEPT ![c] = "appended"]
  /\ UNCHANGED <<research, mutationLog, disk, ready, chain, kind, mem, returned, calls,
                 crashes>>

\* appendAuditLog: the entry is chained to the tip of the state; the log is
\* stored before the state that holds its tip.
AppendAudit(c) ==
  LET id == Len(mutationLog) + 1 IN
  /\ pc[c] = "loaded"
  /\ kind[c] = "audit"
  /\ Len(mutationLog) < MaxEntries
  /\ mutationLog' = Append(mutationLog, [id |-> id, prev |-> mem[c].tip])
  /\ written' = [written EXCEPT ![c] = {id}]
  /\ mem' = [mem EXCEPT ![c].tip = Append(@, id)]
  /\ pc' = [pc EXCEPT ![c] = "appended"]
  /\ UNCHANGED <<research, unsequenced, disk, ready, chain, kind, returned, calls, crashes>>

\* The append fails after its rename: the file has changed, the call fails.
AppendFails(c) ==
  /\ StorageMayFail
  /\ pc[c] = "appended"
  /\ Settle(c)
  /\ UNCHANGED <<files, ready, returned, calls, crashes>>

\* What the caller of a committed transaction is told.
Report(c) ==
  returned' =
    CASE kind[c] = "audit"    -> [returned EXCEPT !.ids = @ \cup written[c]]
      [] kind[c] = "research" -> [returned EXCEPT !.sequences = @ \cup written[c],
                                                  !.requests = @ + 1]
      [] kind[c] = "event"    -> [returned EXCEPT !.events = @ + 1]

\* persistState, and the transaction is done.
Commit(c) ==
  /\ pc[c] = "appended"
  /\ disk' = mem[c]
  /\ Settle(c)
  /\ Report(c)
  /\ UNCHANGED <<research, unsequenced, mutationLog, ready, calls, crashes>>

\* The state is renamed into place, then a sync fails: stored, but refused.
PersistFails(c) ==
  /\ StorageMayFail
  /\ pc[c] = "appended"
  /\ disk' = mem[c]
  /\ Settle(c)
  /\ UNCHANGED <<research, unsequenced, mutationLog, ready, returned, calls, crashes>>

\* The process dies and restarts: the files stay.
Crash ==
  /\ crashes < MaxCrashes
  /\ crashes' = crashes + 1
  /\ ready' = FALSE
  /\ chain' = <<>>
  /\ pc' = [c \in Callers |-> "idle"]
  /\ UNCHANGED <<files, kind, mem, written, returned, calls>>

CallStep(c) ==
  \/ Load(c)
  \/ HandlerThrows(c)
  \/ AppendResearch(c)
  \/ AppendAudit(c)
  \/ AppendEvent(c)
  \/ AppendFails(c)
  \/ Commit(c)
  \/ PersistFails(c)

Next ==
  \/ Startup
  \/ \E c \in Callers, k \in Kinds : Ask(c, k)
  \/ \E c \in Callers : CallStep(c)
  \/ Crash

Spec == Init /\ [][Next]_vars

\* A transaction that has started goes on: its awaits are file operations.
Fairness == \A c \in Callers : WF_vars(CallStep(c))
FairSpec == Spec /\ Fairness

-----------------------------------------------------------------------------
(* Properties.                                                              *)

\* No transaction is between its two writes.
Settled == \A c \in Callers : pc[c] # "appended"

\* A record that was stored while the state was not is found again by the next
\* transaction: whatever fails or crashes, and however many records without a
\* sequence are stored in between, the sequences that are stored stay 1, 2, 3, ...
\* with none missing and none twice.
SequencesContiguous == InSequence

\* The state never claims records that are not stored: loadState's refusal
\* (API_GOVERNANCE_SEQUENCE_STATE_AHEAD), which no call could repair, never fires.
StateNotAhead == disk.last <= MaxSequence

\* What a caller was told is stored stays stored, and no concurrent transaction
\* overwrites its count: the persisted requests include every one reported.
ReportedIsStored ==
  /\ returned.sequences \subseteq {research[i] : i \in DOMAIN research}
  /\ returned.ids \subseteq {mutationLog[i].id : i \in DOMAIN mutationLog}
  /\ returned.requests <= disk.requests
  /\ returned.events <= unsequenced

\* Between two transactions, a mutation log whose every entry was reported as
\* stored verifies against the state: overlapping calls never fork the chain of
\* hashes nor leave the state with another tip.
LogVerifies ==
  Settled /\ {mutationLog[i].id : i \in DOMAIN mutationLog} \subseteq returned.ids
    => LogChainVerifies

\* Between two transactions the mutation log verifies against the state, whatever
\* has happened: only tampering makes the startup check fail.
OnlyTamperingBreaksLog == Settled => LogChainVerifies

\* Every call settles: the chain goes on after a handler that throws.
CallsSettle == \A c \in Callers : pc[c] = "queued" ~> pc[c] = "idle"
=============================================================================
