--------------------------- MODULE PersistentStore ---------------------------
(***************************************************************************)
(* createPersistentStore of state/persistent-store.js: a file that is      *)
(* replaced whole, by a temporary file and a rename.  A snapshot waits for *)
(* a debounce timer, and only the newest one waits.  Flushes run one at a  *)
(* time; a snapshot whose write fails is dropped.                          *)
(*                                                                         *)
(* Operations, for the module that extends this one to call.               *)
(***************************************************************************)
EXTENDS Naturals, Sequences

CONSTANTS
  None,        \* no snapshot
  MaxFlushes   \* bound: flushes that have not returned
ASSUME FlushesAssumption == MaxFlushes \in Nat \ {0}

VARIABLES
  disk,      \* the file
  pending,   \* pendingEnvelope
  timer,     \* whether writeTimer is set
  writing,   \* the snapshot being written
  chain,     \* the flushes that have not returned: the first one is writing
  closed,
  \* history
  latest,    \* the newest snapshot: loaded, or else scheduled since
  dropped    \* whether its write has failed

storeVars == <<disk, pending, timer, writing, chain, closed, latest, dropped>>

Flushes == {"timer", "close"}

StoreInit(file) ==
  /\ disk = file
  /\ pending = None /\ timer = FALSE /\ writing = None /\ chain = <<>>
  /\ closed = FALSE
  /\ latest = None /\ dropped = FALSE

\* The process ends, and its memory with it.
StoreEnds ==
  /\ pending' = None /\ timer' = FALSE /\ writing' = None /\ chain' = <<>>
  /\ closed' = FALSE
  /\ latest' = None /\ dropped' = FALSE
  /\ UNCHANGED disk

ScheduleWrite_NoTimer(snapshot) ==
  IF closed THEN UNCHANGED storeVars
  ELSE /\ pending' = snapshot /\ timer' = (chain = <<>>)
       /\ latest' = snapshot /\ dropped' = FALSE
       /\ UNCHANGED <<disk, writing, chain, closed>>
ScheduleWrite(snapshot) ==
  IF closed THEN UNCHANGED storeVars
  ELSE /\ pending' = snapshot /\ timer' = TRUE
       /\ latest' = snapshot /\ dropped' = FALSE
       /\ UNCHANGED <<disk, writing, chain, closed>>

\* The flushes of rest run, the first of them until it waits for a write.  One
\* that has nothing to write returns at once, and so do those behind it.
RunFlushes(rest) ==
  /\ timer' = FALSE
  /\ writing' = pending /\ pending' = None
  /\ chain' = IF pending = None THEN <<>> ELSE rest

Flush(kind) ==
  IF chain = <<>> THEN RunFlushes(<<kind>>)
  ELSE chain' = Append(chain, kind) /\ UNCHANGED <<pending, timer, writing>>

\* The debounce is over.  The flush that it asks for may have to wait.
TimerFires ==
  /\ timer /\ Len(chain) < MaxFlushes
  /\ IF chain = <<>> THEN RunFlushes(<<"timer">>)
     ELSE /\ chain' = Append(chain, "timer") /\ timer' = FALSE
          /\ UNCHANGED <<pending, writing>>
  /\ UNCHANGED <<disk, closed, latest, dropped>>

Close ==
  /\ closed' = TRUE
  /\ Flush("close")
  /\ UNCHANGED <<disk, latest, dropped>>

\* A snapshot that came meanwhile is written by the same flush.
WriteEnds ==
  /\ writing # None
  /\ disk' = writing
  /\ IF pending # None
     THEN writing' = pending /\ pending' = None /\ UNCHANGED <<timer, chain>>
     ELSE /\ writing' = None /\ chain' = <<>>
          /\ timer' = (timer /\ Len(chain) = 1)
          /\ UNCHANGED pending
  /\ UNCHANGED <<closed, latest, dropped>>

\* The flush returns STATE_FILE_WRITE_FAILED, and the next one runs.
WriteFails_BreaksChain ==
  /\ writing # None
  /\ writing' = None
  /\ dropped' = (pending = None)
  /\ UNCHANGED <<disk, pending, timer, chain, closed, latest>>
WriteFails_PutsBack ==
  /\ writing # None
  /\ dropped' = FALSE
  /\ IF Len(chain) = 1
     THEN writing' = None /\ chain' = <<>> /\ pending' = writing /\ timer' = TRUE
     ELSE chain' = Tail(chain) /\ timer' = FALSE /\ pending' = None /\ UNCHANGED writing
  /\ UNCHANGED <<disk, closed, latest>>
WriteFails ==
  /\ writing # None
  /\ dropped' = (pending = None)
  /\ IF Len(chain) = 1
     THEN writing' = None /\ chain' = <<>> /\ UNCHANGED <<pending, timer>>
     ELSE RunFlushes(Tail(chain))
  /\ UNCHANGED <<disk, closed, latest>>

Closing == \E i \in DOMAIN chain : chain[i] = "close"
=============================================================================
