------------------------- MODULE MCSpawnOrchestrator -------------------------
(* Plans for TLC.                                                           *)
EXTENDS SpawnOrchestrator

\* The identifiers of up to nine subtasks are in the order of the steps.
Sorted == [loops \in SUBSET Subtasks |-> SetToSortSeq(loops, <)]

\* Two scouts side by side, and a synthesizer on both.
Join      == <<{}, {}, {1, 2}>>
JoinRoles == <<"scout", "scout", "synthesizer">>
JoinLanes == {"scout", "synthesizer"}
JoinMin   == [l \in JoinLanes |-> 1]
JoinMax   == [l \in JoinLanes |-> IF l = "scout" THEN 2 ELSE 1]
=============================================================================
