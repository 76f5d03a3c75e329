-------------------------- MODULE MCMutationControl --------------------------
(* Instances of MutationControl for TLC.                                    *)
EXTENDS MutationControl, TLC

\* Calls and payloads are interchangeable (safety runs only).
Symmetry == Permutations(Workers) \cup Permutations(Keys)
=============================================================================
