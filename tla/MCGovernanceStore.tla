-------------------------- MODULE MCGovernanceStore --------------------------
(* GovernanceStore for TLC: the configurations give the constants.          *)
EXTENDS GovernanceStore
=============================================================================
