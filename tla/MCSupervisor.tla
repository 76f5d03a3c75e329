---------------------------- MODULE MCSupervisor ----------------------------
(* Supervisor for TLC: the configurations give the constants.               *)
EXTENDS Supervisor
=============================================================================
