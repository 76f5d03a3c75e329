-------------------------- MODULE PublicationLedger --------------------------
(***************************************************************************)
(* What the outbound publication protocol promises of a payload, whatever  *)
(* the interleaving of calls, crashes and answers: an idempotency key is   *)
(* opened at most once, is published from open only and for good, and only *)
(* on grounds: the provider has executed the payload, or the operator has  *)
(* confirmed that it was.                                                   *)
(***************************************************************************)

CONSTANTS Keys

VARIABLES
  status,    \* of each idempotency key
  executed,  \* the keys whose payload the provider has executed
  confirmed  \* the keys an operator has confirmed as committed

ledger == <<status, executed, confirmed>>

Init ==
  /\ status = [k \in Keys |-> "absent"]
  /\ executed = {}
  /\ confirmed = {}

\* A payload is prepared for the first time.
Open(k) ==
  /\ status[k] = "absent"
  /\ status' = [status EXCEPT ![k] = "open"]
  /\ UNCHANGED <<executed, confirmed>>

\* The provider executes a payload that was opened at some time.
Execute(k) ==
  /\ status[k] # "absent"
  /\ executed' = executed \cup {k}
  /\ UNCHANGED <<status, confirmed>>

\* An open payload is recorded as published on the provider's answer.
Publish(k) ==
  /\ status[k] = "open"
  /\ k \in executed
  /\ status' = [status EXCEPT ![k] = "published"]
  /\ UNCHANGED <<executed, confirmed>>

\* An open payload is recorded as published on the operator's word.
Confirm(k) ==
  /\ status[k] = "open"
  /\ status' = [status EXCEPT ![k] = "published"]
  /\ confirmed' = confirmed \cup {k}
  /\ UNCHANGED executed

Next == \E k \in Keys : Open(k) \/ Execute(k) \/ Publish(k) \/ Confirm(k)

Spec == Init /\ [][Next]_ledger
=============================================================================
