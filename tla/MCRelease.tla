------------------------------ MODULE MCRelease ------------------------------
(* Instances of Release for TLC.                                            *)
EXTENDS Release, TLC

Symmetry == Permutations(Procs) \cup Permutations(Keys) \cup Permutations(Contents)

\* A mission, and dataset builds that may be sold and that may only if named.
Dataset(license, ready) ==
  [kind |-> "dataset", status |-> "completed", validation |-> "passed", quality |-> "passed",
   license |-> license, ready |-> ready, reports |-> {"quality_report"}]
AllSources ==
  {[kind |-> "mission", status |-> "completed"], Dataset("cleared", TRUE),
   Dataset("review_required", FALSE)}
Line == [name |-> "line", kinds |-> {"mission", "dataset"}, tiers |-> {"tier"}, targets |-> {"market"},
         deliveryTargets |-> {"courier"}, private |-> FALSE]
TheTier == [name |-> "tier", targets |-> {"market"}, slots |-> {"primary_deliverable", "store_copy"}]
Market == [market |-> [manual |-> TRUE, lines |-> {"line"}, tiers |-> {"tier"}]]
Courier == [courier |-> [manual |-> TRUE, lines |-> {"line"}, tiers |-> {"tier"}]]
=============================================================================
