----------------------------- MODULE MCWorkflows -----------------------------
(* One small instance of each component for TLC.                            *)
EXTENDS Workflows

TheRolePolicy == [operator_admin |-> {"read", "write"}, viewer |-> {"read"}]
TheScopeRegistry == [read |-> {"viewer"}, write |-> {"operator_admin"}]
TheTokenRequests == {[role |-> "viewer", scopes |-> {"read"}], [role |-> "viewer", scopes |-> {"write"}]}

TheRatings == {[result |-> "accepted", score |-> 100], [result |-> "rejected", score |-> 0]}
TheCohort == [d \in Drafts |-> "treatment"]

TheTokenScope == [r |-> "restore", b |-> "runbook", u |-> "update"]

TheTokenRecord ==
  [op |-> [role |-> "operator_admin", integration |-> FALSE],
   sys |-> [role |-> "system_automated", integration |-> TRUE]]

\* A source whose draft the linter rejects, ranked in the middle or first.
TheRankings == {<<"s1", "bad", "s2">>, <<"bad", "s2", "s1">>}
=============================================================================
