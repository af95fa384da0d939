-------------------------- MODULE MCDashboardChat --------------------------
(* An instance of DashboardChat for TLC. *)
EXTENDS DashboardChat

\* No config cached yet, or two channels, the second listed first.
TwoAnswers == {<<>>, <<1, 0>>}
=============================================================================
