-------------------------- MODULE MCDashboardNodes -------------------------
(* An instance of DashboardNodes for TLC. *)
EXTENDS DashboardNodes

Old(r, p) == [role |-> r, pos |-> p, sig |-> FALSE, seen |-> FALSE, online |-> FALSE]

\* No node yet, and two nodes with different roles.
SomeDirectories ==
  {<<>>, [n \in {1, 2} |-> Old(IF n = 1 THEN "client" ELSE "router", n = 1)]}
=============================================================================
