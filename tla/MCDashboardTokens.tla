--------------------------- MODULE MCDashboardTokens ---------------------------
(* DashboardTokens for TLC: the seconds are scaled.                         *)
EXTENDS DashboardTokens, TLC

Symmetry == Permutations(Threads)
=============================================================================
