-------------------------- MODULE MCDashboardSessions --------------------------
(* DashboardSessions for TLC.                                                  *)
EXTENDS DashboardSessions, TLC

\* Threads, states and session ids are interchangeable.
Symmetry == Permutations(Requests) \cup Permutations(Logins) \cup Permutations(Sessions)
=============================================================================
