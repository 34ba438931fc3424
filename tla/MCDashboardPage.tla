--------------------------- MODULE MCDashboardPage ---------------------------
(* Small instances of DashboardPage for TLC. *)
EXTENDS DashboardPage
=============================================================================
