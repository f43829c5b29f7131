-------------------------- MODULE MCDashboardState --------------------------
(* A probe suite and a label builder write while the dashboard is open.    *)
EXTENDS DashboardState

CONSTANTS s1, l1
=============================================================================
