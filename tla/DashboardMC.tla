----------------------------- MODULE DashboardMC -----------------------------
(***************************************************************************)
(* The instance of Dashboard for TLC.                                      *)
(***************************************************************************)
EXTENDS Dashboard, TLC
=============================================================================
