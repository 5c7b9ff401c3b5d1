------------------------------- MODULE BootMC -------------------------------
(***************************************************************************)
(* The instance of Boot for TLC.                                           *)
(***************************************************************************)
EXTENDS Boot, TLC
=============================================================================
