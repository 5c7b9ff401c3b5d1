---------------------------- MODULE WebSessionMC ----------------------------
(***************************************************************************)
(* Instances of WebSession for TLC.                                        *)
(***************************************************************************)
EXTENDS WebSession, TLC

TabSymmetry == Permutations(Tab)
=============================================================================
