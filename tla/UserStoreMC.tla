----------------------------- MODULE UserStoreMC -----------------------------
(***************************************************************************)
(* Instances of UserStore for TLC.                                         *)
(***************************************************************************)
EXTENDS UserStore

CONSTANTS r1, r2, p, q, colon, m, n
=============================================================================
