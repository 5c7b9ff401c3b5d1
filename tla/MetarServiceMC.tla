--------------------------- MODULE MetarServiceMC ---------------------------
(***************************************************************************)
(* The instance of MetarService for TLC.                                   *)
(***************************************************************************)
EXTENDS MetarService, TLC

CONSTANTS c1, c2

\* c1, who may never read again, has fewer requests than there are workers.
Requests == c1 :> 1 @@ c2 :> 2
=============================================================================
