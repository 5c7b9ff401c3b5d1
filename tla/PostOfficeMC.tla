---------------------------- MODULE PostOfficeMC ----------------------------
(***************************************************************************)
(* Instances of PostOffice for TLC.                                        *)
(***************************************************************************)
EXTENDS PostOffice, TLC

CONSTANTS c1, c2, c3, A, B, C, near, far

\* c1 and c2 compete for one callsign
Shared == c1 :> A @@ c2 :> A @@ c3 :> B
Pair == c1 :> A @@ c2 :> B
Trio == c1 :> A @@ c2 :> B @@ c3 :> C

\* two boxes that do not intersect
Ranges == {<<near, near>>, <<far, far>>}
\* packets per session
First1 == [c \in Client |-> IF c = c1 THEN 1 ELSE 0]
First2 == [c \in Client |-> IF c = c1 THEN 2 ELSE 0]
Everyone == {Client}
=============================================================================
