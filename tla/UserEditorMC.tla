---------------------------- MODULE UserEditorMC ----------------------------
(***************************************************************************)
(* The instance of UserEditor for TLC.                                     *)
(***************************************************************************)
EXTENDS UserEditor

CONSTANTS p1, c1, c2, w

Supervisor == [p \in Page |-> 11]
\* The administrator is neither of the users edited.
Elsewhere == [p \in Page |-> nil]
Ratings == {-1, 0, 1}
Accounts == [rating : {1, 0}, password : Password]

\* One user, and room for another.
OneUser == [c \in Cid |-> IF c = c1 THEN 1 ELSE nil]
=============================================================================
