--------------------------- MODULE ConfigEditorMC ---------------------------
(***************************************************************************)
(* The instance of ConfigEditor for TLC.                                   *)
(***************************************************************************)
EXTENDS ConfigEditor, TLC

CONSTANTS k1, k2, v1

TwoKeys == <<k1, k2>>
\* The second key is not in the table yet.
FirstStored == [k \in Key |-> IF k = k1 THEN v1 ELSE nil]
Symmetry == Permutations(Page) \cup Permutations(Load)
=============================================================================
