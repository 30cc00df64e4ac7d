---------------------------- MODULE MCStackOrder -----------------------------
(***************************************************************************)
(* Three operations, of three plans that are all WinPE images of this      *)
(* state root, and an operator who changes the default entry.              *)
(***************************************************************************)
EXTENDS StackOrder, FiniteSets, TLC

CONSTANTS p1, first, second, third, g1, g2, g3

Symmetry == Permutations({g1, g2, g3}) \union Permutations({first, second, third})

(* Bound: a changed default entry is followed up with one operation only. *)
FewDefaults == bcd.default # "windows" => Cardinality(UsedOps) <= 1

=============================================================================
