---------------------------- MODULE MCSharedStore ----------------------------
(***************************************************************************)
(* Two processes apply two plans and roll them back on one store.          *)
(***************************************************************************)
EXTENDS SharedStore, TLC

CONSTANTS p1, p2, g1, g2, a, b

Symmetry == Permutations({p1, p2}) \union Permutations({g1, g2}) \union Permutations({a, b})

=============================================================================
