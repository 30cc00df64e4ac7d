------------------------------ MODULE MCEspMount -----------------------------
(***************************************************************************)
(* Two processes back up the ESP through two drive letters, in a machine   *)
(* whose letters are free, the ESP's or another volume's at first.         *)
(***************************************************************************)
EXTENDS EspMount, TLC

CONSTANTS p1, p2

Symmetry == Permutations({p1, p2})

=============================================================================
