---------------------------- MODULE MCRegistration ---------------------------
(***************************************************************************)
(* Two processes register entries in one store, three registrations in     *)
(* all, with and without ramdisk options of Windows in it.                 *)
(***************************************************************************)
EXTENDS BootRegistration, TLC

CONSTANTS p1, p2, g1, g2, g3

Symmetry == Permutations({p1, p2}) \union Permutations({g1, g2, g3})

=============================================================================
