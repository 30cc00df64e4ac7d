---------------------------- MODULE MCSequential -----------------------------
(***************************************************************************)
(* One process, so one command at a time, over two operations; crashes,    *)
(* a plan made under another state root, and an operator who changes the   *)
(* default boot entry in between.                                          *)
(***************************************************************************)
EXTENDS LifecycleProperties, TLC

CONSTANTS p1, home, foreign, g1, g2

Symmetry == Permutations({g1, g2})

=============================================================================
