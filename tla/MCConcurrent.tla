---------------------------- MODULE MCConcurrent -----------------------------
(***************************************************************************)
(* Two processes over two operations: every interleaving of two commands,  *)
(* with a crash at any point of either, two applies that get the same      *)
(* identifier among them.                                                  *)
(***************************************************************************)
EXTENDS LifecycleInvariant, TLC

CONSTANTS p1, p2, winpe, linux, g1

Symmetry == Permutations({p1, p2})

(* Bound: the identifiers are alike, and one of them at most is given out
   again. *)
OneReissued == reissued \subseteq {1}

(* Bound: an identifier is given out again while the apply that got it first
   still runs, which is what a clock that counts seconds does, and no command
   starts on it afterwards: those that run on it go on to their end. *)
SameSecond ==
  /\ \A o \in reissued' \ reissued :
       \E p \in Procs : pc[p] \in ApplyCalls /\ ctx[p].op = o
  /\ \A p \in Procs : pc[p] = "idle" /\ pc'[p] # "idle" => ctx'[p].op \notin reissued

=============================================================================
