------------------------------ MODULE EntryLife ------------------------------
(***************************************************************************)
(* What a registration looks like to the service: a boot entry comes into  *)
(* being, and then it is either registered, in one step and for good, or   *)
(* withdrawn.  An entry whose registration stops early stays created.      *)
(* This is the view Lifecycle takes with CreateEntry and ConfigureEntry.   *)
(***************************************************************************)
CONSTANT Guids

VARIABLE life  \* "unknown", "created", "registered" or "withdrawn"

LifeInit == life = [g \in Guids |-> "unknown"]

Create(g) == life[g] = "unknown" /\ life' = [life EXCEPT ![g] = "created"]

Register(g) == life[g] = "created" /\ life' = [life EXCEPT ![g] = "registered"]

Withdraw(g) == life[g] = "created" /\ life' = [life EXCEPT ![g] = "withdrawn"]

LifeNext == \E g \in Guids : Create(g) \/ Register(g) \/ Withdraw(g)

LifeSpec == LifeInit /\ [][LifeNext]_life

=============================================================================
