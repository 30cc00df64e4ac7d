------------------------------ MODULE OneCommand -----------------------------
(***************************************************************************)
(* What Lifecycle keeps true beyond Inv when only one command runs at a    *)
(* time: from call to call an apply may rely on the staging directory, the *)
(* boot menu and its export, which other commands could change otherwise.  *)
(***************************************************************************)
EXTENDS LifecycleInvariant

OneProcess == \A p, q \in Procs : p = q

(* The calls of an apply that has created its boot entry and not given up. *)
EntryCalls == {"configure", "metadata", "confirm"}

(* The staging directory holds what this apply has put there. *)
Staged ==
  \A p \in Procs :
    /\ pc[p] = "stage-sdi" => stage.wim = ctx[p].plan
    /\ pc[p] \in {"create"} \union EntryCalls \/ Saves(p, "applied") =>
         stage = [wim |-> ctx[p].plan, sdi |-> TRUE]

(* The entry is the operation's own, and in the boot menu once it is configured. *)
InMenu ==
  \A p \in Procs :
    /\ pc[p] \in EntryCalls \/ Saves(p, "applied") => ctx[p].entry \in EntriesOf(ctx[p].op)
    /\ pc[p] \in EntryCalls \ {"configure"} \/ Saves(p, "applied") => ctx[p].entry \in bcd.shown

(* The export an undo would import holds every entry of the store but the one
   this apply has created. *)
UndoHarmless ==
  \A p \in Procs :
    /\ pc[p] \in {"manifest", "stage-wim", "stage-sdi", "create"} =>
         bcd.objects \subseteq bcdCopy[ctx[p].plan].objects
    /\ pc[p] \in EntryCalls \union {"undo-store"} =>
         bcd.objects \subseteq bcdCopy[ctx[p].plan].objects \union {ctx[p].entry}

(* The saved plan of the operation being applied is the one being applied: a
   second apply under its identifier cannot come in between. *)
Current == \A p \in Procs : Applies(p) => savedPlan[ctx[p].op] = ctx[p].plan

OneInv == Staged /\ InMenu /\ UndoHarmless /\ Current

=============================================================================
