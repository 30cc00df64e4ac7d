------------------------------ MODULE StackOrder -----------------------------
(***************************************************************************)
(* The service with a careful operator: one command at a time, a plan is   *)
(* applied at most once and operations are rolled back in the reverse of   *)
(* the order they were applied in.  It shows which discipline makes        *)
(* whole-store restores harmless.                                          *)
(***************************************************************************)
EXTENDS OneCommand

VARIABLE undone  \* the operations a rollback was ever started on

stackVars == <<vars, undone>>

(* The operations a rollback may start on: those whose successors are rolled
   back or have no journal. *)
MayRollBack(o) ==
  \A later \in Ops :
    later > o /\ Loadable(later) => HasStatus(later, "rolled-back")

StackStart(p) ==
  \/ /\ \E o \in Ops, pl \in Plans : RunsOf(pl) = {} /\ StartApply(p, o, pl)
     /\ UNCHANGED undone
  \/ \E o \in Ops :
       /\ MayRollBack(o)
       /\ StartRollback(p, o)
       /\ undone' = undone \union {o}
  \/ (StartRepair(p) \/ \E o \in Ops : StartVerify(p, o)) /\ UNCHANGED undone

StackInit == Init /\ undone = {}

StackNext ==
  \/ \E p \in Procs :
       StackStart(p) \/ ((Continue(p) \/ Abort(p)) /\ UNCHANGED undone)
  \/ (\E d \in Loaders : OperatorSetsDefault(d)) /\ UNCHANGED undone

StackSpec == StackInit /\ [][StackNext]_stackVars

-----------------------------------------------------------------------------
(* Under this discipline an operation recorded as applied, and on which nobody
   started a rollback, keeps its entry in the boot menu whatever happens to
   the operations after it: their failed applies, crashes and rollbacks import
   stores that all hold it (service.rs:326-333, 459-489). *)
AppliedEntryStays ==
  \A o \in Ops :
    HasStatus(o, "applied") /\ o \notin undone =>
      EntriesOf(o) \intersect bcd.shown # {}

-----------------------------------------------------------------------------
(* The inductive invariant behind AppliedEntryStays and RolledBackEntriesGone. *)

(* No identifier is given out twice. *)
Distinct == reissued = {}

(* Each plan has one operation, and a plan without one has no backup. *)
PlansOnce ==
  /\ \A pl \in Plans : AppliedOnce(pl)
  /\ \A pl \in Plans : RunsOf(pl) = {} => bcdCopy[pl] = NoStore

(* The operation that is being applied is the newest. *)
Newest == \A p \in Procs : Applies(p) => \A used \in UsedOps : used <= ctx[p].op

(* A backup holds entries of operations before its own only. *)
CopyOlder ==
  \A o \in UsedOps :
    bcdCopy[savedPlan[o]] # NoStore =>
      \A g \in bcdCopy[savedPlan[o]].objects : maker[g] < o

(* A rollback in progress is that of an operation whose successors are gone, and
   its journal stays as it was found. *)
Rolls(p) == pc[p] \in RollbackCalls

InOrder ==
  \A p \in Procs :
    Rolls(p) =>
      /\ Loadable(ctx[p].op) /\ ctx[p].op \in undone
      /\ pc[p] = "import" => HasEntryId(ctx[p].op)
      /\ MayRollBack(ctx[p].op)

(* The operations whose backup some command may still import: as rollback, or as
   the undo of their apply. *)
Restorable(o) ==
  \/ HasEntryId(o) /\ Loadable(o)
  \/ \E p \in Procs :
       /\ pc[p] # "idle" /\ ctx[p].op = o
       /\ \/ Applies(p) /\ pc[p] \notin {"esp", "robocopy", "export"}
          \/ Saves(p, "repair-suggested") /\ HasEntryId(o)

(* A recorded operation without entry id is rolled back or had no entry; one whose
   backup was just imported will be. *)
Undone(o) ==
  /\ o \in recorded
  /\ \/ ~HasEntryId(o)
     \/ \E p \in Procs : pc[p] \in {"unstage", "remove-metadata"} /\ ctx[p].op = o

(* The entries of such an operation are neither in the store nor in a backup that
   may be imported again. *)
Gone ==
  \A o \in Ops :
    Undone(o) =>
      /\ EntriesOf(o) \intersect bcd.objects = {}
      /\ \A r \in Ops :
           Restorable(r) => EntriesOf(o) \intersect bcdCopy[savedPlan[r]].objects = {}

(* entry-id.txt names the entry the apply created. *)
Noted ==
  \A p \in Procs :
    \/ pc[p] = "metadata" /\ ctx[p].step > 2
    \/ pc[p] = "confirm" \/ Saves(p, "applied")
    => entryId[ctx[p].op] = ctx[p].entry

(* The entry of an applied operation is in the menu, and in that of every backup
   made after it. *)
Kept ==
  \A o \in Ops :
    HasStatus(o, "applied") /\ o \notin undone =>
      /\ entryId[o] \in EntriesOf(o) \intersect bcd.shown
      /\ \A r \in UsedOps :
           r > o /\ bcdCopy[savedPlan[r]] # NoStore => entryId[o] \in bcdCopy[savedPlan[r]].shown

StackInv ==
  /\ Inv /\ OneInv
  /\ Distinct /\ PlansOnce /\ Newest /\ CopyOlder /\ InOrder
  /\ Gone
  /\ Noted /\ Kept

=============================================================================
