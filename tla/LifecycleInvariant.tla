-------------------------- MODULE LifecycleInvariant -------------------------
(***************************************************************************)
(* The inductive invariant behind the safety properties of Lifecycle.  Its *)
(* conjuncts say what each process may rely on at each call: whose         *)
(* operation it works on, what the operation has left on the disk so far,  *)
(* and which backup exists.  Where that takes being alone on the operation *)
(* they speak of the identifiers in Unshared; a second apply that gets an  *)
(* identifier takes it out of them, and disturbs no other operation.       *)
(***************************************************************************)
EXTENDS LifecycleProperties

(* The process runs apply_plan, its final save included. *)
Applies(p) ==
  \/ pc[p] \in ApplyCalls
  \/ pc[p] \in SaveCalls /\ ctx[p].status \in {"applied", "checkpointed"}

Saves(p, status) == pc[p] \in SaveCalls /\ ctx[p].status = status

CheckpointCalls == {"esp", "robocopy", "export", "manifest"}

(* The calls before an apply creates its boot entry. *)
EarlyCalls == CheckpointCalls \union {"stage-wim", "stage-sdi", "create"}

Complete(pl) == AppliedOnce(pl) => espCopy[pl] = "complete"

(* The backup of a plan is there. *)
Backup(pl) ==
  /\ bcdCopy[pl] # NoStore
  /\ manifest[pl]
  /\ espCopy[pl] # "absent"
  /\ Complete(pl)

-----------------------------------------------------------------------------
(* An identifier without a saved plan is unused, and one that no second apply
   got ran no other plan than the saved one. *)
Remembered ==
  /\ \A o \in Ops : savedPlan[o] = NoPlan => ran[o] = {} /\ o \in Unshared
  /\ \A o \in Ops : savedPlan[o] # NoPlan => savedPlan[o] \in ran[o]
  /\ \A o \in Unshared : \A pl \in ran[o] : pl = savedPlan[o]

(* A command works on an operation that ran the plan it holds. *)
Bound == \A p \in Procs : pc[p] # "idle" => ctx[p].plan \in ran[ctx[p].op]

(* An operation being applied is not recorded yet, and only the process that
   applies it works on it; every other command works on a recorded one. *)
Owned ==
  \A p \in Procs :
    /\ Applies(p) /\ ctx[p].op \in Unshared =>
         /\ ctx[p].op \notin recorded
         /\ \A q \in Procs : pc[q] # "idle" /\ ctx[q].op = ctx[p].op => q = p
    /\ pc[p] # "idle" /\ ~Applies(p) => ctx[p].op \in recorded

(* A journal names a plan its operation ran. *)
Journaled ==
  /\ \A o \in Ops : Loadable(o) => o \in recorded /\ journal[o].plan \in ran[o]
  /\ \A o \in recorded : savedPlan[o] # NoPlan

(* Only an operation that ran a plan leaves traces, and none before create. *)
Untouched ==
  /\ \A o \in Ops : savedPlan[o] = NoPlan => EntriesOf(o) = {} /\ files[o] = {}
  /\ \A p \in Procs :
       /\ ctx[p].op \in Unshared
       /\ pc[p] \in EarlyCalls \/ Saves(p, "checkpointed")
       => EntriesOf(ctx[p].op) = {} /\ files[ctx[p].op] = {}

(* The checkpoint calls fill the backup one part after the other, and it is
   there for all that follows. *)
Backed ==
  /\ \A p \in Procs : ctx[p].op \in Unshared =>
       /\ pc[p] \in CheckpointCalls \ {"esp"} => espCopy[ctx[p].plan] # "absent"
       /\ pc[p] \in {"export", "manifest"} => Complete(ctx[p].plan)
       /\ pc[p] = "manifest" => bcdCopy[ctx[p].plan] # NoStore
       /\ Applies(p) /\ pc[p] \notin CheckpointCalls => Backup(ctx[p].plan)
  /\ \A o \in Unshared :
       EntriesOf(o) # {} \/ files[o] # {} \/ o \in recorded => Backup(savedPlan[o])

(* Linux plans go no further than their checkpoint. *)
KindFits ==
  \A p \in Procs :
    /\ pc[p] \in ApplyCalls \ CheckpointCalls \/ Saves(p, "applied")
         => ctx[p].plan \in WinPePlans
    /\ Saves(p, "checkpointed") => ctx[p].plan \notin WinPePlans

(* Outside the loops over the metadata files, and the save after them, a
   process is at the first file. *)
FirstFile ==
  \A p \in Procs :
    pc[p] \notin {"metadata", "remove-metadata"} \union SaveCalls => ctx[p].step = 1

(* Apply has written the metadata up to its step, and all of it in the end. *)
Written ==
  \A p \in Procs : ctx[p].op \in Unshared =>
    /\ pc[p] = "metadata" =>
         \A i \in 1..7 : i < ctx[p].step => WriteOrder[i] \in files[ctx[p].op]
    /\ pc[p] = "confirm" \/ Saves(p, "applied") => OpFiles \subseteq files[ctx[p].op]

(* A rollback past the first file it removes has removed the entry id. *)
Forgotten ==
  \A p \in Procs :
    /\ ctx[p].op \in Unshared
    /\ \/ pc[p] = "remove-metadata" /\ ctx[p].step > 1
       \/ Saves(p, "rolled-back")
    => ~HasEntryId(ctx[p].op)

(* An identifier bcdedit never gave out is in no store. *)
FreshUnknown ==
  \A g \in FreshGuids :
    /\ g \notin bcd.objects
    /\ \A pl \in Plans : bcdCopy[pl] # NoStore => g \notin bcdCopy[pl].objects

(* A backup verify has found is within rollback's reach as long as verify runs. *)
BackupsSeen ==
  \A p \in Procs :
    pc[p] # "idle" /\ "backups" \in ctx[p].found => BackupReachable(ctx[p].plan)

Inv ==
  /\ TypeOK
  /\ Remembered
  /\ Bound
  /\ Owned
  /\ Journaled
  /\ Untouched
  /\ Backed
  /\ KindFits
  /\ FirstFile
  /\ Written
  /\ Forgotten
  /\ FreshUnknown
  /\ MetadataComplete
  /\ RolledBackForgotten
  /\ OnlyReapplyTaintsCheckpoint

=============================================================================
