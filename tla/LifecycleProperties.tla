------------------------- MODULE LifecycleProperties -------------------------
(***************************************************************************)
(* What the commands of PartBooterService must keep true of the journal,   *)
(* the backups, the staging directory and the boot configuration store.    *)
(***************************************************************************)
EXTENDS Lifecycle

Quiet == \A p \in Procs : pc[p] = "idle"

EntriesOf(o) == {g \in Guids : maker[g] = o}

HasStatus(o, status) == Loadable(o) /\ journal[o].status = status

-----------------------------------------------------------------------------
(* What operation o put on the machine or in the state directory, beyond its
   saved plan.  The staging directory is not among them: all operations share
   it, and nothing in it tells whose it is. *)
Traces(o) ==
  \/ EntriesOf(o) # {}
  \/ files[o] # {}
  \/ Loadable(o)

(* Nothing of an operation exists before the backup it would be restored from
   does: the exported store, the ESP directory and the manifest of its plan
   are there, and the ESP copy is a whole one unless the plan was applied
   again (service.rs:220-230: the checkpoint comes before staging).  Two
   applies that got the same identifier (service.rs:828) spoil this for that
   operation, and for no other. *)
CheckpointBeforeChange ==
  \A o \in Unshared :
    Traces(o) =>
      /\ bcdCopy[savedPlan[o]] # NoStore
      /\ manifest[savedPlan[o]]
      /\ espCopy[savedPlan[o]] # "absent"
      /\ AppliedOnce(savedPlan[o]) => espCopy[savedPlan[o]] = "complete"

(* A recorded operation that still has its entry id has every file rollback
   and verify read, however the rollbacks before were cut short
   (service.rs:748-757: the entry id is removed first), and whatever other
   operations had to share an identifier. *)
MetadataComplete ==
  \A o \in recorded \ reissued : HasEntryId(o) => MetadataReadable(o)

(* An operation recorded as rolled back has lost its entry id, so no later
   rollback of it imports an old store again (service.rs:330-346), if no other
   apply got its identifier. *)
RolledBackForgotten ==
  \A o \in Unshared : HasStatus(o, "rolled-back") => ~HasEntryId(o)

(* The store a plan's operation would be rolled back to holds an entry of that
   operation only if the plan was applied more than once, the second apply
   exporting over the first backup (service.rs:220: one backup per plan), or
   the operation's identifier was given out again. *)
OnlyReapplyTaintsCheckpoint ==
  \A o \in Unshared :
    /\ savedPlan[o] # NoPlan
    /\ AppliedOnce(savedPlan[o])
    /\ bcdCopy[savedPlan[o]] # NoStore
    => bcdCopy[savedPlan[o]].objects \intersect EntriesOf(o) = {}

(* A report that calls an operation verified is one rollback can act on: the
   exported store is where the journal says, and the metadata, if any is left,
   is complete, unless another apply writes it under the same identifier
   (service.rs:258-324 against 326-333). *)
VerifiedCanRollBack ==
  \A p \in Procs :
    pc[p] = "print" /\ Verified(p) =>
      /\ BackupReachable(ctx[p].plan)
      /\ ctx[p].op \in Unshared /\ HasEntryId(ctx[p].op) => MetadataReadable(ctx[p].op)

(* The journal is an OperationLedger: an operation never changes its plan, its
   first record is the outcome of its apply, and only recovery follows.  An
   identifier that two applies got is withdrawn from it. *)
Ledger == INSTANCE OperationLedger WITH
  ledger <- [o \in Ops |-> IF o \in reissued THEN NoFile ELSE journal[o]],
  book <- [o \in Ops |-> IF o \in recorded \ reissued THEN savedPlan[o] ELSE NoPlan],
  withdrawn <- reissued

ImplementsLedger == Ledger!LedgerSpec

-----------------------------------------------------------------------------
(* With one command at a time, the record "applied" is written only when the
   machine can boot the payload: the entry is in the menu, boot.wim is the
   plan's own and boot.sdi is there (service.rs:230-254). *)
AppliedIsBootable ==
  [][\A o \in Ops :
       o \in recorded' /\ o \notin recorded /\ journal'[o].status = "applied" =>
         /\ EntriesOf(o) \intersect bcd.shown # {}
         /\ stage = [wim |-> savedPlan[o], sdi |-> TRUE]]_vars

(* With one command at a time, a boot entry leaves the store only when a
   rollback imports a backup, or when the apply that created it gives up: an
   apply that undoes itself takes nobody else's entry along (service.rs:459-466
   and 479-489, where the undo imports a whole store). *)
OnlyRollbackUnregisters ==
  [][\A g \in bcd.objects \ bcd'.objects :
       \E p \in Procs : pc[p] = "import" \/ ctx[p].entry = g]_vars

-----------------------------------------------------------------------------
(* What the documentation says of recovery. *)

(* Once an operation is recorded as rolled back none of its boot entries is in
   the store ("Rollback restores the managed PartBooter state and managed
   entry references", docs/architecture/boot-flow.md:57). *)
RolledBackEntriesGone ==
  \A o \in Ops : HasStatus(o, "rolled-back") => EntriesOf(o) \intersect bcd.objects = {}

(* The restore of a rollback takes nothing but the operation's own entries out
   of the store and leaves the default entry as it is ("Rollback restores the
   managed PartBooter state and managed entry references.  It does not attempt
   to rewrite the machine into a new default boot configuration",
   docs/architecture/boot-flow.md:57-58). *)
RollbackTouchesOwn ==
  [][\A p \in Procs : ImportBackup(p) =>
       /\ bcd.objects \ bcd'.objects \subseteq EntriesOf(ctx[p].op)
       /\ bcd'.default = bcd.default]_vars

(* When nothing runs, every operation with an entry in the store has a journal
   to inspect and roll back from ("inspect latest journal state, restore the
   last checkpoint through rollback or repair", for an apply interrupted with
   later steps missing, docs/operations/recovery.md:29-39). *)
InterruptedApplyJournaled ==
  Quiet => \A o \in Ops : EntriesOf(o) \intersect bcd.objects # {} => Loadable(o)

(* When nothing runs and an operation is recorded as applied, the directory its
   entry boots from never holds the boot.wim of another plan ("Stage boot.wim
   and boot.sdi under the operation-specific managed directory",
   docs/architecture/boot-flow.md:45). *)
AppliedStagedOwn ==
  Quiet => \A o \in Ops : HasStatus(o, "applied") =>
             stage.wim \in {journal[o].plan, PartialWim, NoPlan}

(* With one command at a time, verify calls a WinPE operation verified as
   applied only when a boot entry of it is in the store ("validates the managed
   WinPE entry plus staged files for applied WinPE operations",
   README.md:71-72). *)
VerifiedAppliedHasEntry ==
  \A p \in Procs :
    /\ pc[p] = "print"
    /\ Verified(p)
    /\ ctx[p].status = "applied"
    => EntriesOf(ctx[p].op) \intersect bcd.objects # {}

=============================================================================
