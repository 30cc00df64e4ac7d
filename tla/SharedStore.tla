----------------------------- MODULE SharedStore -----------------------------
(***************************************************************************)
(* Applies and rollbacks on one boot configuration store, command by       *)
(* command: every apply exports the whole store before its registration    *)
(* and imports it again when that fails, and every rollback imports the    *)
(* export of its plan (crates/core, crates/windows).  An import does not   *)
(* ask who else is between two commands.  Lifecycle has the journals; here *)
(* are the values an import takes from the other entries and from          *)
(* {ramdiskoptions}.                                                       *)
(***************************************************************************)
EXTENDS Naturals, BootRegistration

CONSTANTS
  Plans,      \* identifiers of plans, one backup directory each
  NoPlan,     \* none of them
  NoBackup,   \* no bcd-store.bak
  MaxApplies  \* bound: how many applies reach their checkpoint

(* What bcdedit /export writes, as far as PartBooter's entries go *)
Snapshots ==
  [entry   : [Guids -> Entries],
   objects : SUBSET Guids,
   shown   : SUBSET Guids,
   options : OptionValues]

ASSUME PlansAssumption ==
  /\ NoPlan \notin Plans
  /\ NoBackup \notin Snapshots
  /\ MaxApplies \in Nat

VARIABLES
  backup,     \* backups/<plan>/bcd-store.bak
  phase,      \* what a process does; it registers in "register"
  using,      \* the plan a process applies
  confirming, \* the entry it asks for after the registration
  recorded,   \* the plans with an operation that rollback can load
  applies,    \* how many checkpoints there were
  original,   \* history: {ramdiskoptions} before PartBooter ran
  overrun,    \* history: entries whose registration another import ran into
  reexported, \* history: plans exported again over a store of PartBooter's
  promised    \* history: entries whose apply reported success

historyVars == <<original, overrun, reexported, promised>>
serviceVars == <<backup, phase, using, confirming, recorded, applies>>
allVars == <<vars, serviceVars, historyVars>>

-----------------------------------------------------------------------------
Store == [entry |-> entry, objects |-> objects, shown |-> shown, options |-> options]

StoreInit ==
  /\ Init
  /\ backup = [pl \in Plans |-> NoBackup]
  /\ phase = [p \in Procs |-> "free"]
  /\ using = [p \in Procs |-> NoPlan]
  /\ confirming = [p \in Procs |-> NoGuid]
  /\ recorded = {}
  /\ applies = 0
  /\ original = options
  /\ overrun = {}
  /\ reexported = {}
  /\ promised = {}

Enter(p, next) ==
  /\ phase' = [phase EXCEPT ![p] = next]
  /\ using' = [using EXCEPT ![p] = IF next = "free" THEN NoPlan ELSE @]

(* Fault: the exit status of the export is not looked at. *)
CheckpointUnchecked(p, pl) ==
  /\ phase[p] = "free" /\ applies < MaxApplies
  /\ phase' = [phase EXCEPT ![p] = "register"]
  /\ using' = [using EXCEPT ![p] = pl]
  /\ applies' = applies + 1
  /\ UNCHANGED <<vars, backup, confirming, recorded, historyVars>>

(* create_backup_checkpoint, as far as the store goes *)
Checkpoint(p, pl) ==
  /\ phase[p] = "free" /\ applies < MaxApplies
  /\ backup' = [backup EXCEPT ![pl] = Store]
  /\ phase' = [phase EXCEPT ![p] = "register"]
  /\ using' = [using EXCEPT ![p] = pl]
  /\ applies' = applies + 1
  /\ reexported' = IF backup[pl] # NoBackup /\ options # original
                   THEN reexported \union {pl} ELSE reexported
  /\ UNCHANGED <<vars, confirming, recorded, original, overrun, promised>>

BeginRegistration(p) ==
  /\ phase[p] = "register"
  /\ Call(p)
  /\ UNCHANGED <<serviceVars, historyVars>>

(* A command of the registration that is not its last *)
GoOn(p) ==
  /\ Step(p)
  /\ at'[p] # "idle"
  /\ UNCHANGED <<serviceVars, historyVars>>

(* The registration returns the entry, now in the boot menu. *)
Registered(p) ==
  /\ Show(p)
  /\ Enter(p, "confirm")
  /\ confirming' = [confirming EXCEPT ![p] = mine[p]]
  /\ UNCHANGED <<backup, recorded, applies, historyVars>>

(* Fault: an error of the registration is taken for the entry. *)
FailedIgnored(p) ==
  /\ (Step(p) /\ at[p] # "show") \/ Stop(p)
  /\ at'[p] = "idle"
  /\ Enter(p, "confirm")
  /\ confirming' = [confirming EXCEPT ![p] = mine[p]]
  /\ UNCHANGED <<backup, recorded, applies, historyVars>>

(* It returns an error. *)
Failed(p) ==
  /\ (Step(p) /\ at[p] # "show") \/ Stop(p)
  /\ at'[p] = "idle"
  /\ Enter(p, "undo")
  /\ UNCHANGED <<backup, confirming, recorded, applies, historyVars>>

(* verify_registered_entry, whose bcdedit /enum may fail though the entry is
   there; then the journal is saved and success reported. *)
Confirm(p) ==
  /\ phase[p] = "confirm"
  /\ confirming' = [confirming EXCEPT ![p] = NoGuid]
  /\ \/ /\ confirming[p] \in objects
        /\ Enter(p, "free")
        /\ recorded' = recorded \union {using[p]}
        /\ promised' = promised \union {confirming[p]}
     \/ /\ Enter(p, "undo")
        /\ UNCHANGED <<recorded, promised>>
  /\ UNCHANGED <<vars, backup, applies, original, overrun, reexported>>

(* bcdedit /import by one process; the others go on with their next command. *)
Import(p, pl) ==
  /\ backup[pl] # NoBackup
  /\ entry' = backup[pl].entry
  /\ objects' = backup[pl].objects
  /\ shown' = backup[pl].shown
  /\ options' = backup[pl].options
  /\ overrun' = overrun \union
                {g \in Guids : \E q \in Procs \ {p} : g \in {mine[q], confirming[q]}}
  /\ UNCHANGED <<given, at, mine, candidate, original, reexported, promised>>

(* A failed apply restores its checkpoint; whether that worked is ignored. *)
Undo(p) ==
  /\ phase[p] = "undo"
  /\ Import(p, using[p]) \/ UNCHANGED <<vars, historyVars>>
  /\ Enter(p, "free")
  /\ UNCHANGED <<backup, confirming, recorded, applies>>

(* rollback_operation, up to the staged files; it can be run again when it did
   not get to its journal. *)
Rollback(p, pl) ==
  /\ phase[p] = "free" /\ pl \in recorded
  /\ Import(p, pl)
  /\ UNCHANGED serviceVars

(* The process dies, or a file it writes after the registration cannot be. *)
Die(p) ==
  /\ phase[p] # "free"
  /\ Stop(p) \/ (at[p] = "idle" /\ UNCHANGED vars)
  /\ Enter(p, "free")
  /\ confirming' = [confirming EXCEPT ![p] = NoGuid]
  /\ UNCHANGED <<backup, recorded, applies, historyVars>>

StoreNext ==
  \E p \in Procs :
    \/ BeginRegistration(p) \/ GoOn(p) \/ Registered(p) \/ Failed(p)
    \/ Confirm(p) \/ Undo(p) \/ Die(p)
    \/ \E pl \in Plans : Checkpoint(p, pl) \/ Rollback(p, pl)

StoreSpec == StoreInit /\ [][StoreNext]_allVars

-----------------------------------------------------------------------------
StoreTypeOK ==
  /\ TypeOK
  /\ backup \in [Plans -> Snapshots \union {NoBackup}]
  /\ phase \in [Procs -> {"free", "register", "confirm", "undo"}]
  /\ using \in [Procs -> Plans \union {NoPlan}]
  /\ confirming \in [Procs -> Guids \union {NoGuid}]
  /\ recorded \subseteq Plans
  /\ applies \in 0..MaxApplies
  /\ original \in OptionValues
  /\ overrun \subseteq Guids
  /\ reexported \subseteq Plans
  /\ promised \subseteq Guids

(* Imports put entries back, take them away and reset {ramdiskoptions}, and yet
   an entry in the boot menu is complete unless an import of another process ran
   between the commands of its own registration (service.rs:462 and 331 against
   lib.rs:390-440). *)
OnlyOverrunIncomplete ==
  \A g \in shown \ overrun : Configured(g, entry, options)

(* What an apply reports as applied is in the boot menu, unless an import ran
   into it: the check before the report asks only whether the entry exists. *)
SuccessIsBootable ==
  [][\A g \in promised' \ promised : g \in shown' \union overrun]_allVars

(* {ramdiskoptions} as Windows had it is in the store or in a backup (which may be
   that of a plan no journal records, if its apply died), unless a plan was
   applied again over a store in which it was PartBooter's already
   (lib.rs:566-584, where the values it had are overwritten). *)
OriginalOptionsSaved ==
  reexported = {} =>
    \/ options = original
    \/ \E pl \in Plans : backup[pl] # NoBackup /\ backup[pl].options = original

-----------------------------------------------------------------------------
(* The inductive invariant behind the three.  A process is between two commands
   of a registration, or asks for an entry, only in the phase for it. *)
Phases ==
  \A p \in Procs :
    /\ phase[p] # "register" => at[p] = "idle"
    /\ phase[p] # "free" => using[p] \in Plans /\ backup[using[p]] # NoBackup
    /\ phase[p] = "confirm" <=> confirming[p] # NoGuid

(* No backup shows an entry that is still being registered, and what it shows is
   complete in it. *)
BackupSound(pl) ==
  backup[pl] # NoBackup =>
    /\ backup[pl].shown \subseteq backup[pl].objects
    /\ backup[pl].objects \subseteq given
    /\ \A p \in Procs : mine[p] \notin backup[pl].shown
    /\ \A g \in backup[pl].shown \ overrun :
         Configured(g, backup[pl].entry, backup[pl].options)

ReachedUnlessOverrun == \A p \in Procs : mine[p] \notin overrun => ReachedBy(p)

ConfirmingShown == \A p \in Procs : confirming[p] \in Guids \ overrun => confirming[p] \in shown

FirstBackupIsOriginal ==
  reexported = {} =>
    IF \A pl \in Plans : backup[pl] = NoBackup
    THEN options = original
    ELSE \E pl \in Plans : backup[pl] # NoBackup /\ backup[pl].options = original

StoreInv ==
  /\ StoreTypeOK /\ Owned
  /\ Phases
  /\ \A pl \in Plans : BackupSound(pl)
  /\ ReachedUnlessOverrun
  /\ OnlyOverrunIncomplete
  /\ ConfirmingShown
  /\ FirstBackupIsOriginal

=============================================================================
