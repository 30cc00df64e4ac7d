------------------------------ MODULE Lifecycle ------------------------------
(***************************************************************************)
(* crates/core: PartBooterService.  Every command of the CLI and of the    *)
(* helper runs to completion in a process of its own, with nothing that    *)
(* keeps two of them apart, so a process is modelled as a program counter  *)
(* over the calls that touch the disk or the boot configuration store, and *)
(* the processes interleave between those calls.  A command stops early on *)
(* the first error it does not handle (the ? operator), and the process or *)
(* the machine may die; both leave the disk as it is (Abort).              *)
(***************************************************************************)
EXTENDS JournalStore, WindowsHost, Sequences

CONSTANTS
  Procs,    \* the PartBooter processes
  ReuseIds  \* may unique_suffix return a number it returned before?

ASSUME ReuseAssumption == ReuseIds \in BOOLEAN

VARIABLES
  files,    \* operations/<op>/: the metadata files of a WinPE operation
  entryId,  \* what entry-id.txt was last written with
  pc,       \* the call a process makes next
  ctx       \* the local variables of its command

opVars == <<files, entryId>>
procVars == <<pc, ctx>>
vars == <<storeVars, hostVars, opVars, procVars>>

-----------------------------------------------------------------------------
(* The files in the order apply writes them and rollback removes them. *)
WriteOrder == <<"loader-spec.txt", "entry-id.txt", "staging-root.txt",
                "esp-staging-root.txt", "boot-wim-path.txt",
                "boot-sdi-path.txt", "loader-spec-path.txt">>

(* Fault: the entry id is removed last. *)
RemoveOrderEntryIdLast == <<"staging-root.txt", "esp-staging-root.txt",
                            "boot-wim-path.txt", "boot-sdi-path.txt",
                            "loader-spec-path.txt", "loader-spec.txt",
                            "entry-id.txt">>

RemoveOrder == <<"entry-id.txt", "staging-root.txt", "esp-staging-root.txt",
                 "boot-wim-path.txt", "boot-sdi-path.txt",
                 "loader-spec-path.txt", "loader-spec.txt">>

OpFiles == {WriteOrder[i] : i \in 1..7}

(* The files read_winpe_operation_metadata reads. *)
MetadataFiles == OpFiles \ {"loader-spec.txt"}

ApplyCalls == {"esp", "robocopy", "export", "manifest", "stage-wim", "stage-sdi",
               "create", "configure", "metadata", "confirm", "undo-store", "undo-stage"}
RollbackCalls == {"read-metadata", "import", "unstage", "remove-metadata"}
VerifyCalls == {"inspect", "stat", "enum", "print"}
SaveCalls == {"truncate", "write"}
Calls == {"idle"} \union ApplyCalls \union RollbackCalls \union VerifyCalls \union SaveCalls

(* What a verification can find in place. *)
Artifacts == {"backups", "plan", "metadata", "staged", "registered"}

Contexts == [op     : Ops \union {NoOp},
             plan   : Plans \union {NoPlan},
             entry  : Guids \union {NoGuid},
             status : Statuses \union {NoStatus},
             step   : 1..7,
             found  : SUBSET Artifacts]

Opening(o, pl, status) ==
  [op |-> o, plan |-> pl, entry |-> NoGuid, status |-> status, step |-> 1, found |-> {}]

NoContext == Opening(NoOp, NoPlan, NoStatus)

ProcsTypeOK ==
  /\ pc \in [Procs -> Calls]
  /\ ctx \in [Procs -> Contexts]
  /\ \A p \in Procs : pc[p] # "idle" => ctx[p].op \in Ops /\ ctx[p].plan \in Plans
  /\ \A p \in Procs : pc[p] \in SaveCalls => ctx[p].status \in Statuses

TypeOK ==
  /\ StoreTypeOK
  /\ HostTypeOK
  /\ files \in [Ops -> SUBSET OpFiles]
  /\ entryId \in [Ops -> Guids \union {NoGuid}]
  /\ ProcsTypeOK

Init ==
  /\ StoreInit
  /\ HostInit
  /\ files = [o \in Ops |-> {}]
  /\ entryId = [o \in Ops |-> NoGuid]
  /\ pc = [p \in Procs |-> "idle"]
  /\ ctx = [p \in Procs |-> NoContext]

-----------------------------------------------------------------------------
(* Moves of a process between calls. *)
Begin(p, call, context) ==
  /\ pc[p] = "idle"
  /\ pc' = [pc EXCEPT ![p] = call]
  /\ ctx' = [ctx EXCEPT ![p] = context]

Goto(p, call) ==
  /\ pc' = [pc EXCEPT ![p] = call]
  /\ UNCHANGED ctx

Quit(p) ==
  /\ pc' = [pc EXCEPT ![p] = "idle"]
  /\ ctx' = [ctx EXCEPT ![p] = NoContext]

(* save_journal follows, with this status. *)
GotoSave(p, status) ==
  /\ pc' = [pc EXCEPT ![p] = "truncate"]
  /\ ctx' = [ctx EXCEPT ![p].status = status]

(* Fault: the loop runs one file too far. *)
NextFileTooFar(p, call) ==
  IF ctx[p].step = 8
  THEN /\ pc' = [pc EXCEPT ![p] = call]
       /\ ctx' = [ctx EXCEPT ![p].step = 1]
  ELSE /\ ctx' = [ctx EXCEPT ![p].step = @ + 1]
       /\ UNCHANGED pc

(* The loop over the seven metadata files: the next of them, or what follows. *)
NextFile(p, call) ==
  IF ctx[p].step = 7
  THEN /\ pc' = [pc EXCEPT ![p] = call]
       /\ ctx' = [ctx EXCEPT ![p].step = 1]
  ELSE /\ ctx' = [ctx EXCEPT ![p].step = @ + 1]
       /\ UNCHANGED pc

-----------------------------------------------------------------------------
(* apply_plan *)

(* The operation id and plan.pbplan.  A clock that never returns the same
   second twice yields an identifier above all used ones. *)
StartApply(p, o, pl) ==
  /\ ReuseIds \/ \A used \in UsedOps : used < o
  /\ SavePlan(o, pl)
  /\ Begin(p, "esp", Opening(o, pl, NoStatus))
  /\ UNCHANGED <<hostVars, opVars>>

MakeEspDir(p) ==
  /\ pc[p] = "esp"
  /\ espCopy' = [espCopy EXCEPT ![ctx[p].plan] = IF @ = "absent" THEN "partial" ELSE @]
  /\ Goto(p, "robocopy")
  /\ UNCHANGED <<storeVars, machineVars, bcdCopy, opVars>>

(* Fault: robocopy's exit code is ignored. *)
CopyEspUnchecked(p) ==
  /\ pc[p] = "robocopy"
  /\ \E copy \in {"complete", "partial"} :
       espCopy' = [espCopy EXCEPT ![ctx[p].plan] = copy]
  /\ Goto(p, "export")
  /\ UNCHANGED <<storeVars, machineVars, bcdCopy, opVars>>

(* A robocopy that fails has written over some of the files. *)
CopyEsp(p) ==
  /\ pc[p] = "robocopy"
  /\ \/ /\ espCopy' = [espCopy EXCEPT ![ctx[p].plan] = "complete"]
        /\ Goto(p, "export")
     \/ /\ espCopy' = [espCopy EXCEPT ![ctx[p].plan] = "partial"]
        /\ Quit(p)
  /\ UNCHANGED <<storeVars, machineVars, bcdCopy, opVars>>

(* Fault: an export that is already there is kept. *)
ExportBcdOnce(p) ==
  /\ pc[p] = "export"
  /\ IF bcdCopy[ctx[p].plan] = NoStore
     THEN ExportStore(ctx[p].plan)
     ELSE UNCHANGED hostVars
  /\ Goto(p, "manifest")
  /\ UNCHANGED <<storeVars, opVars>>

ExportBcd(p) ==
  /\ pc[p] = "export"
  /\ ExportStore(ctx[p].plan)
  /\ Goto(p, "manifest")
  /\ UNCHANGED <<storeVars, opVars>>

WriteManifest(p) ==
  /\ pc[p] = "manifest"
  /\ WriteBackupManifest(ctx[p].plan)
  /\ IF ctx[p].plan \in WinPePlans
     THEN Goto(p, "stage-wim")
     ELSE GotoSave(p, "checkpointed")
  /\ UNCHANGED <<hostVars, opVars>>

(* A copy of boot.wim that fails leaves what it wrote, and nothing is undone. *)
StageWim(p) ==
  /\ pc[p] = "stage-wim"
  /\ \/ /\ stage' = [stage EXCEPT !.wim = ctx[p].plan]
        /\ Goto(p, "stage-sdi")
     \/ /\ stage' = [stage EXCEPT !.wim = PartialWim]
        /\ Quit(p)
  /\ UNCHANGED <<storeVars, bcd, maker, backupVars, opVars>>

StageSdi(p) ==
  /\ pc[p] = "stage-sdi"
  /\ stage' = [stage EXCEPT !.sdi = TRUE]
  /\ Goto(p, "create")
  /\ UNCHANGED <<storeVars, bcd, maker, backupVars, opVars>>

(* create_bcd_object, then ensure_ramdisk_options_object, whose failure leaves
   the new object behind. *)
CreateEntry(p) ==
  /\ pc[p] = "create"
  /\ \/ \E g \in FreshGuids, call \in {"configure", "undo-store"} :
          /\ CreateObject(g, ctx[p].op)
          /\ pc' = [pc EXCEPT ![p] = call]
          /\ ctx' = [ctx EXCEPT ![p].entry = g]
     \/ UNCHANGED hostVars /\ Goto(p, "undo-store")
  /\ UNCHANGED <<storeVars, opVars>>

(* Fault: the error of a command is swallowed. *)
ConfigureEntryUnchecked(p) ==
  /\ pc[p] = "configure"
  /\ AddDisplayOrder(ctx[p].entry) \/ DeleteObject(ctx[p].entry)
  /\ Goto(p, "metadata")
  /\ UNCHANGED <<storeVars, opVars>>

(* The /set commands and /displayorder; any of them may fail. *)
ConfigureEntry(p) ==
  /\ pc[p] = "configure"
  /\ \/ AddDisplayOrder(ctx[p].entry) /\ Goto(p, "metadata")
     \/ DeleteObject(ctx[p].entry) /\ Goto(p, "undo-store")
  /\ UNCHANGED <<storeVars, opVars>>

(* write_winpe_loader_spec and write_winpe_operation_metadata, file by file *)
WriteMetadata(p) ==
  LET o == ctx[p].op
      file == WriteOrder[ctx[p].step]
  IN /\ pc[p] = "metadata"
     /\ files' = [files EXCEPT ![o] = @ \union {file}]
     /\ entryId' = IF file = "entry-id.txt"
                   THEN [entryId EXCEPT ![o] = ctx[p].entry]
                   ELSE entryId
     /\ NextFile(p, "confirm")
     /\ UNCHANGED <<storeVars, hostVars>>

(* verify_registered_entry: bcdedit /enum finds the entry, or fails. *)
ConfirmEntry(p) ==
  /\ pc[p] = "confirm"
  /\ \/ ctx[p].entry \in bcd.objects /\ GotoSave(p, "applied")
     \/ Goto(p, "undo-store")
  /\ UNCHANGED <<storeVars, hostVars, opVars>>

(* Fault: the undo says /export where it means /import. *)
UndoStoreExporting(p) ==
  /\ pc[p] = "undo-store"
  /\ ExportStore(ctx[p].plan) \/ UNCHANGED hostVars
  /\ Goto(p, "undo-stage")
  /\ UNCHANGED <<storeVars, opVars>>

(* The undo of a failed registration ignores its own errors. *)
UndoStore(p) ==
  /\ pc[p] = "undo-store"
  /\ ImportStore(ctx[p].plan) \/ UNCHANGED hostVars
  /\ Goto(p, "undo-stage")
  /\ UNCHANGED <<storeVars, opVars>>

UndoStage(p) ==
  /\ pc[p] = "undo-stage"
  /\ stage' \in Removals
  /\ Quit(p)
  /\ UNCHANGED <<storeVars, bcd, maker, backupVars, opVars>>

-----------------------------------------------------------------------------
(* The commands that start from a journal file. *)
Loaded(o) == Opening(o, journal[o].plan, journal[o].status)

StartRollback(p, o) ==
  /\ Loadable(o)
  /\ Begin(p, "read-metadata", Loaded(o))
  /\ UNCHANGED <<storeVars, hostVars, opVars>>

StartVerify(p, o) ==
  /\ Loadable(o)
  /\ Begin(p, "inspect", Loaded(o))
  /\ UNCHANGED <<storeVars, hostVars, opVars>>

(* Fault: repair saves the journal with the status it had. *)
StartRepairSameStatus(p) ==
  /\ latest # NoOp
  /\ Loadable(latest)
  /\ Begin(p, "truncate", Loaded(latest))
  /\ UNCHANGED <<storeVars, hostVars, opVars>>

(* repair_latest only rewrites the status of the journal written last. *)
StartRepair(p) ==
  /\ latest # NoOp
  /\ Loadable(latest)
  /\ Begin(p, "truncate", Opening(latest, journal[latest].plan, "repair-suggested"))
  /\ UNCHANGED <<storeVars, hostVars, opVars>>

HasEntryId(o) == "entry-id.txt" \in files[o]

MetadataReadable(o) == MetadataFiles \subseteq files[o]

-----------------------------------------------------------------------------
(* rollback_operation *)

(* No entry id: nothing to undo.  An entry id without the rest is an error. *)
ReadMetadata(p) ==
  LET o == ctx[p].op
  IN /\ pc[p] = "read-metadata"
     /\ \/ ~HasEntryId(o) /\ GotoSave(p, "rolled-back")
        \/ MetadataReadable(o) /\ Goto(p, "import")
        \/ HasEntryId(o) /\ ~MetadataReadable(o) /\ Quit(p)
     /\ UNCHANGED <<storeVars, hostVars, opVars>>

(* The journal's backup_root is the plan's, fixed when the plan was made. *)
BackupReachable(pl) == pl \in HomePlans /\ bcdCopy[pl] # NoStore

(* Fault: a failed import does not stop the rollback. *)
ImportBackupUnchecked(p) ==
  /\ pc[p] = "import"
  /\ ImportStore(ctx[p].plan) \/ UNCHANGED hostVars
  /\ Goto(p, "unstage")
  /\ UNCHANGED <<storeVars, opVars>>

ImportBackup(p) ==
  /\ pc[p] = "import"
  /\ IF BackupReachable(ctx[p].plan)
     THEN ImportStore(ctx[p].plan) /\ Goto(p, "unstage")
     ELSE UNCHANGED hostVars /\ Quit(p)
  /\ UNCHANGED <<storeVars, opVars>>

(* Fault: the metadata files are not removed. *)
UnstageOnly(p) ==
  /\ pc[p] = "unstage"
  /\ \/ stage' = EmptyStage /\ GotoSave(p, "rolled-back")
     \/ stage' \in Removals /\ stage' # stage /\ Quit(p)
  /\ UNCHANGED <<storeVars, bcd, maker, backupVars, opVars>>

(* remove_dir_all may delete one file and fail on the other; the crash in
   between is the same. *)
Unstage(p) ==
  /\ pc[p] = "unstage"
  /\ \/ stage' = EmptyStage /\ Goto(p, "remove-metadata")
     \/ stage' \in Removals /\ stage' # stage /\ Quit(p)
  /\ UNCHANGED <<storeVars, bcd, maker, backupVars, opVars>>

RemoveMetadata(p) ==
  LET o == ctx[p].op
      file == RemoveOrder[ctx[p].step]
  IN /\ pc[p] = "remove-metadata"
     /\ files' = [files EXCEPT ![o] = @ \ {file}]
     /\ IF ctx[p].step = 7
        THEN GotoSave(p, "rolled-back")
        ELSE NextFile(p, "remove-metadata")
     /\ UNCHANGED <<storeVars, hostVars, entryId>>

(* save_journal *)
Truncate(p) ==
  /\ pc[p] = "truncate"
  /\ TruncateJournal(ctx[p].op)
  /\ Goto(p, "write")
  /\ UNCHANGED <<hostVars, opVars>>

Write(p) ==
  /\ pc[p] = "write"
  /\ FillJournal(ctx[p].op, [status |-> ctx[p].status, plan |-> ctx[p].plan])
  /\ Quit(p)
  /\ UNCHANGED <<hostVars, opVars>>

-----------------------------------------------------------------------------
(* verify_operation *)
Find(p, artifacts, call) ==
  /\ pc' = [pc EXCEPT ![p] = call]
  /\ ctx' = [ctx EXCEPT ![p].found = @ \union artifacts]

If(condition, artifact) == IF condition THEN {artifact} ELSE {}

(* Fault: verify looks for the backup under the state root in use, not where
   the journal says. *)
InspectArtifactsHere(p) ==
  LET o == ctx[p].op
      pl == ctx[p].plan
  IN /\ pc[p] = "inspect"
     /\ IF HasEntryId(o) /\ ~MetadataReadable(o)
        THEN Quit(p)
        ELSE Find(p, If(/\ bcdCopy[pl] # NoStore
                        /\ manifest[pl]
                        /\ espCopy[pl] # "absent", "backups")
                     \union If(savedPlan[o] # NoPlan, "plan")
                     \union If(HasEntryId(o), "metadata"),
                  "stat")
     /\ UNCHANGED <<storeVars, hostVars, opVars>>

InspectArtifacts(p) ==
  LET o == ctx[p].op
      pl == ctx[p].plan
  IN /\ pc[p] = "inspect"
     /\ IF HasEntryId(o) /\ ~MetadataReadable(o)
        THEN Quit(p)
        ELSE Find(p, If(BackupReachable(pl) /\ manifest[pl] /\ espCopy[pl] # "absent",
                        "backups")
                     \union If(savedPlan[o] # NoPlan, "plan")
                     \union If(HasEntryId(o), "metadata"),
                  "stat")
     /\ UNCHANGED <<storeVars, hostVars, opVars>>

(* Without metadata both answers come from the status the journal had.  The
   files named in the metadata, and the entry, are the operation's for good. *)
StatStaged(p) ==
  /\ pc[p] = "stat"
  /\ Find(p, If(IF "metadata" \in ctx[p].found
                THEN /\ stage.wim # NoPlan
                     /\ stage.sdi
                     /\ "loader-spec.txt" \in files[ctx[p].op]
                ELSE ctx[p].status = "applied", "staged"), "enum")
  /\ UNCHANGED <<storeVars, hostVars, opVars>>

(* bcdedit /enum may fail though the entry is there. *)
EnumEntry(p) ==
  /\ pc[p] = "enum"
  /\ \E registered \in BOOLEAN :
       /\ IF "metadata" \in ctx[p].found
          THEN registered => entryId[ctx[p].op] \in bcd.objects
          ELSE registered <=> ctx[p].status = "applied"
       /\ Find(p, If(registered, "registered"), "print")
  /\ UNCHANGED <<storeVars, hostVars, opVars>>

PrintReport(p) ==
  /\ pc[p] = "print"
  /\ Quit(p)
  /\ UNCHANGED <<storeVars, hostVars, opVars>>

(* VerificationReport.verified, of the report a process is about to print *)
Verified(p) ==
  LET required == IF "metadata" \in ctx[p].found \/ ctx[p].status = "applied"
                  THEN {"backups", "plan", "staged", "registered"}
                  ELSE {"backups", "plan"}
  IN required \subseteq ctx[p].found

-----------------------------------------------------------------------------
(* The process dies, or an error ends the command before its next call. *)
Abort(p) ==
  /\ pc[p] # "idle"
  /\ Quit(p)
  /\ UNCHANGED <<storeVars, hostVars, opVars>>

(* Outside PartBooter: the operator makes another entry the default. *)
OperatorSetsDefault(d) ==
  /\ d # bcd.default
  /\ bcd' = [bcd EXCEPT !.default = d]
  /\ UNCHANGED <<storeVars, stage, maker, backupVars, opVars, procVars>>

ApplyStep(p) ==
  \/ MakeEspDir(p) \/ CopyEsp(p) \/ ExportBcd(p) \/ WriteManifest(p)
  \/ StageWim(p) \/ StageSdi(p) \/ CreateEntry(p) \/ ConfigureEntry(p)
  \/ WriteMetadata(p) \/ ConfirmEntry(p) \/ UndoStore(p) \/ UndoStage(p)

RollbackStep(p) ==
  ReadMetadata(p) \/ ImportBackup(p) \/ Unstage(p) \/ RemoveMetadata(p)

VerifyStep(p) ==
  InspectArtifacts(p) \/ StatStaged(p) \/ EnumEntry(p) \/ PrintReport(p)

Continue(p) ==
  ApplyStep(p) \/ RollbackStep(p) \/ VerifyStep(p) \/ Truncate(p) \/ Write(p)

Start(p) ==
  \/ \E o \in Ops, pl \in Plans : StartApply(p, o, pl)
  \/ \E o \in Ops : StartRollback(p, o) \/ StartVerify(p, o)
  \/ StartRepair(p)

Next ==
  \/ \E p \in Procs : Start(p) \/ Continue(p) \/ Abort(p)
  \/ \E d \in Loaders : OperatorSetsDefault(d)

Spec == Init /\ [][Next]_vars

=============================================================================
