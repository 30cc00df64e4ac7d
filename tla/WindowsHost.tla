----------------------------- MODULE WindowsHost -----------------------------
(***************************************************************************)
(* crates/windows: what the adapter reads and changes on the machine.  The *)
(* boot configuration store is driven through bcdedit, one command at a    *)
(* time; every command either takes effect or fails and changes nothing.   *)
(* WinPE payloads of all operations are staged in the same directory,      *)
(* <SystemDrive>\Boot\PartBooter, so one variable describes it.            *)
(***************************************************************************)
EXTENDS DomainModel

CONSTANTS
  Guids,       \* identifiers bcdedit /create can return
  Loaders,     \* what the default boot entry may point to
  NoGuid,      \* no boot entry
  NoStore,     \* a bcd-store.bak that does not exist
  PartialWim   \* a boot.wim whose copy did not finish

(* The boot configuration store: its objects, those of them shown in the boot
   menu, and the default entry. *)
Stores == [objects : SUBSET Guids, shown : SUBSET Guids, default : Loaders]

Stages == [wim : Plans \union {NoPlan, PartialWim}, sdi : BOOLEAN]

ASSUME HostAssumption ==
  /\ NoGuid \notin Guids
  /\ NoStore \notin Stores
  /\ PartialWim \notin Plans \union {NoPlan}

VARIABLES
  bcd,      \* the live boot configuration store
  stage,    \* the staging directory: whose boot.wim it holds, and boot.sdi
  espCopy,  \* backups/<plan>/esp: "absent", "partial" or "complete"
  bcdCopy,  \* backups/<plan>/bcd-store.bak: the store it exported
  maker     \* history: the operation that created a boot entry

machineVars == <<bcd, stage, maker>>
backupVars == <<espCopy, bcdCopy>>
hostVars == <<bcd, stage, espCopy, bcdCopy, maker>>

HostTypeOK ==
  /\ bcd \in Stores
  /\ stage \in Stages
  /\ espCopy \in [Plans -> {"absent", "partial", "complete"}]
  /\ bcdCopy \in [Plans -> Stores \union {NoStore}]
  /\ maker \in [Guids -> Ops \union {NoOp}]

EmptyStage == [wim |-> NoPlan, sdi |-> FALSE]

HostInit ==
  /\ bcd \in [objects : {{}}, shown : {{}}, default : Loaders]
  /\ stage = EmptyStage
  /\ espCopy = [pl \in Plans |-> "absent"]
  /\ bcdCopy = [pl \in Plans |-> NoStore]
  /\ maker = [g \in Guids |-> NoOp]

(* What remove_staged_payload can leave: boot.wim and boot.sdi are each deleted
   or, when the deletion stops early, still there. *)
Removals == {s \in Stages : /\ s.wim \in {stage.wim, NoPlan}
                            /\ s.sdi \in {stage.sdi, FALSE}}

(* bcdedit /create answers with an identifier no object ever had. *)
FreshGuids == {g \in Guids : maker[g] = NoOp}

CreateObject(g, o) ==
  /\ bcd' = [bcd EXCEPT !.objects = @ \union {g}]
  /\ maker' = [maker EXCEPT ![g] = o]
  /\ UNCHANGED <<stage, backupVars>>

(* delete_bcd_object, whose own failure the caller ignores *)
DeleteObject(g) ==
  /\ \/ bcd' = [bcd EXCEPT !.objects = @ \ {g}, !.shown = @ \ {g}]
     \/ UNCHANGED bcd
  /\ UNCHANGED <<stage, maker, backupVars>>

(* Fault: /displayorder without /addlast, which sets the whole list. *)
SetDisplayOrder(g) ==
  /\ g \in bcd.objects
  /\ bcd' = [bcd EXCEPT !.shown = {g}]
  /\ UNCHANGED <<stage, maker, backupVars>>

(* The last command of a registration, after every /set succeeded. *)
AddDisplayOrder(g) ==
  /\ g \in bcd.objects
  /\ bcd' = [bcd EXCEPT !.shown = @ \union {g}]
  /\ UNCHANGED <<stage, maker, backupVars>>

(* bcdedit /export *)
ExportStore(pl) ==
  /\ bcdCopy' = [bcdCopy EXCEPT ![pl] = bcd]
  /\ UNCHANGED <<machineVars, espCopy>>

(* bcdedit /import: the file replaces the whole store. *)
ImportStore(pl) ==
  /\ bcdCopy[pl] # NoStore
  /\ bcd' = bcdCopy[pl]
  /\ UNCHANGED <<stage, maker, backupVars>>

=============================================================================
