--------------------------- MODULE LifecycleProofs ---------------------------
(***************************************************************************)
(* Proofs about Lifecycle for every set of operations, plans, boot entries *)
(* and processes: that it is typed, what a step of each kind may change,   *)
(* and the conjuncts of Inv that say who works on which operation.         *)
(***************************************************************************)
EXTENDS LifecycleInvariant, TLAPS

(* Every file written or removed is one of the metadata files. *)
LEMMA FileOrder ==
  \A i \in 1..7 : WriteOrder[i] \in OpFiles /\ RemoveOrder[i] \in OpFiles
BY DEF OpFiles, WriteOrder, RemoveOrder

(* The initial state is typed. *)
LEMMA TypeInit == Init => TypeOK
BY OpsAssumption DEF Init, TypeOK, ProcsTypeOK, StoreInit, StoreTypeOK, HostInit, HostTypeOK,
  Stores, Stages, EmptyStage, Calls, SaveCalls, NoContext, Opening, Contexts, NoOp, NoStatus

-----------------------------------------------------------------------------
(* The moves between calls keep program counters and contexts typed. *)
LEMMA TypeGoto ==
  ASSUME ProcsTypeOK, NEW p \in Procs, NEW call \in Calls \ {"idle", "truncate", "write"},
         pc[p] # "idle", Goto(p, call)
  PROVE  ProcsTypeOK'
BY DEF Goto, ProcsTypeOK, SaveCalls

(* A command that ends leaves its process typed. *)
LEMMA TypeQuit ==
  ASSUME ProcsTypeOK, NEW p \in Procs, Quit(p)
  PROVE  ProcsTypeOK'
BY DEF Quit, ProcsTypeOK, SaveCalls, Calls, NoContext, Opening, Contexts

(* A command that goes on to save its journal has a status to save. *)
LEMMA TypeGotoSave ==
  ASSUME ProcsTypeOK, NEW p \in Procs, NEW status \in Statuses,
         pc[p] # "idle", GotoSave(p, status)
  PROVE  ProcsTypeOK'
BY DEF GotoSave, ProcsTypeOK, SaveCalls, Calls, Contexts

(* The loops over the metadata files stay within the seven files. *)
LEMMA TypeNextFile ==
  ASSUME ProcsTypeOK, NEW p \in Procs, NEW call \in Calls \ {"idle", "truncate", "write"},
         pc[p] # "idle", pc[p] \notin SaveCalls, NextFile(p, call)
  PROVE  ProcsTypeOK'
BY DEF NextFile, ProcsTypeOK, SaveCalls, Contexts

(* A command starts typed. *)
LEMMA TypeBegin ==
  ASSUME ProcsTypeOK, NEW p \in Procs, NEW call \in Calls \ {"idle"},
         NEW context \in Contexts, context.op \in Ops, context.plan \in Plans,
         call \in SaveCalls => context.status \in Statuses, Begin(p, call, context)
  PROVE  ProcsTypeOK'
BY DEF Begin, ProcsTypeOK

(* A verification only collects artifacts. *)
LEMMA TypeFind ==
  ASSUME ProcsTypeOK, NEW p \in Procs, NEW call \in VerifyCalls,
         pc[p] # "idle", NEW artifacts \in SUBSET Artifacts, Find(p, artifacts, call)
  PROVE  ProcsTypeOK'
BY DEF Find, ProcsTypeOK, SaveCalls, Calls, VerifyCalls, Contexts

(* The context a command starts with. *)
LEMMA TypeOpening ==
  ASSUME NEW o \in Ops, NEW pl \in Plans, NEW status \in Statuses \union {NoStatus}
  PROVE  /\ Opening(o, pl, status) \in Contexts
         /\ Opening(o, pl, status).op = o
         /\ Opening(o, pl, status).plan = pl
         /\ Opening(o, pl, status).status = status
BY DEF Opening, Contexts

(* A journal that loads names a plan and a status. *)
LEMMA TypeLoadable ==
  ASSUME NEW o \in Ops, Loadable(o)
  PROVE  journal[o].plan \in Plans /\ journal[o].status \in Statuses
BY DEF Loadable, Records

(* TypeOK is inductive. *)
LEMMA TypeNext == TypeOK /\ [Next]_vars => TypeOK'
<1> SUFFICES ASSUME TypeOK, [Next]_vars PROVE TypeOK'
  OBVIOUS
<1> USE DEF TypeOK
<1>1. ASSUME NEW p \in Procs, NEW o \in Ops, NEW pl \in Plans, StartApply(p, o, pl)
      PROVE  TypeOK'
  <2>1. ProcsTypeOK'
    BY <1>1, TypeOpening, TypeBegin DEF StartApply, Calls, ApplyCalls, SaveCalls
  <2> QED BY <1>1, <2>1 DEF StartApply, SavePlan, StoreTypeOK, HostTypeOK, hostVars, opVars
<1>2. ASSUME NEW p \in Procs, NEW o \in Ops, StartRollback(p, o) \/ StartVerify(p, o)
      PROVE  TypeOK'
  <2>1. Loadable(o)
    BY <1>2 DEF StartRollback, StartVerify
  <2> DEFINE call == IF StartRollback(p, o) THEN "read-metadata" ELSE "inspect"
  <2>2. /\ Loaded(o) \in Contexts
        /\ Loaded(o).op \in Ops
        /\ Loaded(o).plan \in Plans
    BY <2>1, TypeLoadable, TypeOpening DEF Loaded
  <2>3. call \in Calls \ {"idle"} /\ call \notin SaveCalls
    BY DEF Calls, RollbackCalls, VerifyCalls, SaveCalls
  <2>4. Begin(p, call, Loaded(o))
    BY <1>2 DEF StartRollback, StartVerify
  <2> HIDE DEF call
  <2>5. ProcsTypeOK'
    BY <2>2, <2>3, <2>4, TypeBegin
  <2> QED BY <1>2, <2>5
     DEF StartRollback, StartVerify, StoreTypeOK, HostTypeOK, storeVars, runVars, hostVars,
         opVars
<1>3. ASSUME NEW p \in Procs, StartRepair(p)
      PROVE  TypeOK'
  <2>1. latest \in Ops /\ Loadable(latest)
    BY <1>3 DEF StartRepair, StoreTypeOK
  <2>2. "repair-suggested" \in Statuses
    BY DEF Statuses
  <2>3. ProcsTypeOK'
    BY <1>3, <2>1, <2>2, TypeLoadable, TypeOpening, TypeBegin DEF StartRepair, Calls, SaveCalls
  <2> QED BY <1>3, <2>3
     DEF StartRepair, StoreTypeOK, HostTypeOK, storeVars, runVars, hostVars, opVars
<1>4. ASSUME NEW p \in Procs, MakeEspDir(p)
      PROVE  TypeOK'
  <2>1. ProcsTypeOK'
    BY <1>4, TypeGoto
       DEF MakeEspDir, Calls, ApplyCalls, RollbackCalls, VerifyCalls, SaveCalls, Statuses
  <2> QED BY <1>4, <2>1
     DEF MakeEspDir, StoreTypeOK, HostTypeOK, storeVars, runVars, hostVars, machineVars,
         backupVars, opVars, ProcsTypeOK
<1>5. ASSUME NEW p \in Procs, CopyEsp(p)
      PROVE  TypeOK'
  <2>1. ProcsTypeOK'
    BY <1>5, TypeGoto, TypeQuit
       DEF CopyEsp, Calls, ApplyCalls, RollbackCalls, VerifyCalls, SaveCalls, Statuses
  <2> QED BY <1>5, <2>1
     DEF CopyEsp, StoreTypeOK, HostTypeOK, storeVars, runVars, hostVars, machineVars,
         backupVars, opVars, ProcsTypeOK
<1>6. ASSUME NEW p \in Procs, ExportBcd(p)
      PROVE  TypeOK'
  <2>1. ProcsTypeOK'
    BY <1>6, TypeGoto
       DEF ExportBcd, Calls, ApplyCalls, RollbackCalls, VerifyCalls, SaveCalls, Statuses
  <2> QED BY <1>6, <2>1
     DEF ExportBcd, StoreTypeOK, HostTypeOK, storeVars, runVars, hostVars, machineVars,
         backupVars, opVars, ExportStore, ProcsTypeOK
<1>7. ASSUME NEW p \in Procs, WriteManifest(p)
      PROVE  TypeOK'
  <2>1. ProcsTypeOK'
    BY <1>7, TypeGoto, TypeGotoSave
       DEF WriteManifest, Calls, ApplyCalls, RollbackCalls, VerifyCalls, SaveCalls, Statuses
  <2> QED BY <1>7, <2>1
     DEF WriteManifest, StoreTypeOK, HostTypeOK, storeVars, runVars, hostVars, machineVars,
         backupVars, opVars, WriteBackupManifest, ProcsTypeOK
<1>8. ASSUME NEW p \in Procs, StageWim(p)
      PROVE  TypeOK'
  <2>1. ProcsTypeOK'
    BY <1>8, TypeGoto, TypeQuit
       DEF StageWim, Calls, ApplyCalls, RollbackCalls, VerifyCalls, SaveCalls, Statuses
  <2> QED BY <1>8, <2>1
     DEF StageWim, StoreTypeOK, HostTypeOK, storeVars, runVars, hostVars, machineVars,
         backupVars, opVars, Stages, ProcsTypeOK
<1>9. ASSUME NEW p \in Procs, StageSdi(p)
      PROVE  TypeOK'
  <2>1. ProcsTypeOK'
    BY <1>9, TypeGoto
       DEF StageSdi, Calls, ApplyCalls, RollbackCalls, VerifyCalls, SaveCalls, Statuses
  <2> QED BY <1>9, <2>1
     DEF StageSdi, StoreTypeOK, HostTypeOK, storeVars, runVars, hostVars, machineVars,
         backupVars, opVars, Stages, ProcsTypeOK
<1>10. ASSUME NEW p \in Procs, CreateEntry(p)
      PROVE  TypeOK'
  <2>1. CASE UNCHANGED hostVars /\ Goto(p, "undo-store")
    <3>1. ProcsTypeOK'
      BY <1>10, <2>1, TypeGoto DEF CreateEntry, Calls, ApplyCalls
    <3> QED BY <1>10, <2>1, <3>1
       DEF CreateEntry, StoreTypeOK, HostTypeOK, storeVars, runVars, hostVars, opVars
  <2>2. ASSUME NEW g \in FreshGuids, NEW call \in {"configure", "undo-store"},
               CreateObject(g, ctx[p].op),
               pc' = [pc EXCEPT ![p] = call],
               ctx' = [ctx EXCEPT ![p].entry = g]
        PROVE  TypeOK'
    <3>1. g \in Guids /\ ctx[p].op \in Ops
      BY <1>10 DEF FreshGuids, CreateEntry, ProcsTypeOK
    <3>2. ProcsTypeOK'
      BY <1>10, <2>2, <3>1 DEF CreateEntry, ProcsTypeOK, Contexts, Calls, ApplyCalls, SaveCalls
    <3>3. HostTypeOK'
      BY <2>2, <3>1 DEF CreateObject, HostTypeOK, Stores, backupVars
    <3> QED BY <1>10, <3>2, <3>3 DEF CreateEntry, StoreTypeOK, storeVars, runVars, opVars
  <2> QED BY <1>10, <2>1, <2>2 DEF CreateEntry
<1>11. ASSUME NEW p \in Procs, ConfigureEntry(p)
      PROVE  TypeOK'
  <2>1. ProcsTypeOK'
    BY <1>11, TypeGoto DEF ConfigureEntry, Calls, ApplyCalls
  <2>2. HostTypeOK'
    <3>1. CASE AddDisplayOrder(ctx[p].entry)
      <4>1. ctx[p].entry \in Guids
        BY <3>1 DEF AddDisplayOrder, HostTypeOK, Stores
      <4> QED BY <3>1, <4>1 DEF AddDisplayOrder, HostTypeOK, Stores, backupVars
    <3>2. CASE DeleteObject(ctx[p].entry)
      BY <3>2 DEF DeleteObject, HostTypeOK, Stores, backupVars
    <3> QED BY <1>11, <3>1, <3>2 DEF ConfigureEntry
  <2> QED BY <1>11, <2>1, <2>2 DEF ConfigureEntry, StoreTypeOK, storeVars, runVars, opVars
<1>12. ASSUME NEW p \in Procs, WriteMetadata(p)
      PROVE  TypeOK'
  <2>1. ProcsTypeOK'
    BY <1>12, TypeNextFile DEF WriteMetadata, Calls, ApplyCalls, SaveCalls
  <2>2. /\ ctx[p].op \in Ops /\ ctx[p].entry \in Guids \union {NoGuid}
        /\ WriteOrder[ctx[p].step] \in OpFiles
    BY <1>12, FileOrder DEF WriteMetadata, ProcsTypeOK, Contexts
  <2> QED BY <1>12, <2>1, <2>2
     DEF WriteMetadata, StoreTypeOK, HostTypeOK, storeVars, runVars, hostVars, machineVars,
         backupVars, opVars
<1>13. ASSUME NEW p \in Procs, ConfirmEntry(p)
      PROVE  TypeOK'
  <2>1. ProcsTypeOK'
    BY <1>13, TypeGoto, TypeGotoSave
       DEF ConfirmEntry, Calls, ApplyCalls, RollbackCalls, VerifyCalls, SaveCalls, Statuses
  <2> QED BY <1>13, <2>1
     DEF ConfirmEntry, StoreTypeOK, HostTypeOK, storeVars, runVars, hostVars, machineVars,
         backupVars, opVars, ProcsTypeOK
<1>14. ASSUME NEW p \in Procs, UndoStore(p)
      PROVE  TypeOK'
  <2>1. ProcsTypeOK'
    BY <1>14, TypeGoto
       DEF UndoStore, Calls, ApplyCalls, RollbackCalls, VerifyCalls, SaveCalls, Statuses
  <2> QED BY <1>14, <2>1
     DEF UndoStore, StoreTypeOK, HostTypeOK, storeVars, runVars, hostVars, machineVars,
         backupVars, opVars, ImportStore, ProcsTypeOK
<1>15. ASSUME NEW p \in Procs, UndoStage(p)
      PROVE  TypeOK'
  <2>1. ProcsTypeOK'
    BY <1>15, TypeQuit
       DEF UndoStage, Calls, ApplyCalls, RollbackCalls, VerifyCalls, SaveCalls, Statuses
  <2> QED BY <1>15, <2>1
     DEF UndoStage, StoreTypeOK, HostTypeOK, storeVars, runVars, hostVars, machineVars,
         backupVars, opVars, Removals, ProcsTypeOK
<1>16. ASSUME NEW p \in Procs, ReadMetadata(p)
      PROVE  TypeOK'
  <2>1. ProcsTypeOK'
    BY <1>16, TypeGoto, TypeGotoSave, TypeQuit
       DEF ReadMetadata, Calls, ApplyCalls, RollbackCalls, VerifyCalls, SaveCalls, Statuses
  <2> QED BY <1>16, <2>1
     DEF ReadMetadata, StoreTypeOK, HostTypeOK, storeVars, runVars, hostVars, machineVars,
         backupVars, opVars, ProcsTypeOK
<1>17. ASSUME NEW p \in Procs, ImportBackup(p)
      PROVE  TypeOK'
  <2>1. ProcsTypeOK'
    BY <1>17, TypeGoto, TypeQuit
       DEF ImportBackup, Calls, ApplyCalls, RollbackCalls, VerifyCalls, SaveCalls, Statuses
  <2> QED BY <1>17, <2>1
     DEF ImportBackup, StoreTypeOK, HostTypeOK, storeVars, runVars, hostVars, machineVars,
         backupVars, opVars, ImportStore, ProcsTypeOK
<1>18. ASSUME NEW p \in Procs, Unstage(p)
      PROVE  TypeOK'
  <2>1. ProcsTypeOK'
    BY <1>18, TypeGoto, TypeQuit DEF Unstage, Calls, RollbackCalls
  <2>2. stage' \in Stages
    <3>1. EmptyStage \in Stages
      BY DEF EmptyStage, Stages
    <3> QED BY <1>18, <3>1 DEF Unstage, Removals
  <2> QED BY <1>18, <2>1, <2>2
     DEF Unstage, StoreTypeOK, HostTypeOK, storeVars, runVars, backupVars, opVars
<1>19. ASSUME NEW p \in Procs, RemoveMetadata(p)
      PROVE  TypeOK'
  <2>1. ProcsTypeOK'
    BY <1>19, TypeNextFile, TypeGotoSave
       DEF RemoveMetadata, Calls, RollbackCalls, SaveCalls, Statuses
  <2> QED BY <1>19, <2>1
     DEF RemoveMetadata, StoreTypeOK, HostTypeOK, storeVars, runVars, hostVars, machineVars,
         backupVars, opVars
<1>20. ASSUME NEW p \in Procs, Truncate(p)
      PROVE  TypeOK'
  <2>1. ProcsTypeOK'
    BY <1>20 DEF Truncate, Goto, ProcsTypeOK, Calls, SaveCalls
  <2> QED BY <1>20, <2>1
     DEF Truncate, TruncateJournal, StoreTypeOK, HostTypeOK, storeVars, runVars, hostVars,
         machineVars, backupVars, opVars, SaveCalls, ProcsTypeOK
<1>21. ASSUME NEW p \in Procs, Write(p)
      PROVE  TypeOK'
  <2>1. ProcsTypeOK'
    BY <1>21, TypeQuit DEF Write
  <2>2. /\ ctx[p].op \in Ops
        /\ [status |-> ctx[p].status, plan |-> ctx[p].plan] \in Records
    BY <1>21 DEF Write, ProcsTypeOK, SaveCalls, Records
  <2> QED BY <1>21, <2>1, <2>2
     DEF Write, FillJournal, StoreTypeOK, HostTypeOK, storeVars, runVars, hostVars,
         machineVars, backupVars, opVars
<1>22. ASSUME NEW p \in Procs, InspectArtifacts(p)
      PROVE  TypeOK'
  <2>1. ProcsTypeOK'
    <3>1. CASE Quit(p) BY <3>1, TypeQuit
    <3>2. CASE ~Quit(p)
      BY <1>22, <3>2, TypeFind DEF InspectArtifacts, If, Artifacts, VerifyCalls, ProcsTypeOK
    <3> QED BY <3>1, <3>2
  <2> QED BY <1>22, <2>1
     DEF InspectArtifacts, StoreTypeOK, HostTypeOK, storeVars, runVars, hostVars,
         machineVars, backupVars, opVars
<1>23. ASSUME NEW p \in Procs, StatStaged(p)
      PROVE  TypeOK'
  <2>1. ProcsTypeOK'
    BY <1>23, TypeFind DEF StatStaged, If, Artifacts, VerifyCalls, ProcsTypeOK
  <2> QED BY <1>23, <2>1
     DEF StatStaged, StoreTypeOK, HostTypeOK, storeVars, runVars, hostVars, machineVars,
         backupVars, opVars
<1>24. ASSUME NEW p \in Procs, EnumEntry(p)
      PROVE  TypeOK'
  <2>1. ProcsTypeOK'
    BY <1>24, TypeFind DEF EnumEntry, If, Artifacts, VerifyCalls, ProcsTypeOK
  <2> QED BY <1>24, <2>1
     DEF EnumEntry, StoreTypeOK, HostTypeOK, storeVars, runVars, hostVars, machineVars,
         backupVars, opVars
<1>25. ASSUME NEW p \in Procs, PrintReport(p)
      PROVE  TypeOK'
  <2>1. ProcsTypeOK'
    BY <1>25, TypeQuit
       DEF PrintReport, Calls, ApplyCalls, RollbackCalls, VerifyCalls, SaveCalls, Statuses
  <2> QED BY <1>25, <2>1
     DEF PrintReport, StoreTypeOK, HostTypeOK, storeVars, runVars, hostVars, machineVars,
         backupVars, opVars, ProcsTypeOK
<1>26. ASSUME NEW p \in Procs, Abort(p)
      PROVE  TypeOK'
  <2>1. ProcsTypeOK'
    BY <1>26, TypeQuit
       DEF Abort, Calls, ApplyCalls, RollbackCalls, VerifyCalls, SaveCalls, Statuses
  <2> QED BY <1>26, <2>1
     DEF Abort, StoreTypeOK, HostTypeOK, storeVars, runVars, hostVars, machineVars,
         backupVars, opVars, ProcsTypeOK
<1>27. ASSUME NEW d \in Loaders, OperatorSetsDefault(d)
      PROVE  TypeOK'
  BY <1>27
     DEF OperatorSetsDefault, Stores, StoreTypeOK, HostTypeOK, storeVars, runVars, hostVars,
         machineVars, backupVars, opVars, procVars, ProcsTypeOK
<1>28. CASE UNCHANGED vars
  BY <1>28
     DEF vars, StoreTypeOK, HostTypeOK, storeVars, runVars, hostVars, machineVars,
         backupVars, opVars, procVars, ProcsTypeOK, FreshGuids
<1> QED
  BY <1>1, <1>2, <1>3, <1>4, <1>5, <1>6, <1>7, <1>8, <1>9, <1>10, <1>11, <1>12, <1>13, <1>14, <1>15, <1>16, <1>17, <1>18, <1>19, <1>20, <1>21, <1>22, <1>23, <1>24, <1>25, <1>26, <1>27, <1>28
     DEF Next, Start, Continue, ApplyStep, RollbackStep, VerifyStep

(* The variables keep their types: no command leaves a journal, a backup or a
   staging directory that the next command could not describe, and a process
   past its first call knows its operation and its plan. *)
THEOREM TypeCorrect == Spec => []TypeOK
BY TypeInit, TypeNext, PTL DEF Spec

-----------------------------------------------------------------------------
(* A step of p leaves the other processes alone. *)
Alone(p) == \A q \in Procs \ {p} : pc'[q] = pc[q] /\ ctx'[q] = ctx[q]

(* A step of p stays in its command, with the operation and plan it has. *)
Stays(p) ==
  /\ pc[p] # "idle"
  /\ ctx'[p].op = ctx[p].op
  /\ ctx'[p].plan = ctx[p].plan
  /\ Applies(p)' <=> Applies(p)

(* What a step of a running command does to the ownership of operations. *)
Keeps(p) ==
  /\ Alone(p)
  /\ savedPlan' = savedPlan /\ ran' = ran /\ reissued' = reissued
  /\ \/ pc'[p] = "idle"
     \/ Stays(p)
  /\ \/ recorded' = recorded
     \/ recorded' = recorded \union {ctx[p].op} /\ pc'[p] = "idle"

(* A move to the next call, of the same command. *)
LEMMA GotoStays ==
  ASSUME TypeOK, NEW p \in Procs, NEW call \in Calls, pc[p] # "idle",
         (pc[p] \in ApplyCalls) <=> (call \in ApplyCalls),
         (pc[p] \in SaveCalls) <=> (call \in SaveCalls), Goto(p, call)
  PROVE  Alone(p) /\ Stays(p) /\ pc'[p] = call /\ ctx' = ctx
BY DEF TypeOK, ProcsTypeOK, Goto, Alone, Stays, Applies

(* A command that ends. *)
LEMMA QuitIdle ==
  ASSUME TypeOK, NEW p \in Procs, Quit(p)
  PROVE  Alone(p) /\ pc'[p] = "idle"
BY DEF TypeOK, ProcsTypeOK, Quit, Alone

(* A move on to save_journal: an apply saves the outcome of the apply. *)
LEMMA SaveStays ==
  ASSUME TypeOK, NEW p \in Procs, pc[p] # "idle", pc[p] \notin SaveCalls,
         NEW status \in Statuses,
         (pc[p] \in ApplyCalls) <=> (status \in {"applied", "checkpointed"}),
         GotoSave(p, status)
  PROVE  Alone(p) /\ Stays(p) /\ pc'[p] = "truncate"
         /\ ctx'[p].status = status /\ ctx'[p].step = ctx[p].step
         /\ Saves(p, status)'
BY
   DEF TypeOK, ProcsTypeOK, GotoSave, Contexts, Alone, Stays, Applies, Saves, SaveCalls,
       ApplyCalls

(* A move within the loop over the metadata files, or out of it. *)
LEMMA NextFileStays ==
  ASSUME TypeOK, NEW p \in Procs, pc[p] # "idle", NEW call \in Calls,
         (pc[p] \in ApplyCalls) <=> (call \in ApplyCalls),
         pc[p] \notin SaveCalls, call \notin SaveCalls, NextFile(p, call)
  PROVE  Alone(p) /\ Stays(p)
BY DEF TypeOK, ProcsTypeOK, NextFile, Contexts, Alone, Stays, Applies

-----------------------------------------------------------------------------
(* The steps of a running command, in the order of the calls. *)
LEMMA CheckpointKeeps ==
  ASSUME TypeOK, NEW p \in Procs,
         MakeEspDir(p) \/ CopyEsp(p) \/ ExportBcd(p) \/ WriteManifest(p)
  PROVE  Keeps(p)
<1>1. CASE MakeEspDir(p)
  BY <1>1, GotoStays DEF MakeEspDir, Keeps, storeVars, runVars, Calls, ApplyCalls, SaveCalls
<1>2. CASE CopyEsp(p)
  BY <1>2, GotoStays, QuitIdle
     DEF CopyEsp, Keeps, storeVars, runVars, Calls, ApplyCalls, SaveCalls
<1>3. CASE ExportBcd(p)
  BY <1>3, GotoStays DEF ExportBcd, Keeps, storeVars, runVars, Calls, ApplyCalls, SaveCalls
<1>4. CASE WriteManifest(p)
  BY <1>4, GotoStays, SaveStays
    
        DEF WriteManifest, WriteBackupManifest, runVars, Keeps, Calls, ApplyCalls, SaveCalls,
            Statuses
<1> QED BY <1>1, <1>2, <1>3, <1>4

(* Staging and registration. *)
LEMMA StagingKeeps ==
  ASSUME TypeOK, NEW p \in Procs,
         StageWim(p) \/ StageSdi(p) \/ CreateEntry(p) \/ ConfigureEntry(p)
  PROVE  Keeps(p)
<1>1. CASE StageWim(p)
  BY <1>1, GotoStays, QuitIdle
     DEF StageWim, Keeps, storeVars, runVars, Calls, ApplyCalls, SaveCalls
<1>2. CASE StageSdi(p)
  BY <1>2, GotoStays DEF StageSdi, Keeps, storeVars, runVars, Calls, ApplyCalls, SaveCalls
<1>3. CASE CreateEntry(p)
  <2>1. CASE Goto(p, "undo-store")
    BY <1>3, <2>1, GotoStays
       DEF CreateEntry, Keeps, storeVars, runVars, Calls, ApplyCalls, SaveCalls
  <2>2. ASSUME NEW g \in Guids, NEW call \in {"configure", "undo-store"},
               pc' = [pc EXCEPT ![p] = call],
               ctx' = [ctx EXCEPT ![p].entry = g]
        PROVE  Alone(p) /\ Stays(p)
    BY <1>3, <2>2 DEF CreateEntry, TypeOK, ProcsTypeOK, Contexts, Alone, Stays, Applies,
                      ApplyCalls, SaveCalls
  <2> QED BY <1>3, <2>1, <2>2 DEF CreateEntry, FreshGuids, Keeps, storeVars, runVars
<1>4. CASE ConfigureEntry(p)
  BY <1>4, GotoStays DEF ConfigureEntry, Keeps, storeVars, runVars, Calls, ApplyCalls, SaveCalls
<1> QED BY <1>1, <1>2, <1>3, <1>4

(* Metadata, confirmation and undo. *)
LEMMA FinishKeeps ==
  ASSUME TypeOK, NEW p \in Procs,
         WriteMetadata(p) \/ ConfirmEntry(p) \/ UndoStore(p) \/ UndoStage(p)
  PROVE  Keeps(p)
<1>1. CASE WriteMetadata(p)
  BY <1>1, NextFileStays
     DEF WriteMetadata, Keeps, storeVars, runVars, Calls, ApplyCalls, SaveCalls
<1>2. CASE ConfirmEntry(p)
  BY <1>2, GotoStays, SaveStays
     DEF ConfirmEntry, Keeps, storeVars, runVars, Calls, ApplyCalls, SaveCalls, Statuses
<1>3. CASE UndoStore(p)
  BY <1>3, GotoStays DEF UndoStore, Keeps, storeVars, runVars, Calls, ApplyCalls, SaveCalls
<1>4. CASE UndoStage(p)
  BY <1>4, QuitIdle DEF UndoStage, Keeps, storeVars, runVars
<1> QED BY <1>1, <1>2, <1>3, <1>4

(* The calls of a rollback. *)
LEMMA RollbackKeeps ==
  ASSUME TypeOK, NEW p \in Procs, RollbackStep(p)
  PROVE  Keeps(p)
<1>1. CASE ReadMetadata(p)
  BY <1>1, GotoStays, SaveStays, QuitIdle
    
        DEF ReadMetadata, Keeps, storeVars, runVars, Calls, ApplyCalls, RollbackCalls,
            SaveCalls, Statuses
<1>2. CASE ImportBackup(p)
  BY <1>2, GotoStays, QuitIdle
     DEF ImportBackup, Keeps, storeVars, runVars, Calls, ApplyCalls, RollbackCalls, SaveCalls
<1>3. CASE Unstage(p)
  BY <1>3, GotoStays, QuitIdle
     DEF Unstage, Keeps, storeVars, runVars, Calls, ApplyCalls, RollbackCalls, SaveCalls
<1>4. CASE RemoveMetadata(p)
  BY <1>4, NextFileStays, SaveStays
    
        DEF RemoveMetadata, Keeps, storeVars, runVars, Calls, ApplyCalls, RollbackCalls,
            SaveCalls, Statuses
<1> QED BY <1>1, <1>2, <1>3, <1>4 DEF RollbackStep

(* The calls of a verification. *)
LEMMA VerifyKeeps ==
  ASSUME TypeOK, NEW p \in Procs, VerifyStep(p)
  PROVE  Keeps(p)
<1>1. ASSUME NEW call \in VerifyCalls, NEW artifacts, pc[p] \in VerifyCalls,
             Find(p, artifacts, call)
      PROVE  Alone(p) /\ Stays(p)
  BY <1>1 DEF Find, TypeOK, ProcsTypeOK, Contexts, Alone, Stays, Applies,
              VerifyCalls, ApplyCalls, SaveCalls
<1>2. CASE InspectArtifacts(p)
  BY <1>1, <1>2, QuitIdle DEF InspectArtifacts, Keeps, storeVars, runVars, VerifyCalls
<1>3. CASE StatStaged(p)
  <2>1. \E artifacts : Find(p, artifacts, "enum")
    BY <1>3 DEF StatStaged
  <2>2. Alone(p) /\ Stays(p)
    BY <1>1, <1>3, <2>1 DEF StatStaged, VerifyCalls
  <2> QED BY <1>3, <2>2 DEF StatStaged, Keeps, storeVars, runVars
<1>4. CASE EnumEntry(p)
  BY <1>1, <1>4 DEF EnumEntry, Keeps, storeVars, runVars, VerifyCalls
<1>5. CASE PrintReport(p)
  BY <1>5, QuitIdle DEF PrintReport, Keeps, storeVars, runVars
<1> QED BY <1>2, <1>3, <1>4, <1>5 DEF VerifyStep

(* The save of a journal. *)
LEMMA SaveKeeps ==
  ASSUME TypeOK, NEW p \in Procs, Truncate(p) \/ Write(p)
  PROVE  Keeps(p)
<1>1. CASE Truncate(p)
  BY <1>1, GotoStays DEF Truncate, TruncateJournal, runVars, Keeps, Calls, ApplyCalls, SaveCalls
<1>2. CASE Write(p)
  BY <1>2, QuitIdle DEF Write, FillJournal, runVars, Keeps
<1> QED BY <1>1, <1>2

(* So every step of a running command keeps its operation and its plan. *)
LEMMA RunningKeeps ==
  ASSUME TypeOK, NEW p \in Procs, Continue(p) \/ Abort(p)
  PROVE  Keeps(p)
<1>1. CASE Abort(p)
  BY <1>1, QuitIdle DEF Abort, Keeps, storeVars, runVars
<1> QED
  BY <1>1, CheckpointKeeps, StagingKeeps, FinishKeeps, RollbackKeeps, VerifyKeeps, SaveKeeps
     DEF Continue, ApplyStep

(* A process that takes a step of a command is running one. *)
LEMMA RunningBusy ==
  ASSUME NEW p \in Procs, Continue(p) \/ Abort(p)
  PROVE  pc[p] # "idle"
BY DEF Continue, ApplyStep, RollbackStep, VerifyStep, Abort,
       MakeEspDir, CopyEsp, ExportBcd, WriteManifest, StageWim, StageSdi, CreateEntry,
       ConfigureEntry, WriteMetadata, ConfirmEntry, UndoStore, UndoStage,
       ReadMetadata, ImportBackup, Unstage, RemoveMetadata, Truncate, Write,
       InspectArtifacts, StatStaged, EnumEntry, PrintReport

-----------------------------------------------------------------------------
(* The commands that start. *)
LEMMA ApplyStarts ==
  ASSUME TypeOK, NEW p \in Procs, NEW o \in Ops, NEW pl \in Plans, StartApply(p, o, pl)
  PROVE  /\ savedPlan' = [savedPlan EXCEPT ![o] = pl]
         /\ ran' = [ran EXCEPT ![o] = @ \union {pl}]
         /\ reissued' = IF savedPlan[o] = NoPlan THEN reissued ELSE reissued \union {o}
         /\ UNCHANGED <<journal, latest, manifest, recorded, hostVars, opVars>>
         /\ Alone(p)
         /\ pc[p] = "idle"
         /\ pc'[p] = "esp"
         /\ ctx'[p].op = o
         /\ ctx'[p].plan = pl
BY DEF StartApply, SavePlan, Begin, Opening, Alone, TypeOK, ProcsTypeOK

(* A command that loads the journal of o. *)
Loads(p, o) ==
  /\ Loadable(o)
  /\ UNCHANGED <<storeVars, hostVars, opVars>>
  /\ Alone(p)
  /\ pc[p] = "idle"
  /\ pc'[p] \in {"read-metadata", "inspect", "truncate"}
  /\ pc'[p] = "truncate" => ctx'[p].status = "repair-suggested"
  /\ ctx'[p].op = o
  /\ ctx'[p].plan = journal[o].plan
  /\ ctx'[p].found = {}

(* Rollback, verify and repair start from a journal that loads. *)
LEMMA CommandStarts ==
  ASSUME TypeOK, NEW p \in Procs,
         \/ \E o \in Ops : StartRollback(p, o) \/ StartVerify(p, o)
         \/ StartRepair(p)
  PROVE  \E o \in Ops : Loads(p, o)
<1>1. CASE StartRepair(p)
  <2>1. latest \in Ops
    BY <1>1 DEF StartRepair, TypeOK, StoreTypeOK
  <2>2. Loads(p, latest)
    BY <1>1, <2>1 DEF StartRepair, Loads, Begin, Opening, Alone, TypeOK, ProcsTypeOK
  <2> QED BY <2>1, <2>2
<1>2. ASSUME NEW o \in Ops, StartRollback(p, o) \/ StartVerify(p, o)
      PROVE  Loads(p, o)
  BY <1>2
     DEF StartRollback, StartVerify, Loads, Begin, Loaded, Opening, Alone, TypeOK,
         ProcsTypeOK
<1> QED BY <1>1, <1>2

(* Every step is one of these. *)
LEMMA StepKinds ==
  ASSUME TypeOK, [Next]_vars
  PROVE  \/ \E p \in Procs, o \in Ops, pl \in Plans : StartApply(p, o, pl)
         \/ \E p \in Procs, o \in Ops : Loads(p, o)
         \/ \E p \in Procs : Continue(p) \/ Abort(p)
         \/ UNCHANGED <<storeVars, opVars, procVars, stage, espCopy, bcdCopy, maker>>
            /\ bcd'.objects = bcd.objects /\ bcd'.shown = bcd.shown
<1>1. CASE UNCHANGED vars
  BY <1>1 DEF vars, hostVars
<1>2. ASSUME NEW d \in Loaders, OperatorSetsDefault(d)
      PROVE  /\ UNCHANGED <<storeVars, opVars, procVars, stage, espCopy, bcdCopy, maker>>
             /\ bcd'.objects = bcd.objects /\ bcd'.shown = bcd.shown
  BY <1>2 DEF OperatorSetsDefault, backupVars, TypeOK, HostTypeOK, Stores
<1> QED
  BY <1>1, <1>2, CommandStarts DEF Next, Start

-----------------------------------------------------------------------------
(* The conjuncts of Inv that say who works on which operation. *)
LEMMA PlanKnown ==
  ASSUME TypeOK, Remembered, Bound, NEW p \in Procs, pc[p] # "idle"
  PROVE  /\ ctx[p].op \in Ops /\ ctx[p].plan \in Plans
         /\ savedPlan[ctx[p].op] # NoPlan
         /\ ctx[p].op \in Unshared => savedPlan[ctx[p].op] = ctx[p].plan
BY DEF TypeOK, ProcsTypeOK, Bound, Remembered

(* What an apply finds under the identifier it gets: nothing, or the identifier
   is not in Unshared any more.  The other identifiers keep what they ran. *)
LEMMA FirstApply ==
  ASSUME TypeOK, Remembered, Bound, Journaled,
         NEW p \in Procs, NEW o \in Ops, NEW pl \in Plans, StartApply(p, o, pl)
  PROVE  /\ Unshared' \subseteq Unshared
         /\ o \in Unshared' =>
              /\ savedPlan[o] = NoPlan
              /\ o \notin recorded
              /\ \A q \in Procs : pc[q] # "idle" => ctx[q].op # o
         /\ \A r \in Ops \ {o} : savedPlan'[r] = savedPlan[r] /\ ran'[r] = ran[r]
         /\ savedPlan'[o] = pl /\ ran'[o] = ran[o] \union {pl}
<1>1. Unshared' \subseteq Unshared /\ (o \in Unshared' => savedPlan[o] = NoPlan)
  BY ApplyStarts DEF Unshared
<1>2. savedPlan[o] = NoPlan =>
        o \notin recorded /\ \A q \in Procs : pc[q] # "idle" => ctx[q].op # o
  BY PlanKnown DEF Journaled
<1> QED BY <1>1, <1>2, ApplyStarts DEF TypeOK, StoreTypeOK

(* Remembered is inductive. *)
LEMMA RememberedNext ==
  ASSUME TypeOK, Remembered, [Next]_vars
  PROVE  Remembered'
<1>1. ASSUME NEW p \in Procs, NEW o \in Ops, NEW pl \in Plans, StartApply(p, o, pl)
      PROVE  Remembered'
  <2>1. /\ \A r \in Ops \ {o} : /\ savedPlan'[r] = savedPlan[r] /\ ran'[r] = ran[r]
                                /\ r \in Unshared' <=> r \in Unshared
        /\ savedPlan'[o] = pl /\ ran'[o] = ran[o] \union {pl} /\ pl # NoPlan
        /\ o \in Unshared' => savedPlan[o] = NoPlan
    BY <1>1, ApplyStarts, PlansAssumption DEF TypeOK, StoreTypeOK, Unshared
  <2>2. o \in Unshared' => ran'[o] = {pl}
    BY <2>1 DEF Remembered
  <2>3. \A r \in Ops : (savedPlan[r] = NoPlan => ran[r] = {} /\ r \in Unshared)'
    BY <2>1 DEF Remembered
  <2>4. \A r \in Ops : (savedPlan[r] # NoPlan => savedPlan[r] \in ran[r])'
    BY <2>1 DEF Remembered
  <2>5. ASSUME NEW r \in Unshared', NEW x \in ran'[r]
        PROVE  x = savedPlan'[r]
    <3>1. r \in Ops
      BY DEF Unshared
    <3> QED BY <2>1, <2>2, <2>5, <3>1 DEF Remembered
  <2> QED BY <2>3, <2>4, <2>5 DEF Remembered
<1>2. ASSUME UNCHANGED <<savedPlan, ran, reissued>>
      PROVE  Remembered'
  BY <1>2 DEF Remembered, Unshared
<1>3. ASSUME NEW p \in Procs, NEW o \in Ops, Loads(p, o)
      PROVE  Remembered'
  BY <1>2, <1>3 DEF Loads, storeVars, runVars
<1>4. ASSUME NEW p \in Procs, Continue(p) \/ Abort(p)
      PROVE  Remembered'
  BY <1>2, <1>4, RunningKeeps DEF Keeps
<1>5. CASE UNCHANGED <<storeVars, opVars, procVars, stage, espCopy, bcdCopy, maker>>
  BY <1>2, <1>5 DEF storeVars, runVars
<1> QED BY <1>1, <1>3, <1>4, <1>5, StepKinds

(* Bound is inductive. *)
LEMMA BoundNext ==
  ASSUME TypeOK, Remembered, Bound, Journaled, [Next]_vars
  PROVE  Bound'
<1>1. ASSUME NEW p \in Procs, NEW o \in Ops, NEW pl \in Plans, StartApply(p, o, pl)
      PROVE  Bound'
  <2>1. \A r \in Ops : ran[r] \subseteq ran'[r]
    BY <1>1, FirstApply
  <2> QED BY <1>1, <2>1, ApplyStarts, FirstApply, PlanKnown DEF Bound, Alone
<1>2. ASSUME NEW p \in Procs, NEW o \in Ops, Loads(p, o)
      PROVE  Bound'
  BY <1>2 DEF Loads, Bound, Journaled, Alone, storeVars, runVars
<1>3. ASSUME NEW p \in Procs, Continue(p) \/ Abort(p)
      PROVE  Bound'
  BY <1>3, RunningKeeps DEF Keeps, Stays, Alone, Bound
<1>4. CASE UNCHANGED <<storeVars, opVars, procVars, stage, espCopy, bcdCopy, maker>>
  BY <1>4 DEF Bound, storeVars, runVars, procVars
<1> QED BY <1>1, <1>2, <1>3, <1>4, StepKinds

(* Owned is inductive. *)
LEMMA OwnedNext ==
  ASSUME TypeOK, Remembered, Bound, Owned, Journaled, [Next]_vars
  PROVE  Owned'
<1>1. ASSUME NEW p \in Procs, NEW o \in Ops, NEW pl \in Plans, StartApply(p, o, pl)
      PROVE  Owned'
  <2>1. /\ Unshared' \subseteq Unshared
        /\ o \in Unshared' => /\ o \notin recorded
                              /\ \A q \in Procs : pc[q] # "idle" => ctx[q].op # o
    BY <1>1, FirstApply
  <2>2. Alone(p) /\ pc'[p] = "esp" /\ ctx'[p].op = o /\ pc[p] = "idle" /\ recorded' = recorded
    BY <1>1, ApplyStarts
  <2>3. Applies(p)'
    BY <2>2 DEF Applies, ApplyCalls
  <2>4. \A q \in Procs \ {p} : Applies(q)' <=> Applies(q)
    BY <2>2 DEF Applies, Alone
  <2>5. o \in Unshared' => \A q \in Procs : pc'[q] # "idle" /\ ctx'[q].op = o => q = p
    BY <2>1, <2>2 DEF Alone
  <2>6. ASSUME NEW q \in Procs, NEW r \in Procs, Applies(q)', ctx'[q].op \in Unshared',
               pc'[r] # "idle", ctx'[r].op = ctx'[q].op
        PROVE  r = q
    <3>1. CASE q = p
      BY <2>2, <2>5, <2>6, <3>1
    <3>2. CASE q # p /\ r = p
      BY <2>1, <2>2, <2>4, <2>6, <3>2 DEF Alone, Applies, ApplyCalls, SaveCalls
    <3>3. CASE q # p /\ r # p
      BY <2>1, <2>2, <2>4, <2>6, <3>3 DEF Alone, Owned
    <3> QED BY <3>1, <3>2, <3>3
  <2>7. ASSUME NEW q \in Procs, Applies(q)', ctx'[q].op \in Unshared'
        PROVE  ctx'[q].op \notin recorded'
    BY <2>1, <2>2, <2>4, <2>7 DEF Alone, Owned
  <2>8. ASSUME NEW q \in Procs, pc'[q] # "idle", ~Applies(q)'
        PROVE  ctx'[q].op \in recorded'
    BY <2>2, <2>3, <2>4, <2>8 DEF Alone, Owned
  <2> QED BY <2>6, <2>7, <2>8 DEF Owned
<1>2. ASSUME NEW p \in Procs, NEW o \in Ops, Loads(p, o)
      PROVE  Owned'
  <2>1. o \in recorded /\ recorded' = recorded /\ Unshared' = Unshared
    BY <1>2 DEF Loads, Journaled, storeVars, runVars, Unshared
  <2>2. ~Applies(p)' /\ \A q \in Procs \ {p} : Applies(q)' <=> Applies(q)
    BY <1>2 DEF Loads, Applies, Alone, ApplyCalls, SaveCalls
  <2> QED BY <1>2, <2>1, <2>2 DEF Loads, Owned, Alone
<1>3. ASSUME NEW p \in Procs, Continue(p) \/ Abort(p)
      PROVE  Owned'
  <2>1. Keeps(p)
    BY <1>3, RunningKeeps
  <2>2. \A q \in Procs \ {p} : Applies(q)' <=> Applies(q)
    BY <2>1 DEF Keeps, Alone, Applies
  <2>3. pc'[p] = "idle" => ~Applies(p)'
    BY DEF Applies, ApplyCalls, SaveCalls
  <2>4. pc[p] # "idle"
    BY <1>3, RunningBusy
  <2>7. Unshared' = Unshared
    BY <2>1 DEF Keeps, Unshared
  <2>5. CASE recorded' = recorded
    BY <2>1, <2>2, <2>3, <2>5, <2>7 DEF Keeps, Stays, Alone, Owned
  <2>6. CASE recorded' = recorded \union {ctx[p].op} /\ pc'[p] = "idle"
    BY <2>1, <2>2, <2>3, <2>4, <2>6, <2>7 DEF Keeps, Alone, Owned
  <2> QED BY <2>1, <2>5, <2>6 DEF Keeps
<1>4. CASE UNCHANGED <<storeVars, opVars, procVars, stage, espCopy, bcdCopy, maker>>
  BY <1>4 DEF Owned, Applies, Unshared, storeVars, runVars, procVars
<1> QED BY <1>1, <1>2, <1>3, <1>4, StepKinds

(* Journaled is inductive. *)
LEMMA JournaledNext ==
  ASSUME TypeOK, Remembered, Bound, Owned, Journaled, [Next]_vars
  PROVE  Journaled'
<1>1. ASSUME NEW p \in Procs, NEW o \in Ops, NEW pl \in Plans, StartApply(p, o, pl)
      PROVE  Journaled'
  <2>1. /\ \A r \in Ops : ran[r] \subseteq ran'[r]
        /\ \A r \in Ops : savedPlan[r] # NoPlan => savedPlan'[r] # NoPlan
        /\ savedPlan'[o] # NoPlan
        /\ journal' = journal /\ recorded' = recorded /\ recorded \subseteq Ops
    BY <1>1, ApplyStarts, FirstApply, PlansAssumption DEF TypeOK, StoreTypeOK
  <2> QED BY <2>1 DEF Journaled, Loadable
<1>2. ASSUME NEW p \in Procs, NEW o \in Ops, Loads(p, o)
      PROVE  Journaled'
  BY <1>2 DEF Loads, Journaled, Loadable, storeVars, runVars
<1>3. ASSUME NEW p \in Procs, Continue(p) \/ Abort(p)
      PROVE  Journaled'
  <2>1. CASE Truncate(p)
    BY <2>1, FilesAssumption
       DEF Truncate, TruncateJournal, runVars, Journaled, Loadable, TypeOK, StoreTypeOK
  <2>2. CASE Write(p)
    <3>1. /\ ctx[p].op \in Ops
          /\ ctx[p].plan \in ran[ctx[p].op]
          /\ savedPlan[ctx[p].op] # NoPlan
      BY <2>2, PlanKnown DEF Write, Bound
    <3>2. journal' = [journal EXCEPT ![ctx[p].op] =
                        [status |-> ctx[p].status, plan |-> ctx[p].plan]]
      BY <2>2 DEF Write, FillJournal
    <3> QED BY <2>2, <3>1, <3>2
       DEF Write, FillJournal, runVars, Journaled, Loadable, TypeOK, StoreTypeOK
  <2>3. CASE ~Truncate(p) /\ ~Write(p)
    <3>1. journal' = journal /\ savedPlan' = savedPlan /\ ran' = ran /\ recorded' = recorded
      BY <1>3, <2>3
         DEF Continue, ApplyStep, RollbackStep, VerifyStep, Abort, MakeEspDir, CopyEsp,
             ExportBcd, WriteManifest, WriteBackupManifest, StageWim, StageSdi, CreateEntry,
             ConfigureEntry, WriteMetadata, ConfirmEntry, UndoStore, UndoStage,
             ReadMetadata, ImportBackup, Unstage, RemoveMetadata,
             InspectArtifacts, StatStaged, EnumEntry, PrintReport, storeVars, runVars
    <3> QED BY <3>1 DEF Journaled, Loadable
  <2> QED BY <2>1, <2>2, <2>3
<1>4. CASE UNCHANGED <<storeVars, opVars, procVars, stage, espCopy, bcdCopy, maker>>
  BY <1>4 DEF Journaled, Loadable, storeVars, runVars
<1> QED BY <1>1, <1>2, <1>3, <1>4, StepKinds

-----------------------------------------------------------------------------
(* Which step brought a process to the call it is at. *)
CameFrom(p) ==
  /\ pc'[p] # "esp"
  /\ pc'[p] = "robocopy" => MakeEspDir(p)
  /\ pc'[p] = "export" => CopyEsp(p) /\ espCopy' = [espCopy EXCEPT ![ctx[p].plan] = "complete"]
  /\ pc'[p] = "manifest" => ExportBcd(p)
  /\ pc'[p] = "stage-wim" => WriteManifest(p) /\ ctx[p].plan \in WinPePlans
  /\ pc'[p] = "stage-sdi" => StageWim(p)
  /\ pc'[p] = "create" => StageSdi(p)
  /\ pc'[p] = "configure" => CreateEntry(p)
  /\ pc'[p] = "metadata" => \/ ConfigureEntry(p) /\ ctx' = ctx
                            \/ WriteMetadata(p) /\ ctx'[p].step = ctx[p].step + 1
  /\ pc'[p] = "confirm" => WriteMetadata(p) /\ ctx[p].step = 7
  /\ pc'[p] = "undo-store" => CreateEntry(p) \/ ConfigureEntry(p) \/ ConfirmEntry(p)
  /\ pc'[p] = "undo-stage" => UndoStore(p)
  /\ pc'[p] # "read-metadata"
  /\ pc'[p] = "import" => ReadMetadata(p) /\ MetadataReadable(ctx[p].op)
  /\ pc'[p] = "unstage" => ImportBackup(p) /\ bcd' = bcdCopy[ctx[p].plan]
  /\ pc'[p] = "remove-metadata" => \/ Unstage(p) /\ ctx' = ctx
                                   \/ RemoveMetadata(p) /\ ctx'[p].step = ctx[p].step + 1
  /\ pc'[p] = "truncate" =>
       \/ WriteManifest(p) /\ ctx[p].plan \notin WinPePlans /\ ctx'[p].status = "checkpointed"
       \/ ConfirmEntry(p) /\ ctx'[p].status = "applied"
       \/ ReadMetadata(p) /\ ~HasEntryId(ctx[p].op) /\ ctx'[p].status = "rolled-back"
       \/ RemoveMetadata(p) /\ ctx[p].step = 7 /\ ctx'[p].status = "rolled-back"
  /\ pc'[p] = "write" => Truncate(p) /\ ctx'[p].status = ctx[p].status

(* Every call is reached from the calls before it only. *)
LEMMA Transitions ==
  ASSUME TypeOK, NEW p \in Procs, Continue(p) \/ Abort(p)
  PROVE  CameFrom(p)
<1> USE DEF TypeOK, ProcsTypeOK, CameFrom
<1>1. CASE MakeEspDir(p)
  BY <1>1 DEF MakeEspDir, Goto
<1>2. CASE CopyEsp(p)
  BY <1>2 DEF CopyEsp, Goto, Quit
<1>3. CASE ExportBcd(p)
  BY <1>3 DEF ExportBcd, Goto
<1>4. CASE WriteManifest(p)
  BY <1>4 DEF WriteManifest, Goto, GotoSave, Contexts
<1>5. CASE StageWim(p)
  BY <1>5 DEF StageWim, Goto, Quit
<1>6. CASE StageSdi(p)
  BY <1>6 DEF StageSdi, Goto
<1>7. CASE CreateEntry(p)
  BY <1>7 DEF CreateEntry, Goto, Contexts
<1>8. CASE ConfigureEntry(p)
  BY <1>8 DEF ConfigureEntry, Goto
<1>9. CASE WriteMetadata(p)
  BY <1>9 DEF WriteMetadata, Goto, NextFile, Contexts, Calls
<1>10. CASE ConfirmEntry(p)
  BY <1>10 DEF ConfirmEntry, Goto, GotoSave, Contexts
<1>11. CASE UndoStore(p)
  BY <1>11 DEF UndoStore, Goto
<1>12. CASE UndoStage(p)
  BY <1>12 DEF UndoStage, Goto, Quit
<1>13. CASE ReadMetadata(p)
  BY <1>13 DEF ReadMetadata, Goto, GotoSave, Quit, Contexts
<1>14. CASE ImportBackup(p)
  BY <1>14 DEF ImportBackup, ImportStore, Goto, Quit
<1>15. CASE Unstage(p)
  BY <1>15 DEF Unstage, Goto, Quit
<1>16. CASE RemoveMetadata(p)
  BY <1>16 DEF RemoveMetadata, Goto, NextFile, GotoSave, Contexts
<1>17. CASE Truncate(p)
  BY <1>17 DEF Truncate, Goto
<1>18. CASE Write(p)
  BY <1>18 DEF Write, Quit
<1>19. CASE InspectArtifacts(p)
  BY <1>19 DEF InspectArtifacts, Find, Quit
<1>20. CASE StatStaged(p)
  BY <1>20 DEF StatStaged, Find
<1>21. CASE EnumEntry(p)
  BY <1>21 DEF EnumEntry, Find
<1>22. CASE PrintReport(p)
  BY <1>22 DEF PrintReport, Quit
<1>23. CASE Abort(p)
  BY <1>23 DEF Abort, Quit
<1> QED
  BY <1>1, <1>2, <1>3, <1>4, <1>5, <1>6, <1>7, <1>8, <1>9, <1>10, <1>11, <1>12, <1>13, <1>14, <1>15, <1>16, <1>17, <1>18, <1>19, <1>20, <1>21, <1>22, <1>23
     DEF Continue, ApplyStep, RollbackStep, VerifyStep

-----------------------------------------------------------------------------
(* Which step changes what. *)
Changes(p) ==
  /\ files' # files => WriteMetadata(p) \/ RemoveMetadata(p)
  /\ maker' # maker => CreateEntry(p)
  /\ espCopy' # espCopy => MakeEspDir(p) \/ CopyEsp(p)
  /\ bcdCopy' # bcdCopy => ExportBcd(p)
  /\ manifest' # manifest => WriteManifest(p)
  /\ <<journal, recorded>>' # <<journal, recorded>> => Truncate(p) \/ Write(p)
  /\ bcd' # bcd => CreateEntry(p) \/ ConfigureEntry(p) \/ UndoStore(p) \/ ImportBackup(p)

(* Every variable is changed by the calls that name it only. *)
LEMMA Effects ==
  ASSUME NEW p \in Procs, Continue(p) \/ Abort(p)
  PROVE  Changes(p)
<1> USE DEF Changes, storeVars, runVars, hostVars, machineVars, backupVars, opVars
<1>1. CASE Abort(p)
  BY <1>1 DEF Abort
<1>2. CASE MakeEspDir(p) \/ CopyEsp(p) \/ ExportBcd(p) \/ WriteManifest(p)
  BY <1>2 DEF MakeEspDir, CopyEsp, ExportBcd, ExportStore, WriteManifest, WriteBackupManifest
<1>3. CASE StageWim(p) \/ StageSdi(p) \/ CreateEntry(p) \/ ConfigureEntry(p)
  BY <1>3 DEF StageWim, StageSdi, CreateEntry, CreateObject, ConfigureEntry, AddDisplayOrder,
              DeleteObject
<1>4. CASE WriteMetadata(p) \/ ConfirmEntry(p) \/ UndoStore(p) \/ UndoStage(p)
  BY <1>4 DEF WriteMetadata, ConfirmEntry, UndoStore, ImportStore, UndoStage
<1>5. CASE RollbackStep(p)
  BY <1>5 DEF RollbackStep, ReadMetadata, ImportBackup, ImportStore, Unstage, RemoveMetadata
<1>6. CASE VerifyStep(p)
  BY <1>6 DEF VerifyStep, InspectArtifacts, StatStaged, EnumEntry, PrintReport
<1>7. CASE Truncate(p) \/ Write(p)
  BY <1>7 DEF Truncate, TruncateJournal, Write, FillJournal
<1> QED
  BY <1>1, <1>2, <1>3, <1>4, <1>5, <1>6, <1>7 DEF Continue, ApplyStep

(* A step creates entries and files for its own operation only. *)
LEMMA OwnTraces ==
  ASSUME TypeOK, NEW p \in Procs, Continue(p) \/ Abort(p), NEW o \in Ops, o # ctx[p].op
  PROVE  files'[o] = files[o] /\ EntriesOf(o)' = EntriesOf(o)
<1>1. Changes(p)
  BY Effects
<1>2. files'[o] = files[o]
  <2>1. CASE WriteMetadata(p)
    BY <2>1 DEF WriteMetadata, TypeOK
  <2>2. CASE RemoveMetadata(p)
    BY <2>2 DEF RemoveMetadata, TypeOK
  <2> QED BY <1>1, <2>1, <2>2 DEF Changes
<1>3. EntriesOf(o)' = EntriesOf(o)
  <2>1. ASSUME NEW g \in FreshGuids, maker' = [maker EXCEPT ![g] = ctx[p].op]
        PROVE  EntriesOf(o)' = EntriesOf(o)
    <3>1. g \in Guids /\ maker[g] # o
      BY OpsAssumption DEF FreshGuids, NoOp
    <3> QED BY <2>1, <3>1 DEF EntriesOf, TypeOK, HostTypeOK
  <2>2. CASE maker' = maker
    BY <2>2 DEF EntriesOf
  <2>3. CASE CreateEntry(p)
    BY <2>1, <2>2, <2>3 DEF CreateEntry, CreateObject, hostVars
  <2> QED BY <1>1, <2>2, <2>3 DEF Changes
<1> QED BY <1>2, <1>3

(* Two processes never work on the operation one of them applies, unless two
   applies got its identifier. *)
LEMMA SoleWorker ==
  ASSUME Owned, NEW p \in Procs, NEW q \in Procs, p # q, pc[p] # "idle", Applies(q),
         ctx[q].op \in Unshared
  PROVE  ctx[q].op # ctx[p].op
BY DEF Owned

=============================================================================
