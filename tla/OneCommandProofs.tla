--------------------------- MODULE OneCommandProofs --------------------------
(***************************************************************************)
(* What holds when only one command runs at a time, for any number of      *)
(* operations, plans and boot entries: what apply reports as applied can   *)
(* boot, no undo takes entries of others along, and operations rolled back *)
(* in reverse order restore what was there before.                         *)
(***************************************************************************)
EXTENDS StackOrder, LifecycleTheorems

(* Configuring an entry takes none out of the store but that one, if it fails. *)
LEMMA Configured ==
  ASSUME TypeOK, NEW p \in Procs, ConfigureEntry(p)
  PROVE  bcd'.objects \in {bcd.objects, bcd.objects \ {ctx[p].entry}}
<1>1. bcd \in [objects : SUBSET Guids, shown : SUBSET Guids, default : Loaders]
  BY DEF TypeOK, HostTypeOK, Stores
<1>2. CASE bcd' = [bcd EXCEPT !.objects = @ \ {ctx[p].entry}, !.shown = @ \ {ctx[p].entry}]
  BY <1>1, <1>2
<1>3. CASE bcd' = [bcd EXCEPT !.shown = @ \union {ctx[p].entry}]
  BY <1>1, <1>3
<1>4. CASE bcd' = bcd
  BY <1>4
<1> QED BY <1>2, <1>3, <1>4 DEF ConfigureEntry, AddDisplayOrder, DeleteObject

(* Only the process that takes a step changes, and there is no other. *)
LEMMA Sole ==
  ASSUME OneProcess, NEW p \in Procs, NEW q \in Procs
  PROVE  q = p
BY DEF OneProcess

-----------------------------------------------------------------------------
(* Staged is inductive. *)
LEMMA StagedNext ==
  ASSUME Inv, OneProcess, Staged, [Next]_vars
  PROVE  Staged'
<1> USE DEF Inv, EntryCalls
<1>1. ASSUME NEW p \in Procs, NEW o \in Ops, NEW pl \in Plans, StartApply(p, o, pl)
      PROVE  Staged'
  <2>1. pc'[p] = "esp"
    BY <1>1, ApplyStarts
  <2> QED BY <2>1, Sole DEF Staged, Saves, SaveCalls
<1>2. ASSUME NEW p \in Procs, NEW o \in Ops, Loads(p, o)
      PROVE  Staged'
  BY <1>2, Sole DEF Loads, Staged, Saves, SaveCalls
<1>3. ASSUME NEW p \in Procs, Continue(p) \/ Abort(p)
      PROVE  Staged'
  <2>1. CameFrom(p) /\ (pc'[p] # "idle" => ctx'[p].plan = ctx[p].plan)
    BY <1>3, RunningKeeps, Transitions DEF Keeps, Stays
  <2>2. CASE pc'[p] = "stage-sdi"
    <3>1. stage'.wim = ctx[p].plan
      BY <2>1, <2>2 DEF CameFrom, StageWim, Quit, TypeOK, ProcsTypeOK, HostTypeOK, Stages
    <3> QED BY <2>1, <2>2, <3>1, Sole DEF Staged, Saves, SaveCalls
  <2>3. CASE pc'[p] = "create"
    <3>1. stage' = [wim |-> ctx[p].plan, sdi |-> TRUE]
      BY <2>1, <2>3 DEF CameFrom, StageSdi, Staged, TypeOK, HostTypeOK, Stages
    <3> QED BY <2>1, <2>3, <3>1, Sole DEF Staged, Saves, SaveCalls
  <2>4. CASE pc'[p] \in EntryCalls \/ Saves(p, "applied")'
    <3>1. /\ pc[p] \in {"create"} \union EntryCalls \/ Saves(p, "applied")
          /\ stage' = stage
      BY <2>1, <2>4
         DEF CameFrom, Saves, SaveCalls, CreateEntry, CreateObject, hostVars, ConfigureEntry,
             AddDisplayOrder, DeleteObject, WriteMetadata, ConfirmEntry, ReadMetadata,
             RemoveMetadata, WriteManifest, Truncate
    <3> QED BY <2>1, <2>4, <3>1, Sole DEF Staged, Saves, SaveCalls
  <2> QED BY <2>2, <2>3, <2>4, Sole DEF Staged
<1>4. CASE UNCHANGED <<storeVars, opVars, procVars, stage, espCopy, bcdCopy, maker>>
  BY <1>4 DEF Staged, Saves, procVars
<1> QED BY <1>1, <1>2, <1>3, <1>4, StepKinds

-----------------------------------------------------------------------------
(* An apply keeps the entry it works on, and it is the operation's. *)
LEMMA EntryOwned ==
  ASSUME TypeOK, NEW p \in Procs, Continue(p) \/ Abort(p),
         pc'[p] \in EntryCalls \ {"configure"} \/ Saves(p, "applied")'
  PROVE  /\ pc[p] \in EntryCalls \/ Saves(p, "applied")
         /\ ctx'[p].entry = ctx[p].entry /\ ctx'[p].op = ctx[p].op
         /\ maker' = maker
<1> USE DEF TypeOK, ProcsTypeOK, Contexts, EntryCalls
<1>1. CameFrom(p)
  BY Transitions
<1>2. CASE pc'[p] = "metadata"
  BY <1>1, <1>2 DEF CameFrom, ConfigureEntry, AddDisplayOrder, DeleteObject, WriteMetadata,
                    NextFile, hostVars
<1>3. CASE pc'[p] = "confirm"
  BY <1>1, <1>3 DEF CameFrom, WriteMetadata, NextFile, hostVars
<1>4. CASE Saves(p, "applied")'
  BY <1>1, <1>4 DEF CameFrom, Saves, SaveCalls, ConfirmEntry, GotoSave, Goto, Truncate, hostVars
<1> QED BY <1>2, <1>3, <1>4

(* InMenu is inductive. *)
LEMMA InMenuNext ==
  ASSUME Inv, OneProcess, InMenu, [Next]_vars
  PROVE  InMenu'
<1> USE DEF Inv
<1>1. ASSUME NEW p \in Procs, NEW o \in Ops, NEW pl \in Plans, StartApply(p, o, pl)
      PROVE  InMenu'
  <2>1. pc'[p] = "esp"
    BY <1>1, ApplyStarts
  <2> QED BY <2>1, Sole DEF InMenu, Saves, SaveCalls, EntryCalls
<1>2. ASSUME NEW p \in Procs, NEW o \in Ops, Loads(p, o)
      PROVE  InMenu'
  BY <1>2, Sole DEF Loads, InMenu, Saves, SaveCalls, EntryCalls
<1>3. ASSUME NEW p \in Procs, Continue(p) \/ Abort(p)
      PROVE  InMenu'
  <2>1. CameFrom(p)
    BY <1>3, Transitions
  <2>2. CASE pc'[p] = "configure"
    <3>1. CreateEntry(p)
      BY <2>1, <2>2 DEF CameFrom
    <3>2. PICK g \in FreshGuids : CreateObject(g, ctx[p].op) /\ ctx' = [ctx EXCEPT ![p].entry = g]
      BY <2>2, <3>1 DEF CreateEntry, Goto, TypeOK, ProcsTypeOK
    <3>3. /\ g \in Guids /\ ctx'[p].entry = g /\ ctx'[p].op = ctx[p].op
          /\ maker'[g] = ctx[p].op
      BY <3>2 DEF FreshGuids, CreateObject, TypeOK, ProcsTypeOK, Contexts, HostTypeOK
    <3>4. ctx'[p].entry \in EntriesOf(ctx[p].op)'
      BY <3>3 DEF EntriesOf
    <3> QED BY <2>2, <3>4, Sole DEF InMenu, Saves, SaveCalls, EntryCalls
  <2>3. CASE pc'[p] \in EntryCalls \ {"configure"} \/ Saves(p, "applied")'
    <3>1. /\ pc[p] \in EntryCalls \/ Saves(p, "applied")
          /\ ctx'[p].entry = ctx[p].entry /\ ctx'[p].op = ctx[p].op
          /\ maker' = maker
      BY <1>3, <2>3, EntryOwned
    <3>2. ctx'[p].entry \in EntriesOf(ctx[p].op)'
      BY <3>1 DEF InMenu, EntriesOf
    <3>3. ctx[p].entry \in bcd'.shown
      <4>1. CASE ConfigureEntry(p)
        <5>1. AddDisplayOrder(ctx[p].entry)
          BY <2>3, <4>1
             DEF ConfigureEntry, Goto, TypeOK, ProcsTypeOK, EntryCalls, Saves, SaveCalls
        <5> QED BY <5>1 DEF AddDisplayOrder, TypeOK, HostTypeOK, Stores
      <4>2. CASE ~ConfigureEntry(p)
        <5>1. pc[p] # "configure" /\ bcd' = bcd
          BY <2>1, <2>3, <4>2
             DEF CameFrom, EntryCalls, Saves, SaveCalls, WriteMetadata, ConfirmEntry, Truncate,
                 WriteManifest, ReadMetadata, RemoveMetadata, hostVars
        <5> QED BY <3>1, <5>1 DEF InMenu, EntryCalls
      <4> QED BY <4>1, <4>2
    <3> QED BY <2>3, <3>1, <3>2, <3>3, Sole DEF InMenu
  <2> QED BY <2>2, <2>3, Sole DEF InMenu, EntryCalls
<1>4. CASE /\ UNCHANGED <<storeVars, opVars, procVars, stage, espCopy, bcdCopy, maker>>
           /\ bcd'.shown = bcd.shown
  BY <1>4 DEF InMenu, Saves, EntriesOf, procVars
<1> QED BY <1>1, <1>2, <1>3, <1>4, StepKinds

(* UndoHarmless is inductive. *)
LEMMA UndoHarmlessNext ==
  ASSUME Inv, OneProcess, UndoHarmless, [Next]_vars
  PROVE  UndoHarmless'
<1> USE DEF Inv, EntryCalls
<1>1. ASSUME NEW p \in Procs, NEW o \in Ops, NEW pl \in Plans, StartApply(p, o, pl)
      PROVE  UndoHarmless'
  <2>1. pc'[p] = "esp"
    BY <1>1, ApplyStarts
  <2> QED BY <2>1, Sole DEF UndoHarmless
<1>2. ASSUME NEW p \in Procs, NEW o \in Ops, Loads(p, o)
      PROVE  UndoHarmless'
  BY <1>2, Sole DEF Loads, UndoHarmless
<1>3. ASSUME NEW p \in Procs, Continue(p) \/ Abort(p)
      PROVE  UndoHarmless'
  <2>1. CameFrom(p) /\ (pc'[p] # "idle" => ctx'[p].plan = ctx[p].plan)
    BY <1>3, RunningKeeps, Transitions DEF Keeps, Stays
  <2>2. CASE pc'[p] = "manifest"
    <3>1. bcdCopy' = [bcdCopy EXCEPT ![ctx[p].plan] = bcd] /\ bcd' = bcd /\ ctx[p].plan \in Plans
      BY <2>1, <2>2, PlanKnown DEF CameFrom, ExportBcd, ExportStore, machineVars
    <3> QED BY <2>1, <2>2, <3>1, Sole DEF UndoHarmless, TypeOK, HostTypeOK
  <2>3. CASE pc'[p] \in {"stage-wim", "stage-sdi", "create"}
    <3>1. pc[p] \in {"manifest", "stage-wim", "stage-sdi"} /\ bcd' = bcd /\ bcdCopy' = bcdCopy
      BY <2>1, <2>3 DEF CameFrom, WriteManifest, StageWim, StageSdi, hostVars, backupVars
    <3> QED BY <2>1, <2>3, <3>1, Sole DEF UndoHarmless
  <2>4. CASE pc'[p] \in EntryCalls \union {"undo-store"}
    <3>1. bcdCopy' = bcdCopy
      BY <2>1, <2>4 DEF CameFrom, CreateEntry, CreateObject, ConfigureEntry, AddDisplayOrder,
                        DeleteObject, WriteMetadata, ConfirmEntry, hostVars, backupVars
    <3>2. bcd'.objects \subseteq bcdCopy[ctx[p].plan].objects \union {ctx'[p].entry}
      <4>1. CASE CreateEntry(p)
        <5>1. bcd.objects \subseteq bcdCopy[ctx[p].plan].objects
          BY <4>1 DEF CreateEntry, UndoHarmless
        <5>2. CASE bcd' = bcd
          BY <5>1, <5>2
        <5>3. ASSUME NEW g \in FreshGuids, CreateObject(g, ctx[p].op),
                     ctx' = [ctx EXCEPT ![p].entry = g]
              PROVE  bcd'.objects = bcd.objects \union {g} /\ ctx'[p].entry = g
          BY <5>3 DEF CreateObject, TypeOK, ProcsTypeOK, Contexts, HostTypeOK, Stores
        <5> QED BY <4>1, <5>1, <5>2, <5>3 DEF CreateEntry, hostVars
      <4>2. CASE ~CreateEntry(p)
        <5>1. ConfigureEntry(p) \/ WriteMetadata(p) \/ ConfirmEntry(p)
          BY <2>1, <2>4, <4>2 DEF CameFrom
        <5>2. pc[p] \in EntryCalls
          BY <5>1 DEF ConfigureEntry, WriteMetadata, ConfirmEntry
        <5>3. ctx'[p].entry = ctx[p].entry
          BY <5>1 DEF ConfigureEntry, WriteMetadata, ConfirmEntry, Goto, GotoSave, NextFile,
                      TypeOK, ProcsTypeOK, Contexts
        <5>4. bcd'.objects \subseteq bcd.objects
          <6>1. CASE ConfigureEntry(p)
            BY <6>1, Configured
          <6>2. CASE WriteMetadata(p) \/ ConfirmEntry(p)
            BY <6>2 DEF WriteMetadata, ConfirmEntry, hostVars
          <6> QED BY <5>1, <6>1, <6>2
        <5> QED BY <5>2, <5>3, <5>4 DEF UndoHarmless
      <4> QED BY <4>1, <4>2
    <3> QED BY <2>1, <2>4, <3>1, <3>2, Sole DEF UndoHarmless
  <2> QED BY <2>2, <2>3, <2>4, Sole DEF UndoHarmless
<1>4. CASE /\ UNCHANGED <<storeVars, opVars, procVars, stage, espCopy, bcdCopy, maker>>
           /\ bcd'.objects = bcd.objects
  BY <1>4 DEF UndoHarmless, procVars
<1> QED BY <1>1, <1>2, <1>3, <1>4, StepKinds

(* Current is inductive. *)
LEMMA CurrentNext ==
  ASSUME Inv, OneProcess, Current, [Next]_vars
  PROVE  Current'
<1> USE DEF Inv
<1>1. ASSUME NEW p \in Procs, NEW o \in Ops, NEW pl \in Plans, StartApply(p, o, pl)
      PROVE  Current'
  BY <1>1, ApplyStarts, Sole DEF Current, TypeOK, StoreTypeOK
<1>2. ASSUME NEW p \in Procs, NEW o \in Ops, Loads(p, o)
      PROVE  Current'
  BY <1>2, Sole DEF Loads, Current, Applies, ApplyCalls, SaveCalls
<1>3. ASSUME NEW p \in Procs, Continue(p) \/ Abort(p)
      PROVE  Current'
  <2>1. Keeps(p)
    BY <1>3, RunningKeeps
  <2>2. pc'[p] = "idle" => ~Applies(p)'
    BY DEF Applies, ApplyCalls, SaveCalls
  <2> QED BY <2>1, <2>2, Sole DEF Keeps, Stays, Current
<1>4. CASE UNCHANGED <<storeVars, opVars, procVars, stage, espCopy, bcdCopy, maker>>
  BY <1>4 DEF storeVars, runVars, procVars, Current, Applies
<1> QED BY <1>1, <1>2, <1>3, <1>4, StepKinds

-----------------------------------------------------------------------------
(* The invariant of one command at a time holds in every reachable state. *)
THEOREM OneInvCorrect ==
  ASSUME OneProcess
  PROVE  Spec => []OneInv
<1>1. Init => OneInv
  BY DEF Init, OneInv, Staged, InMenu, UndoHarmless, Current, Applies, ApplyCalls, Saves,
         SaveCalls, EntryCalls
<1>2. Inv /\ OneInv /\ [Next]_vars => OneInv'
  BY StagedNext, InMenuNext, UndoHarmlessNext, CurrentNext DEF OneInv
<1> QED BY <1>1, <1>2, InvCorrect, PTL DEF Spec

(* What apply records as applied is in the boot menu, with the plan's own
   boot.wim and with boot.sdi staged (service.rs:230-254). *)
THEOREM AppliedIsBootableCorrect ==
  ASSUME OneProcess
  PROVE  Spec => AppliedIsBootable
<1> DEFINE Bootable(o) == /\ EntriesOf(o) \intersect bcd.shown # {}
                          /\ stage = [wim |-> savedPlan[o], sdi |-> TRUE]
           Reports(o) == o \in recorded' /\ o \notin recorded /\ journal'[o].status = "applied"
<1>1. ASSUME Inv, OneInv, [Next]_vars
      PROVE  \A o \in Ops : Reports(o) => Bootable(o)
  <2> SUFFICES ASSUME NEW o \in Ops, Reports(o)
               PROVE  Bootable(o)
    OBVIOUS
  <2> USE <1>1 DEF Inv
  <2>1. PICK p \in Procs : Continue(p) \/ Abort(p)
    BY StepKinds, ApplyStarts DEF Loads, storeVars, runVars
  <2>2. Write(p)
    BY <2>1, Effects DEF Changes, Truncate, TruncateJournal
  <2>3. /\ o = ctx[p].op
        /\ journal'[o] = [status |-> ctx[p].status, plan |-> ctx[p].plan]
        /\ pc[p] = "write"
    BY <2>2 DEF Write, FillJournal, TypeOK, StoreTypeOK
  <2>4. Saves(p, "applied") /\ savedPlan[o] = ctx[p].plan
    BY <2>3 DEF OneInv, Current, Applies, Saves, SaveCalls
  <2> QED BY <2>3, <2>4 DEF OneInv, Staged, InMenu
<1>2. Inv /\ OneInv /\ [Next]_vars => [\A o \in Ops : Reports(o) => Bootable(o)]_vars
  BY <1>1
<1> QED BY <1>2, InvCorrect, OneInvCorrect, PTL DEF Spec, AppliedIsBootable

(* Nothing but a rollback takes the entry of another operation out of the store:
   not the undo of a failed apply, though it imports a whole store
   (service.rs:459-466 and 479-489). *)
THEOREM OnlyRollbackUnregistersCorrect ==
  ASSUME OneProcess
  PROVE  Spec => OnlyRollbackUnregisters
<1> DEFINE Explained == \A g \in bcd.objects \ bcd'.objects :
                          \E p \in Procs : pc[p] = "import" \/ ctx[p].entry = g
<1>1. ASSUME Inv, OneInv, [Next]_vars
      PROVE  Explained
  <2> USE <1>1 DEF Inv
  <2>1. CASE bcd'.objects = bcd.objects
    BY <2>1
  <2>2. ASSUME NEW p \in Procs, Continue(p) \/ Abort(p), bcd'.objects # bcd.objects
        PROVE  Explained
    <3>1. CreateEntry(p) \/ ConfigureEntry(p) \/ UndoStore(p) \/ ImportBackup(p)
      BY <2>2, Effects DEF Changes
    <3>2. CASE CreateEntry(p)
      BY <3>2 DEF CreateEntry, CreateObject, hostVars, TypeOK, HostTypeOK, Stores
    <3>3. CASE ConfigureEntry(p)
      BY <3>3, Configured
    <3>4. CASE UndoStore(p)
      <4>1. bcd.objects \subseteq bcdCopy[ctx[p].plan].objects \union {ctx[p].entry}
        BY <3>4 DEF UndoStore, OneInv, UndoHarmless
      <4>2. bcd' = bcd \/ bcd' = bcdCopy[ctx[p].plan]
        BY <3>4 DEF UndoStore, ImportStore, hostVars
      <4> QED BY <4>1, <4>2
    <3>5. CASE ImportBackup(p)
      BY <3>5 DEF ImportBackup
    <3> QED BY <3>1, <3>2, <3>3, <3>4, <3>5
  <2> QED BY <2>1, <2>2, StepKinds, ApplyStarts DEF Loads, hostVars
<1>2. Inv /\ OneInv /\ [Next]_vars => [Explained]_vars
  BY <1>1
<1> QED BY <1>2, InvCorrect, OneInvCorrect, PTL DEF Spec, OnlyRollbackUnregisters

-----------------------------------------------------------------------------
(* The stack discipline.  It only ever does what Next allows. *)
LEMMA StackIsNext ==
  ASSUME [StackNext]_stackVars
  PROVE  [Next]_vars
BY DEF StackNext, StackStart, Next, Start, stackVars

(* Every step is one of these. *)
LEMMA StackKinds ==
  ASSUME Inv, [StackNext]_stackVars
  PROVE  \/ /\ \E p \in Procs, o \in Ops, pl \in Plans : StartApply(p, o, pl) /\ RunsOf(pl) = {}
            /\ undone' = undone
         \/ /\ \E p \in Procs, o \in Ops :
                 /\ Loads(p, o)
                 /\ pc'[p] = "read-metadata" => MayRollBack(o) /\ o \in undone'
            /\ undone \subseteq undone'
         \/ (\E p \in Procs : Continue(p) \/ Abort(p)) /\ undone' = undone
         \/ /\ UNCHANGED <<storeVars, opVars, procVars, stage, espCopy, bcdCopy, maker, undone>>
            /\ bcd'.objects = bcd.objects /\ bcd'.shown = bcd.shown
<1> USE DEF Inv
<1>1. CASE UNCHANGED stackVars
  BY <1>1 DEF stackVars, vars, hostVars
<1>2. ASSUME NEW d \in Loaders, OperatorSetsDefault(d), undone' = undone
      PROVE  /\ UNCHANGED <<storeVars, opVars, procVars, stage, espCopy, bcdCopy, maker, undone>>
             /\ bcd'.objects = bcd.objects /\ bcd'.shown = bcd.shown
  BY <1>2 DEF OperatorSetsDefault, backupVars, TypeOK, HostTypeOK, Stores
<1>3. ASSUME NEW p \in Procs, StartRepair(p) \/ \E o \in Ops : StartVerify(p, o)
      PROVE  \E o \in Ops : Loads(p, o) /\ pc'[p] # "read-metadata"
  <2>1. CASE StartRepair(p)
    <3>1. latest \in Ops
      BY <2>1 DEF StartRepair, TypeOK, StoreTypeOK
    <3>2. Loads(p, latest) /\ pc'[p] # "read-metadata"
      BY <2>1, <3>1 DEF StartRepair, Loads, Begin, Opening, Alone, TypeOK, ProcsTypeOK
    <3> QED BY <3>1, <3>2
  <2>2. ASSUME NEW o \in Ops, StartVerify(p, o)
        PROVE  Loads(p, o) /\ pc'[p] # "read-metadata"
    BY <2>2 DEF StartVerify, Loads, Begin, Loaded, Opening, Alone, TypeOK, ProcsTypeOK
  <2> QED BY <1>3, <2>1, <2>2
<1>4. ASSUME NEW p \in Procs, NEW o \in Ops, StartRollback(p, o)
      PROVE  Loads(p, o)
  BY <1>4 DEF StartRollback, Loads, Begin, Loaded, Opening, Alone, TypeOK, ProcsTypeOK
<1> QED BY <1>1, <1>2, <1>3, <1>4 DEF StackNext, StackStart

(* An apply gets an identifier above all used ones, so no identifier is given
   out twice. *)
LEMMA FreshStarts ==
  ASSUME TypeOK, ~ReuseIds,
         NEW p \in Procs, NEW o \in Ops, NEW pl \in Plans, StartApply(p, o, pl)
  PROVE  savedPlan[o] = NoPlan /\ reissued' = reissued
<1>1. \A used \in UsedOps : used < o
  BY DEF StartApply
<1>2. savedPlan[o] = NoPlan
  BY <1>1, OpsAssumption DEF UsedOps
<1> QED BY <1>2, ApplyStarts

(* Distinct is inductive. *)
LEMMA DistinctNext ==
  ASSUME Inv, ~ReuseIds, Distinct, [StackNext]_stackVars
  PROVE  Distinct'
<1> USE DEF Inv, Distinct
<1>1. ASSUME NEW p \in Procs, Continue(p) \/ Abort(p)
      PROVE  Distinct'
  BY <1>1, RunningKeeps DEF Keeps
<1> QED BY <1>1, StackKinds, FreshStarts DEF Loads, storeVars, runVars

(* Then an operation ran the plan saved with it, and no other. *)
LEMMA DistinctParts ==
  ASSUME Inv, Distinct
  PROVE  /\ Unshared = Ops
         /\ \A p \in Procs : pc[p] # "idle" =>
              /\ ctx[p].op \in Ops /\ ctx[p].plan \in Plans
              /\ savedPlan[ctx[p].op] = ctx[p].plan
         /\ \A o \in Ops, pl \in Plans : o \in RunsOf(pl) <=> savedPlan[o] = pl
<1>1. Unshared = Ops
  BY DEF Distinct, Unshared
<1>2. \A o \in Ops, pl \in Plans : pl \in ran[o] <=> savedPlan[o] = pl
  BY <1>1, PlansAssumption DEF Inv, Remembered
<1> QED BY <1>1, <1>2, PlanKnown DEF Inv, RunsOf

(* PlansOnce is inductive. *)
LEMMA PlansOnceNext ==
  ASSUME Inv, ~ReuseIds, Distinct, PlansOnce, [StackNext]_stackVars
  PROVE  PlansOnce'
<1> USE DEF Inv
<1>1. ASSUME NEW p \in Procs, NEW o \in Ops, NEW pl \in Plans, StartApply(p, o, pl), RunsOf(pl) = {}
      PROVE  PlansOnce'
  <2>1. /\ ran[o] = {} /\ ran' = [ran EXCEPT ![o] = @ \union {pl}]
        /\ bcdCopy' = bcdCopy
    BY <1>1, ApplyStarts, FreshStarts DEF Remembered, hostVars, backupVars
  <2>2. \A x \in Plans : RunsOf(x)' = IF x = pl THEN {o} ELSE RunsOf(x)
    BY <1>1, <2>1 DEF RunsOf, TypeOK, StoreTypeOK
  <2> QED BY <2>1, <2>2 DEF PlansOnce, AppliedOnce
<1>2. ASSUME NEW p \in Procs, NEW o \in Ops, Loads(p, o)
      PROVE  PlansOnce'
  BY <1>2 DEF Loads, storeVars, runVars, hostVars, backupVars, PlansOnce, AppliedOnce, RunsOf
<1>3. ASSUME NEW p \in Procs, Continue(p) \/ Abort(p)
      PROVE  PlansOnce'
  <2>1. /\ savedPlan' = savedPlan
        /\ \A pl \in Plans : RunsOf(pl)' = RunsOf(pl) /\ (AppliedOnce(pl)' <=> AppliedOnce(pl))
    BY <1>3, RunningKeeps DEF Keeps, RunsOf, AppliedOnce
  <2>2. CASE ExportBcd(p)
    <3>1. bcdCopy' = [bcdCopy EXCEPT ![ctx[p].plan] = bcd]
      BY <2>2 DEF ExportBcd, ExportStore
    <3>2. ctx[p].op \in RunsOf(ctx[p].plan)
      BY <1>3, RunningBusy, DistinctParts
    <3> QED BY <2>1, <3>1, <3>2 DEF PlansOnce, TypeOK, HostTypeOK
  <2>3. CASE ~ExportBcd(p)
    BY <1>3, <2>1, <2>3, Effects DEF Changes, PlansOnce
  <2> QED BY <2>2, <2>3
<1>4. CASE UNCHANGED <<storeVars, opVars, procVars, stage, espCopy, bcdCopy, maker>>
  BY <1>4 DEF storeVars, runVars, PlansOnce, AppliedOnce, RunsOf
<1> QED BY <1>1, <1>2, <1>3, <1>4, StackKinds

(* Newest is inductive. *)
LEMMA NewestNext ==
  ASSUME Inv, OneProcess, ~ReuseIds, Newest, [StackNext]_stackVars
  PROVE  Newest'
<1> USE DEF Inv
<1>1. ASSUME NEW p \in Procs, NEW o \in Ops, NEW pl \in Plans, StartApply(p, o, pl)
      PROVE  Newest'
  <2>1. /\ ctx'[p].op = o /\ \A used \in UsedOps : used < o
        /\ savedPlan' = [savedPlan EXCEPT ![o] = pl]
    BY <1>1, ApplyStarts DEF StartApply
  <2>2. UsedOps' \subseteq UsedOps \union {o}
    BY <2>1 DEF UsedOps, TypeOK, StoreTypeOK
  <2>3. UsedOps \subseteq Nat /\ o \in Nat
    BY OpsAssumption DEF UsedOps
  <2>4. \A used \in UsedOps' : used <= o
    BY <2>1, <2>2, <2>3
  <2> QED BY <2>1, <2>4, Sole DEF Newest
<1>2. ASSUME NEW p \in Procs, NEW o \in Ops, Loads(p, o)
      PROVE  Newest'
  BY <1>2, Sole DEF Loads, Newest, Applies, ApplyCalls, SaveCalls
<1>3. ASSUME NEW p \in Procs, Continue(p) \/ Abort(p)
      PROVE  Newest'
  <2>1. UsedOps' = UsedOps /\ (pc'[p] = "idle" \/ Stays(p))
    BY <1>3, RunningKeeps DEF Keeps, UsedOps
  <2>2. pc'[p] = "idle" => ~Applies(p)'
    BY DEF Applies, ApplyCalls, SaveCalls
  <2> QED BY <2>1, <2>2, Sole DEF Stays, Newest
<1>4. CASE UNCHANGED <<storeVars, opVars, procVars, stage, espCopy, bcdCopy, maker>>
  BY <1>4 DEF storeVars, runVars, procVars, Newest, Applies, UsedOps
<1> QED BY <1>1, <1>2, <1>3, <1>4, StackKinds

(* What an apply exports are entries of earlier operations. *)
LEMMA ExportsOlder ==
  ASSUME Inv, Distinct, Newest, NEW p \in Procs, pc[p] = "export", NEW g \in bcd.objects
  PROVE  maker[g] \in Ops /\ maker[g] < ctx[p].op
<1> USE DEF Inv
<1>1. g \in Guids /\ maker[g] \in Ops
  BY DEF TypeOK, HostTypeOK, Stores, FreshUnknown, FreshGuids
<1>2. savedPlan[maker[g]] # NoPlan /\ maker[g] # ctx[p].op
  BY <1>1, DistinctParts DEF Untouched, EntriesOf, EarlyCalls, CheckpointCalls
<1>3. maker[g] <= ctx[p].op
  BY <1>1, <1>2 DEF Newest, UsedOps, Applies, ApplyCalls
<1>4. ctx[p].op \in Nat /\ maker[g] \in Nat
  BY <1>1, OpsAssumption DEF TypeOK, ProcsTypeOK
<1> QED BY <1>1, <1>2, <1>3, <1>4

(* CopyOlder is inductive. *)
LEMMA CopyOlderNext ==
  ASSUME Inv, ~ReuseIds, Distinct, PlansOnce, Newest, CopyOlder, [StackNext]_stackVars
  PROVE  CopyOlder'
<1> USE DEF Inv
<1>1. ASSUME NEW p \in Procs, NEW o \in Ops, NEW pl \in Plans, StartApply(p, o, pl), RunsOf(pl) = {}
      PROVE  CopyOlder'
  <2>1. /\ savedPlan' = [savedPlan EXCEPT ![o] = pl]
        /\ bcdCopy' = bcdCopy /\ maker' = maker /\ bcdCopy[pl] = NoStore
    BY <1>1, ApplyStarts DEF hostVars, backupVars, PlansOnce
  <2> QED BY <2>1 DEF CopyOlder, UsedOps, TypeOK, StoreTypeOK
<1>2. ASSUME NEW p \in Procs, NEW o \in Ops, Loads(p, o)
      PROVE  CopyOlder'
  BY <1>2 DEF Loads, storeVars, runVars, hostVars, backupVars, CopyOlder, UsedOps
<1>3. ASSUME NEW p \in Procs, Continue(p) \/ Abort(p)
      PROVE  CopyOlder'
  <2>1. savedPlan' = savedPlan /\ Changes(p)
    BY <1>3, RunningKeeps, Effects DEF Keeps
  <2>2. SUFFICES ASSUME NEW o \in UsedOps, bcdCopy'[savedPlan[o]] # NoStore,
                        NEW g \in bcdCopy'[savedPlan[o]].objects
                 PROVE  maker'[g] < o
    BY <2>1 DEF CopyOlder, UsedOps
  <2>3. o \in Ops /\ savedPlan[o] \in Plans
    BY DEF UsedOps, TypeOK, StoreTypeOK
  <2>4. CASE ExportBcd(p)
    <3>1. /\ bcdCopy' = [bcdCopy EXCEPT ![ctx[p].plan] = bcd] /\ maker' = maker /\ pc[p] = "export"
      BY <2>4 DEF ExportBcd, ExportStore, machineVars
    <3>2. CASE savedPlan[o] = ctx[p].plan
      <4>1. o = ctx[p].op
        BY <3>1, <3>2, <2>3, DistinctParts DEF PlansOnce, AppliedOnce
      <4>2. g \in bcd.objects
        BY <2>3, <3>1, <3>2 DEF TypeOK, HostTypeOK
      <4> QED BY <3>1, <4>1, <4>2, ExportsOlder
    <3>3. CASE savedPlan[o] # ctx[p].plan
      BY <2>2, <2>3, <3>1, <3>3 DEF CopyOlder, TypeOK, HostTypeOK
    <3> QED BY <3>2, <3>3
  <2>5. CASE ~ExportBcd(p)
    <3>1. bcdCopy' = bcdCopy /\ maker[g] < o /\ g \notin FreshGuids
      BY <2>1, <2>2, <2>3, <2>5 DEF Changes, CopyOlder, FreshUnknown
    <3>2. CASE CreateEntry(p)
      <4>1. g \in Guids
        BY <2>2, <2>3, <3>1 DEF TypeOK, HostTypeOK, Stores
      <4> QED BY <3>1, <3>2, <4>1 DEF CreateEntry, CreateObject, hostVars, TypeOK, HostTypeOK
    <3>3. maker' = maker \/ CreateEntry(p)
      BY <2>1 DEF Changes
    <3> QED BY <3>1, <3>2, <3>3
  <2> QED BY <2>4, <2>5
<1>4. CASE UNCHANGED <<storeVars, opVars, procVars, stage, espCopy, bcdCopy, maker>>
  BY <1>4 DEF storeVars, runVars, CopyOlder, UsedOps
<1> QED BY <1>1, <1>2, <1>3, <1>4, StackKinds

(* InOrder is inductive. *)
LEMMA InOrderNext ==
  ASSUME Inv, OneProcess, ~ReuseIds, InOrder, [StackNext]_stackVars
  PROVE  InOrder'
<1> USE DEF Inv, RollbackCalls, Rolls
<1>1. ASSUME NEW p \in Procs, NEW o \in Ops, NEW pl \in Plans, StartApply(p, o, pl)
      PROVE  InOrder'
  <2>1. pc'[p] = "esp"
    BY <1>1, ApplyStarts
  <2> QED BY <2>1, Sole DEF InOrder
<1>2. ASSUME NEW p \in Procs, NEW o \in Ops, Loads(p, o),
             pc'[p] = "read-metadata" => MayRollBack(o) /\ o \in undone'
      PROVE  InOrder'
  BY <1>2, Sole DEF Loads, InOrder, MayRollBack, Loadable, HasStatus, storeVars, runVars
<1>3. ASSUME NEW p \in Procs, Continue(p) \/ Abort(p), undone' = undone
      PROVE  InOrder'
  <2>1. SUFFICES ASSUME pc'[p] \in RollbackCalls
                 PROVE  /\ Loadable(ctx[p].op)' /\ ctx'[p].op \in undone
                        /\ pc'[p] = "import" => HasEntryId(ctx[p].op)'
                        /\ MayRollBack(ctx[p].op)'
    BY <1>3, Sole DEF InOrder
  <2>2. ReadMetadata(p) \/ ImportBackup(p) \/ Unstage(p) \/ RemoveMetadata(p)
    BY <1>3, <2>1, Transitions DEF CameFrom
  <2>3. pc[p] \in RollbackCalls /\ journal' = journal
    BY <2>2 DEF ReadMetadata, ImportBackup, Unstage, RemoveMetadata, storeVars, runVars
  <2>4. ctx'[p].op = ctx[p].op
    BY <1>3, <2>1, RunningKeeps DEF Keeps, Stays
  <2>5. pc'[p] = "import" => HasEntryId(ctx[p].op) /\ files' = files
    BY <1>3, Transitions
       DEF CameFrom, MetadataReadable, HasEntryId, MetadataFiles, OpFiles, WriteOrder,
           ReadMetadata, opVars
  <2> QED BY <2>3, <2>4, <2>5 DEF InOrder, Loadable, MayRollBack, HasStatus, HasEntryId
<1>4. CASE UNCHANGED <<storeVars, opVars, procVars, stage, espCopy, bcdCopy, maker, undone>>
  BY <1>4
     DEF storeVars, runVars, opVars, procVars, InOrder, MayRollBack, Loadable, HasStatus,
         HasEntryId
<1> QED BY <1>1, <1>2, <1>3, <1>4, StackKinds

-----------------------------------------------------------------------------
(* An operation whose backup may be imported ran a plan that has one. *)
LEMMA RestorableKnown ==
  ASSUME Inv, Distinct, NEW r \in Ops, Restorable(r)
  PROVE  savedPlan[r] \in Plans /\ bcdCopy[savedPlan[r]] # NoStore
<1> USE DEF Inv
<1>1. CASE HasEntryId(r)
  <2>1. files[r] # {}
    BY <1>1 DEF HasEntryId
  <2>2. savedPlan[r] \in Plans
    BY <2>1 DEF Untouched, TypeOK, StoreTypeOK
  <2>3. Backup(savedPlan[r])
    BY <2>1, DistinctParts DEF Backed
  <2> QED BY <2>2, <2>3 DEF Backup
<1>2. ASSUME NEW p \in Procs, pc[p] # "idle", ctx[p].op = r,
             Applies(p), pc[p] \notin {"esp", "robocopy", "export"}
      PROVE  savedPlan[r] \in Plans /\ bcdCopy[savedPlan[r]] # NoStore
  BY <1>2, DistinctParts DEF Backed, Backup, CheckpointCalls
<1> QED BY <1>1, <1>2 DEF Restorable

(* No command but the export of its own apply makes an operation restorable. *)
LEMMA RestorableBefore ==
  ASSUME Inv, OneProcess, Distinct, NEW p \in Procs, Continue(p) \/ Abort(p),
         NEW r \in Ops, Restorable(r)'
  PROVE  Restorable(r) \/ (ExportBcd(p) /\ r = ctx[p].op)
<1> USE DEF Inv
<1>1. CameFrom(p) /\ Keeps(p) /\ Changes(p) /\ pc[p] # "idle" /\ ctx[p].op \in Ops
  BY Transitions, RunningKeeps, Effects, RunningBusy DEF TypeOK, ProcsTypeOK
<1>2. CASE HasEntryId(r)' /\ Loadable(r)'
  <2>1. CASE ~HasEntryId(r)
    <3>1. WriteMetadata(p) /\ r = ctx[p].op
      BY <1>1, <1>2, <2>1
         DEF Changes, HasEntryId, WriteMetadata, RemoveMetadata, TypeOK
    <3>2. Applies(p) /\ pc[p] = "metadata"
      BY <3>1 DEF WriteMetadata, Applies, ApplyCalls
    <3> QED BY <3>1, <3>2 DEF Restorable
  <2>2. CASE HasEntryId(r) /\ ~Loadable(r)
    <3>1. Write(p) /\ r = ctx[p].op
      BY <1>1, <1>2, <2>2, FilesAssumption
         DEF Changes, Loadable, Truncate, TruncateJournal, Write, FillJournal, TypeOK, StoreTypeOK
    <3>2. pc[p] = "write" /\ ctx[p].status \in Statuses
      BY <3>1 DEF Write, TypeOK, ProcsTypeOK, SaveCalls
    <3>3. ~Saves(p, "rolled-back")
      BY <2>2, <3>1, DistinctParts DEF Forgotten
    <3> QED BY <2>2, <3>1, <3>2, <3>3 DEF Restorable, Applies, Saves, SaveCalls, Statuses
  <2>3. CASE HasEntryId(r) /\ Loadable(r)
    BY <2>3 DEF Restorable
  <2> QED BY <2>1, <2>2, <2>3
<1>3. CASE /\ pc'[p] # "idle" /\ ctx'[p].op = r
           /\ Applies(p)' /\ pc'[p] \notin {"esp", "robocopy", "export"}
  <2>1. Applies(p) /\ ctx[p].op = r
    BY <1>1, <1>3 DEF Keeps, Stays
  <2>2. ExportBcd(p) \/ pc[p] \notin {"esp", "robocopy", "export"}
    BY <1>1, <1>3
       DEF CameFrom, Applies, ApplyCalls, SaveCalls, WriteManifest, StageWim, StageSdi,
           CreateEntry, ConfigureEntry, WriteMetadata, ConfirmEntry, UndoStore, ReadMetadata,
           RemoveMetadata, Truncate
  <2> QED BY <1>1, <2>1, <2>2 DEF Restorable
<1>4. CASE pc'[p] # "idle" /\ ctx'[p].op = r /\ Saves(p, "repair-suggested")' /\ HasEntryId(r)'
  <2>1. Truncate(p) /\ ctx'[p].status = ctx[p].status /\ ctx[p].op = r
    BY <1>1, <1>4 DEF CameFrom, Saves, SaveCalls, Keeps, Stays
  <2>2. pc[p] = "truncate" /\ files' = files
    BY <2>1 DEF Truncate, opVars
  <2> QED BY <1>4, <2>1, <2>2 DEF Restorable, Saves, SaveCalls, HasEntryId
<1> QED BY <1>2, <1>3, <1>4, Sole DEF Restorable

(* An operation that becomes undone has no entry, or its backup was just imported. *)
LEMMA UndoneBefore ==
  ASSUME Inv, OneProcess, Distinct, NEW p \in Procs, Continue(p) \/ Abort(p),
         NEW o \in Ops, Undone(o)'
  PROVE  \/ Undone(o)
         \/ EntriesOf(o)' = {}
         \/ /\ ImportBackup(p) /\ o = ctx[p].op
            /\ bcd' = bcdCopy[ctx[p].plan]
<1> USE DEF Inv
<1>1. CameFrom(p) /\ Keeps(p) /\ Changes(p) /\ pc[p] # "idle" /\ ctx[p].op \in Ops
  BY Transitions, RunningKeeps, Effects, RunningBusy DEF TypeOK, ProcsTypeOK
<1>2. CASE o \notin recorded
  <2>1. Write(p) /\ o = ctx[p].op /\ pc'[p] = "idle"
    BY <1>1, <1>2 DEF Undone, Changes, Keeps, Truncate, TruncateJournal
  <2>2. ~HasEntryId(o) /\ pc[p] = "write"
    BY <2>1, Sole DEF Undone, Write, HasEntryId, opVars
  <2>3. Applies(p)
    BY <1>1, <1>2, <2>1 DEF Owned
  <2>4. ~Saves(p, "applied")
    BY <1>1, <2>1, <2>2, DistinctParts DEF Written, HasEntryId, OpFiles, WriteOrder
  <2>5. EntriesOf(o) = {}
    BY <1>1, <2>1, <2>2, <2>3, <2>4, DistinctParts
       DEF Untouched, Applies, Saves, SaveCalls, ApplyCalls
  <2>6. maker' = maker
    BY <2>1 DEF Write, hostVars
  <2> QED BY <2>5, <2>6 DEF EntriesOf
<1>3. CASE o \in recorded /\ HasEntryId(o) /\ ~HasEntryId(o)'
  <2>1. RemoveMetadata(p) /\ o = ctx[p].op
    BY <1>1, <1>3 DEF Changes, HasEntryId, RemoveMetadata, WriteMetadata, TypeOK
  <2> QED BY <1>3, <2>1 DEF RemoveMetadata, Undone
<1>4. CASE /\ o \in recorded
           /\ pc'[p] \in {"unstage", "remove-metadata"} /\ ctx'[p].op = o
  <2>1. o = ctx[p].op
    BY <1>1, <1>4 DEF Keeps, Stays
  <2>2. CASE pc'[p] = "unstage"
    BY <1>1, <2>1, <2>2 DEF CameFrom
  <2>3. CASE pc'[p] = "remove-metadata"
    <3>1. pc[p] \in {"unstage", "remove-metadata"}
      BY <1>1, <2>3 DEF CameFrom, Unstage, RemoveMetadata
    <3> QED BY <1>4, <2>1, <3>1 DEF Undone
  <2> QED BY <1>4, <2>2, <2>3
<1> QED BY <1>2, <1>3, <1>4, Sole DEF Undone

(* A restore that a command under this discipline can make brings back no entry
   of an operation that is undone, and none of the operation it is for. *)
LEMMA ImportsClean ==
  ASSUME Inv, OneProcess, Distinct, Newest, InOrder, Gone,
         NEW p \in Procs, UndoStore(p) \/ ImportBackup(p),
         bcd' = bcdCopy[ctx[p].plan], NEW o \in Ops, Undone(o)
  PROVE  EntriesOf(o) \intersect bcd'.objects = {}
<1> USE DEF Inv
<1>1. pc[p] \in {"undo-store", "import"} /\ ctx[p].op \in Ops
  BY DEF UndoStore, ImportBackup, TypeOK, ProcsTypeOK
<1>2. CASE pc[p] = "undo-store"
  BY <1>1, <1>2, DistinctParts DEF Gone, Restorable, Applies, ApplyCalls
<1>3. CASE pc[p] = "import"
  BY <1>1, <1>3, DistinctParts DEF Gone, Restorable, InOrder, Rolls, RollbackCalls
<1> QED BY <1>1, <1>2, <1>3

(* Gone is inductive. *)
LEMMA GoneNext ==
  ASSUME Inv, OneProcess, ~ReuseIds, Distinct, Newest, CopyOlder, InOrder, Gone,
         [StackNext]_stackVars
  PROVE  Gone'
<1> USE DEF Inv
<1>1. ASSUME NEW p \in Procs, NEW o \in Ops, NEW pl \in Plans, StartApply(p, o, pl)
      PROVE  Gone'
  <2>1. /\ savedPlan[o] = NoPlan /\ savedPlan' = [savedPlan EXCEPT ![o] = pl]
        /\ journal' = journal /\ recorded' = recorded /\ bcd' = bcd /\ bcdCopy' = bcdCopy
        /\ maker' = maker /\ files' = files /\ pc'[p] = "esp"
    BY <1>1, ApplyStarts, FreshStarts DEF hostVars, opVars
  <2>2. ASSUME NEW r \in Ops, Restorable(r)'
        PROVE  Restorable(r) /\ r # o
    <3>1. HasEntryId(r) /\ Loadable(r)
      BY <2>1, <2>2, Sole DEF Restorable, HasEntryId, Loadable, Saves, SaveCalls
    <3> QED BY <2>1, <3>1 DEF Restorable, HasEntryId, Untouched
  <2>3. ASSUME NEW x \in Ops, Undone(x)'
        PROVE  Undone(x)
    BY <2>1, <2>3, Sole DEF Undone, HasEntryId
  <2> QED BY <2>1, <2>2, <2>3 DEF Gone, EntriesOf, TypeOK, StoreTypeOK
<1>2. ASSUME NEW p \in Procs, NEW o \in Ops, Loads(p, o)
      PROVE  Gone'
  <2>1. /\ Loadable(o) /\ pc'[p] \in {"read-metadata", "inspect", "truncate"}
        /\ pc'[p] = "truncate" => ctx'[p].status = "repair-suggested"
        /\ ctx'[p].op = o
        /\ UNCHANGED <<storeVars, hostVars, opVars>>
    BY <1>2 DEF Loads
  <2>2. ASSUME NEW r \in Ops, Restorable(r)'
        PROVE  Restorable(r)
    BY <2>1, <2>2, Sole
      
          DEF Restorable, HasEntryId, Loadable, Applies, ApplyCalls, SaveCalls, storeVars,
              runVars, opVars
  <2>3. ASSUME NEW x \in Ops, Undone(x)'
        PROVE  Undone(x)
    BY <2>1, <2>3, Sole DEF Undone, HasEntryId, storeVars, runVars, opVars
  <2> QED BY <2>1, <2>2, <2>3 DEF Gone, EntriesOf, storeVars, runVars, hostVars
<1>3. ASSUME NEW p \in Procs, Continue(p) \/ Abort(p)
      PROVE  Gone'
  <2>1. /\ Keeps(p) /\ Changes(p) /\ pc[p] # "idle" /\ ctx[p].op \in Ops
        /\ savedPlan[ctx[p].op] = ctx[p].plan
    BY <1>3, RunningKeeps, Effects, RunningBusy, DistinctParts
  <2>2. ASSUME NEW o \in Ops, Undone(o)
        PROVE  /\ EntriesOf(o)' = EntriesOf(o)
               /\ EntriesOf(o) \intersect bcd'.objects = {}
    <3>1. EntriesOf(o) \intersect bcd.objects = {} /\ o \in recorded
      BY <2>2 DEF Gone, Undone
    <3>2. CASE CreateEntry(p)
      <4>1. pc[p] = "create" /\ Applies(p)
        BY <3>2 DEF CreateEntry, Applies, ApplyCalls
      <4>2. o # ctx[p].op
        BY <2>1, <3>1, <4>1, DistinctParts DEF Owned
      <4>3. CASE bcd' = bcd
        BY <1>3, <3>1, <4>2, <4>3, OwnTraces
      <4>4. ASSUME NEW g \in FreshGuids, CreateObject(g, ctx[p].op)
            PROVE  EntriesOf(o) \intersect bcd'.objects = {}
        <5>1. g \notin EntriesOf(o)
          BY OpsAssumption DEF FreshGuids, EntriesOf, NoOp
        <5> QED BY <3>1, <4>4, <5>1 DEF CreateObject, TypeOK, HostTypeOK, Stores
      <4> QED BY <1>3, <3>2, <4>2, <4>3, <4>4, OwnTraces DEF CreateEntry, hostVars
    <3>3. CASE ~CreateEntry(p)
      <4>1. maker' = maker
        BY <2>1, <3>3 DEF Changes
      <4>2. CASE bcd' = bcd
        BY <3>1, <4>1, <4>2 DEF EntriesOf
      <4>3. CASE ConfigureEntry(p)
        <5>1. bcd'.objects \subseteq bcd.objects
          BY <4>3, Configured
        <5> QED BY <3>1, <4>1, <5>1 DEF EntriesOf
      <4>4. CASE (UndoStore(p) \/ ImportBackup(p)) /\ bcd' # bcd
        <5>1. bcd' = bcdCopy[ctx[p].plan]
          BY <4>4 DEF UndoStore, ImportBackup, ImportStore, hostVars
        <5>2. EntriesOf(o) \intersect bcd'.objects = {}
          BY <2>2, <4>4, <5>1, ImportsClean
        <5> QED BY <4>1, <5>2 DEF EntriesOf
      <4> QED BY <2>1, <3>3, <4>2, <4>3, <4>4 DEF Changes
    <3> QED BY <3>2, <3>3
  <2>3. ASSUME NEW o \in Ops, Undone(o), NEW r \in Ops, Restorable(r)'
        PROVE  EntriesOf(o) \intersect bcdCopy'[savedPlan[r]].objects = {}
    <3>1. CASE ExportBcd(p)
      <4>1. bcdCopy' = [bcdCopy EXCEPT ![ctx[p].plan] = bcd]
        BY <3>1 DEF ExportBcd, ExportStore
      <4>2. EntriesOf(o) \intersect bcd.objects = {}
        BY <2>3 DEF Gone
      <4>3. CASE savedPlan[r] = ctx[p].plan
        <5>1. ctx[p].plan \in Plans
          BY <2>1, PlanKnown
        <5> QED BY <4>1, <4>2, <4>3, <5>1 DEF TypeOK, HostTypeOK
      <4>4. CASE savedPlan[r] # ctx[p].plan
        <5>1. Restorable(r)
          BY <1>3, <2>1, <2>3, <4>4, RestorableBefore
        <5>2. savedPlan[r] \in Plans
          BY <5>1, RestorableKnown
        <5> QED BY <2>3, <4>1, <4>4, <5>1, <5>2 DEF Gone, TypeOK, HostTypeOK
      <4> QED BY <4>3, <4>4
    <3>2. CASE ~ExportBcd(p)
      <4>1. bcdCopy' = bcdCopy /\ Restorable(r)
        BY <1>3, <2>1, <2>3, <3>2, RestorableBefore DEF Changes
      <4> QED BY <2>3, <4>1 DEF Gone
    <3> QED BY <3>1, <3>2
  <2>4. ASSUME ImportBackup(p), bcd' = bcdCopy[ctx[p].plan], NEW o \in Ops, o = ctx[p].op
        PROVE  /\ EntriesOf(o)' \intersect bcd'.objects = {}
               /\ \A r \in Ops :
                    Restorable(r)' => EntriesOf(o)' \intersect bcdCopy'[savedPlan[r]].objects = {}
    <3>1. pc[p] = "import" /\ maker' = maker /\ bcdCopy' = bcdCopy
      BY <2>4 DEF ImportBackup, ImportStore, backupVars, hostVars
    <3>2. Restorable(o) /\ MayRollBack(o) /\ ~ExportBcd(p)
      BY <2>1, <2>4, <3>1 DEF InOrder, Rolls, RollbackCalls, Restorable, ExportBcd
    <3>3. ASSUME NEW x \in Ops, Restorable(x), x <= o
          PROVE  EntriesOf(o)' \intersect bcdCopy[savedPlan[x]].objects = {}
      <4>1. x \in UsedOps /\ bcdCopy[savedPlan[x]] # NoStore /\ o \in Nat /\ x \in Nat
        BY <3>3, RestorableKnown, PlansAssumption, OpsAssumption DEF UsedOps
      <4>2. \A g \in bcdCopy[savedPlan[x]].objects : maker[g] < x
        BY <4>1 DEF CopyOlder
      <4>3. \A g \in EntriesOf(o)' : maker[g] = o
        BY <3>1 DEF EntriesOf
      <4> QED BY <3>3, <4>1, <4>2, <4>3
    <3>4. ASSUME NEW r \in Ops, Restorable(r), r > o
          PROVE  FALSE
      <4>1. r # o
        BY <3>4, OpsAssumption
      <4>2. HasEntryId(r) /\ Loadable(r)
        BY <2>4, <3>4, <4>1, Sole DEF Restorable
      <4>3. HasStatus(r, "rolled-back")
        BY <3>2, <3>4, <4>2 DEF MayRollBack
      <4> QED BY <4>2, <4>3, DistinctParts DEF RolledBackForgotten
    <3>5. \A r \in Ops : Restorable(r) => r <= o
      BY <3>4, OpsAssumption
    <3>6. \A r \in Ops : Restorable(r)' => Restorable(r)
      BY <1>3, <3>2, RestorableBefore
    <3>7. EntriesOf(o)' \intersect bcdCopy[savedPlan[o]].objects = {}
      BY <3>2, <3>3, <3>5
    <3> QED BY <2>1, <2>4, <3>1, <3>3, <3>5, <3>6, <3>7
  <2>5. ASSUME NEW o \in Ops, Undone(o)'
        PROVE  /\ EntriesOf(o)' \intersect bcd'.objects = {}
               /\ \A r \in Ops :
                    Restorable(r)' => EntriesOf(o)' \intersect bcdCopy'[savedPlan[r]].objects = {}
    <3>1. CASE Undone(o)
      BY <3>1, <2>2, <2>3
    <3>2. CASE EntriesOf(o)' = {}
      BY <3>2
    <3>3. CASE ImportBackup(p) /\ o = ctx[p].op /\ bcd' = bcdCopy[ctx[p].plan]
      BY <2>4, <3>3
    <3> QED BY <1>3, <2>5, <3>1, <3>2, <3>3, UndoneBefore
  <2> QED BY <2>1, <2>5 DEF Gone, Keeps
<1>4. CASE /\ UNCHANGED <<storeVars, opVars, procVars, stage, espCopy, bcdCopy, maker, undone>>
           /\ bcd'.objects = bcd.objects
  BY <1>4 DEF Gone, Undone, Restorable, Applies, Saves, HasEntryId, Loadable, EntriesOf,
              storeVars, runVars, opVars, procVars
<1> QED BY <1>1, <1>2, <1>3, <1>4, StackKinds

-----------------------------------------------------------------------------
(* Noted is inductive. *)
LEMMA NotedNext ==
  ASSUME Inv, OneProcess, ~ReuseIds, Noted, [StackNext]_stackVars
  PROVE  Noted'
<1> USE DEF Inv
<1>1. ASSUME NEW p \in Procs, NEW o \in Ops, NEW pl \in Plans, StartApply(p, o, pl)
      PROVE  Noted'
  <2>1. pc'[p] = "esp"
    BY <1>1, ApplyStarts
  <2> QED BY <2>1, Sole DEF Noted, Saves, SaveCalls
<1>2. ASSUME NEW p \in Procs, NEW o \in Ops, Loads(p, o)
      PROVE  Noted'
  BY <1>2, Sole DEF Loads, Noted, Saves, SaveCalls
<1>3. ASSUME NEW p \in Procs, Continue(p) \/ Abort(p)
      PROVE  Noted'
  <2>1. CameFrom(p)
    BY <1>3, Transitions
  <2>2. SUFFICES ASSUME \/ pc'[p] = "metadata" /\ ctx'[p].step > 2
                        \/ pc'[p] = "confirm"
                        \/ Saves(p, "applied")'
                 PROVE  entryId'[ctx'[p].op] = ctx'[p].entry
    BY Sole DEF Noted
  <2>3. ctx'[p].entry = ctx[p].entry /\ ctx'[p].op = ctx[p].op
    BY <1>3, <2>2, EntryOwned DEF EntryCalls
  <2>4. CASE WriteMetadata(p)
    <3>1. /\ pc[p] = "metadata" /\ ctx[p].step \in 1..7 /\ ctx[p].op \in Ops
          /\ entryId' = IF WriteOrder[ctx[p].step] = "entry-id.txt"
                        THEN [entryId EXCEPT ![ctx[p].op] = ctx[p].entry]
                        ELSE entryId
      BY <2>4 DEF WriteMetadata, TypeOK, ProcsTypeOK, Contexts
    <3>2. ctx[p].step >= 2
      <4>1. CASE pc'[p] = "metadata" /\ ctx'[p].step > 2
        <5>1. ctx'[p].step = ctx[p].step + 1
          BY <2>1, <2>4, <4>1 DEF CameFrom, WriteMetadata, ConfigureEntry
        <5> QED BY <3>1, <4>1, <5>1
      <4>2. CASE pc'[p] = "confirm"
        BY <2>1, <4>2 DEF CameFrom
      <4>3. CASE Saves(p, "applied")'
        BY <2>1, <3>1, <4>3 DEF CameFrom, Saves, SaveCalls, WriteManifest, ConfirmEntry,
                                ReadMetadata, RemoveMetadata, Truncate
      <4> QED BY <2>2, <4>1, <4>2, <4>3
    <3>3. CASE ctx[p].step = 2
      <4>1. WriteOrder[2] = "entry-id.txt"
        BY DEF WriteOrder
      <4> QED BY <2>3, <3>1, <3>3, <4>1 DEF TypeOK
    <3>4. CASE ctx[p].step > 2
      BY <2>3, <3>1, <3>4 DEF WriteOrder, Noted
    <3> QED BY <3>1, <3>2, <3>3, <3>4
  <2>5. CASE ~WriteMetadata(p)
    <3>1. ConfirmEntry(p) \/ (Truncate(p) /\ ctx'[p].status = ctx[p].status)
      <4>1. CASE pc'[p] = "metadata" /\ ctx'[p].step > 2
        BY <2>1, <2>5, <4>1 DEF CameFrom, ConfigureEntry, FirstFile, SaveCalls
      <4>2. CASE Saves(p, "applied")'
        BY <2>1, <4>2 DEF CameFrom, Saves, SaveCalls
      <4> QED BY <2>1, <2>2, <2>5, <4>1, <4>2 DEF CameFrom
    <3>2. entryId' = entryId
      BY <3>1 DEF ConfirmEntry, Truncate, opVars
    <3>3. pc[p] = "confirm" \/ Saves(p, "applied")
      BY <2>2, <3>1 DEF ConfirmEntry, Truncate, Goto, Saves, SaveCalls, TypeOK, ProcsTypeOK
    <3> QED BY <2>3, <3>2, <3>3 DEF Noted
  <2> QED BY <2>4, <2>5
<1>4. CASE UNCHANGED <<storeVars, opVars, procVars, stage, espCopy, bcdCopy, maker, undone>>
  BY <1>4 DEF Noted, Saves, opVars, procVars
<1> QED BY <1>1, <1>2, <1>3, <1>4, StackKinds

(* Only WriteMetadata writes entry-id.txt. *)
LEMMA EntryIdKept ==
  ASSUME NEW p \in Procs, Continue(p) \/ Abort(p), ~WriteMetadata(p)
  PROVE  entryId' = entryId
BY DEF Continue, ApplyStep, RollbackStep, VerifyStep, Abort, opVars,
       MakeEspDir, CopyEsp, ExportBcd, WriteManifest, StageWim, StageSdi, CreateEntry,
       ConfigureEntry, ConfirmEntry, UndoStore, UndoStage,
       ReadMetadata, ImportBackup, Unstage, RemoveMetadata, Truncate, Write,
       InspectArtifacts, StatStaged, EnumEntry, PrintReport

(* Kept is inductive. *)
LEMMA KeptNext ==
  ASSUME Inv, OneProcess, ~ReuseIds, Distinct, InMenu, PlansOnce, Newest, InOrder, Noted, Kept,
         [StackNext]_stackVars
  PROVE  Kept'
<1> USE DEF Inv
<1>1. ASSUME NEW p \in Procs, NEW o \in Ops, NEW pl \in Plans,
             StartApply(p, o, pl), RunsOf(pl) = {}, undone' = undone
      PROVE  Kept'
  <2>1. /\ savedPlan' = [savedPlan EXCEPT ![o] = pl]
        /\ journal' = journal /\ bcd' = bcd /\ bcdCopy' = bcdCopy /\ maker' = maker
        /\ entryId' = entryId /\ bcdCopy[pl] = NoStore
    BY <1>1, ApplyStarts DEF hostVars, opVars, PlansOnce
  <2> QED BY <1>1, <2>1
          DEF Kept, HasStatus, Loadable, EntriesOf, UsedOps, TypeOK, StoreTypeOK
<1>2. ASSUME NEW p \in Procs, NEW o \in Ops, Loads(p, o), undone \subseteq undone'
      PROVE  Kept'
  BY <1>2
     DEF Loads, Kept, HasStatus, Loadable, EntriesOf, UsedOps, storeVars, runVars, hostVars,
         opVars
<1>3. ASSUME NEW p \in Procs, Continue(p) \/ Abort(p), undone' = undone
      PROVE  Kept'
  <2>1. /\ Keeps(p) /\ Changes(p) /\ pc[p] # "idle" /\ ctx[p].op \in Ops
        /\ savedPlan' = savedPlan /\ savedPlan[ctx[p].op] = ctx[p].plan
        /\ ctx[p].plan \in Plans
    BY <1>3, RunningKeeps, Effects, RunningBusy, DistinctParts DEF Keeps
  <2>2. SUFFICES ASSUME NEW o \in Ops, HasStatus(o, "applied")', o \notin undone
                 PROVE  /\ entryId'[o] \in EntriesOf(o)' \intersect bcd'.shown
                        /\ \A r \in UsedOps :
                             r > o /\ bcdCopy'[savedPlan[r]] # NoStore
                             => entryId'[o] \in bcdCopy'[savedPlan[r]].shown
    BY <1>3, <2>1 DEF Kept, UsedOps
  <2>3. CASE HasStatus(o, "applied")
    <3>1. /\ entryId[o] \in EntriesOf(o) \intersect bcd.shown
          /\ \A r \in UsedOps :
               r > o /\ bcdCopy[savedPlan[r]] # NoStore => entryId[o] \in bcdCopy[savedPlan[r]].shown
      BY <2>2, <2>3 DEF Kept
    <3>2. o \in recorded /\ o \in UsedOps
      BY <2>3 DEF HasStatus, Journaled, UsedOps
    <3>3. Applies(p) => ctx[p].op > o /\ ctx[p].op \in UsedOps
      <4>1. Applies(p) => o <= ctx[p].op /\ ctx[p].op # o
        BY <2>1, <3>2, DistinctParts DEF Newest, Owned
      <4>2. ctx[p].op \in UsedOps
        BY <2>1, PlansAssumption DEF UsedOps
      <4>3. o \in Nat /\ ctx[p].op \in Nat
        BY <2>1, OpsAssumption
      <4> QED BY <4>1, <4>2, <4>3
    <3>4. entryId'[o] = entryId[o]
      <4>1. CASE WriteMetadata(p)
        <5>1. Applies(p)
          BY <4>1 DEF WriteMetadata, Applies, ApplyCalls
        <5>2. ctx[p].op # o
          BY <3>3, <5>1, OpsAssumption
        <5> QED BY <4>1, <5>2 DEF WriteMetadata, TypeOK
      <4>2. CASE ~WriteMetadata(p)
        BY <1>3, <4>2, EntryIdKept
      <4> QED BY <4>1, <4>2
    <3>5. EntriesOf(o)' = EntriesOf(o)
      <4>1. CASE CreateEntry(p)
        <5>1. Applies(p)
          BY <4>1 DEF CreateEntry, Applies, ApplyCalls
        <5> QED BY <1>3, <3>3, <5>1, OwnTraces, OpsAssumption
      <4>2. CASE ~CreateEntry(p)
        BY <2>1, <4>2 DEF Changes, EntriesOf
      <4> QED BY <4>1, <4>2
    <3>6. entryId[o] \in bcd'.shown
      <4>1. CASE bcd' = bcd
        BY <3>1, <4>1
      <4>2. CASE CreateEntry(p)
        BY <3>1, <4>2 DEF CreateEntry, CreateObject, hostVars, TypeOK, HostTypeOK, Stores
      <4>3. CASE ConfigureEntry(p)
        <5>1. pc[p] = "configure" /\ Applies(p)
          BY <4>3 DEF ConfigureEntry, Applies, ApplyCalls
        <5>2. ctx[p].entry \in EntriesOf(ctx[p].op) /\ ctx[p].op # o
          BY <3>3, <5>1, OpsAssumption DEF InMenu, EntryCalls
        <5>3. ctx[p].entry # entryId[o]
          BY <3>1, <5>2 DEF EntriesOf
        <5> QED BY <3>1, <4>3, <5>3
                DEF ConfigureEntry, AddDisplayOrder, DeleteObject, TypeOK, HostTypeOK, Stores
      <4>4. CASE UndoStore(p) /\ bcd' # bcd
        <5>1. bcd' = bcdCopy[ctx[p].plan] /\ bcdCopy[ctx[p].plan] # NoStore /\ Applies(p)
          BY <4>4 DEF UndoStore, ImportStore, hostVars, Applies, ApplyCalls
        <5> QED BY <2>1, <3>1, <3>3, <5>1
      <4>5. CASE ImportBackup(p) /\ bcd' # bcd
        <5>1. bcd' = bcdCopy[ctx[p].plan] /\ bcdCopy[ctx[p].plan] # NoStore /\ pc[p] = "import"
          BY <4>5 DEF ImportBackup, ImportStore, hostVars
        <5>2. ctx[p].op \in undone /\ MayRollBack(ctx[p].op)
          BY <5>1 DEF InOrder, Rolls, RollbackCalls
        <5>3. ~(o > ctx[p].op)
          BY <2>3, <5>2 DEF MayRollBack, HasStatus
        <5>4. ctx[p].op > o /\ ctx[p].op \in UsedOps
          BY <2>1, <2>2, <5>2, <5>3, OpsAssumption, PlansAssumption DEF UsedOps
        <5>5. bcdCopy[savedPlan[ctx[p].op]] # NoStore
          BY <2>1, <5>1
        <5>6. entryId[o] \in bcdCopy[savedPlan[ctx[p].op]].shown
          BY <3>1, <5>4, <5>5
        <5> QED BY <2>1, <5>1, <5>6
      <4> QED BY <2>1, <4>1, <4>2, <4>3, <4>4, <4>5 DEF Changes
    <3>7. ASSUME NEW r \in UsedOps, r > o, bcdCopy'[savedPlan[r]] # NoStore
          PROVE  entryId[o] \in bcdCopy'[savedPlan[r]].shown
      <4>1. CASE ExportBcd(p)
        <5>1. bcdCopy' = [bcdCopy EXCEPT ![ctx[p].plan] = bcd]
          BY <4>1 DEF ExportBcd, ExportStore
        <5>2. savedPlan[r] \in Plans
          BY DEF UsedOps, TypeOK, StoreTypeOK
        <5> QED BY <3>1, <3>7, <5>1, <5>2 DEF TypeOK, HostTypeOK
      <4>2. CASE ~ExportBcd(p)
        BY <2>1, <3>1, <3>7, <4>2 DEF Changes
      <4> QED BY <4>1, <4>2
    <3> QED BY <3>1, <3>4, <3>5, <3>6, <3>7
  <2>4. CASE ~HasStatus(o, "applied")
    <3>1. Write(p) /\ o = ctx[p].op
      BY <2>1, <2>2, <2>4, FilesAssumption
         DEF Changes, HasStatus, Loadable, Truncate, TruncateJournal, Write, FillJournal,
             TypeOK, StoreTypeOK
    <3>2. Saves(p, "applied")
      BY <2>2, <3>1 DEF HasStatus, Write, FillJournal, Saves, SaveCalls, TypeOK, StoreTypeOK
    <3>3. /\ entryId[o] = ctx[p].entry
          /\ ctx[p].entry \in EntriesOf(o) /\ ctx[p].entry \in bcd.shown
      BY <3>1, <3>2 DEF Noted, InMenu
    <3>4. UNCHANGED <<hostVars, opVars>>
      BY <3>1 DEF Write
    <3>5. Applies(p)
      BY <3>2 DEF Applies, Saves
    <3>6. \A r \in UsedOps : ~(r > o)
      BY <3>1, <3>5, OpsAssumption DEF Newest, UsedOps
    <3> QED BY <3>3, <3>4, <3>6 DEF hostVars, opVars, EntriesOf
  <2> QED BY <2>3, <2>4
<1>4. CASE /\ UNCHANGED <<storeVars, opVars, procVars, stage, espCopy, bcdCopy, maker, undone>>
           /\ bcd'.shown = bcd.shown
  BY <1>4 DEF Kept, HasStatus, Loadable, EntriesOf, UsedOps, storeVars, runVars, opVars
<1> QED BY <1>1, <1>2, <1>3, <1>4, StackKinds

-----------------------------------------------------------------------------
(* StackInv holds initially. *)
LEMMA StackInvInit ==
  ASSUME ~ReuseIds, StackInit
  PROVE  StackInv
<1>1. Inv
  BY InvInit DEF StackInit
<1>2. OneInv
  BY DEF StackInit, Init, OneInv, Staged, InMenu, UndoHarmless, Current, Applies, ApplyCalls,
         Saves, SaveCalls, EntryCalls
<1>3. Distinct /\ PlansOnce /\ Newest /\ CopyOlder /\ InOrder
  BY PlansAssumption
    
        DEF StackInit, Init, StoreInit, HostInit, Distinct, PlansOnce, AppliedOnce, RunsOf,
            Newest, Applies,
         ApplyCalls, SaveCalls, CopyOlder, UsedOps, InOrder, Rolls, RollbackCalls
<1>4. Gone /\ Noted /\ Kept
  BY FilesAssumption
     DEF StackInit, Init, StoreInit, Gone, Undone, Noted, Saves, SaveCalls, Kept, HasStatus,
         Loadable
<1> QED BY <1>1, <1>2, <1>3, <1>4 DEF StackInv

(* StackInv is inductive. *)
LEMMA StackInvNext ==
  ASSUME OneProcess, ~ReuseIds, StackInv, [StackNext]_stackVars
  PROVE  StackInv'
<1>1. [Next]_vars
  BY StackIsNext
<1>2. Inv' /\ OneInv'
  BY <1>1, InvNext, StagedNext, InMenuNext, UndoHarmlessNext, CurrentNext DEF StackInv, OneInv
<1>3. Distinct' /\ PlansOnce' /\ Newest' /\ CopyOlder' /\ InOrder'
  BY DistinctNext, PlansOnceNext, NewestNext, CopyOlderNext, InOrderNext DEF StackInv
<1>4. Gone' /\ Noted' /\ Kept'
  BY GoneNext, NotedNext, KeptNext DEF StackInv, OneInv
<1> QED BY <1>2, <1>3, <1>4 DEF StackInv

(* The invariant of the stack discipline holds in every state it can reach. *)
THEOREM StackInvCorrect ==
  ASSUME OneProcess, ~ReuseIds
  PROVE  StackSpec => []StackInv
<1>1. StackInit => StackInv
  BY StackInvInit
<1>2. StackInv /\ [StackNext]_stackVars => StackInv'
  BY StackInvNext
<1> QED BY <1>1, <1>2, PTL DEF StackSpec

(* Rolled back in reverse order, an operation recorded as rolled back has no
   entry left in the store, however many were applied (boot-flow.md:57). *)
THEOREM RolledBackEntriesGoneCorrect ==
  ASSUME OneProcess, ~ReuseIds
  PROVE  StackSpec => []RolledBackEntriesGone
<1>1. StackInv => RolledBackEntriesGone
  BY DistinctParts
     DEF StackInv, Inv, RolledBackEntriesGone, Gone, Undone, RolledBackForgotten, HasStatus,
         Journaled
<1> QED BY <1>1, StackInvCorrect, PTL

(* Rolled back in reverse order, the restores of later operations leave the
   entry of an applied operation in the boot menu (service.rs:326-333). *)
THEOREM AppliedEntryStaysCorrect ==
  ASSUME OneProcess, ~ReuseIds
  PROVE  StackSpec => []AppliedEntryStays
<1>1. StackInv => AppliedEntryStays
  BY DEF StackInv, AppliedEntryStays, Kept
<1> QED BY <1>1, StackInvCorrect, PTL

=============================================================================
