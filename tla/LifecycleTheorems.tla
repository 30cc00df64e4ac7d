-------------------------- MODULE LifecycleTheorems --------------------------
(***************************************************************************)
(* The other conjuncts of Inv, and with them the safety properties of      *)
(* Lifecycle as theorems about every number of processes, operations,      *)
(* plans and boot entries, whichever identifiers are given out twice.      *)
(***************************************************************************)
EXTENDS LifecycleProofs

(* Untouched is inductive. *)
LEMMA UntouchedNext ==
  ASSUME TypeOK, Remembered, Bound, Owned, Journaled, Untouched, [Next]_vars
  PROVE  Untouched'
<1>1. ASSUME NEW p \in Procs, NEW o \in Ops, NEW pl \in Plans, StartApply(p, o, pl)
      PROVE  Untouched'
  <2>1. /\ Unshared' \subseteq Unshared
        /\ o \in Unshared' => savedPlan[o] = NoPlan
        /\ \A r \in Ops : EntriesOf(r)' = EntriesOf(r)
        /\ files' = files
        /\ Alone(p) /\ pc'[p] = "esp" /\ ctx'[p].op = o
        /\ \A r \in Ops \ {o} : savedPlan'[r] = savedPlan[r]
        /\ savedPlan'[o] # NoPlan
    BY <1>1, ApplyStarts, FirstApply, PlansAssumption DEF EntriesOf, hostVars, opVars
  <2>2. \A q \in Procs \ {p} : Saves(q, "checkpointed")' <=> Saves(q, "checkpointed")
    BY <2>1 DEF Saves, Alone
  <2>3. ~Saves(p, "checkpointed")'
    BY <2>1 DEF Saves, SaveCalls
  <2>4. \A q \in Procs : pc[q] \in EarlyCalls \/ Saves(q, "checkpointed") => ctx[q].op \in Ops
    BY DEF TypeOK, ProcsTypeOK, EarlyCalls, CheckpointCalls, Saves, SaveCalls
  <2> QED BY <2>1, <2>2, <2>3, <2>4 DEF Untouched, Alone
<1>2. ASSUME NEW p \in Procs, NEW o \in Ops, Loads(p, o)
      PROVE  Untouched'
  <2>1. \A r \in Ops : EntriesOf(r)' = EntriesOf(r)
    BY <1>2 DEF Loads, EntriesOf, hostVars
  <2>2. \A q \in Procs \ {p} : Saves(q, "checkpointed")' <=> Saves(q, "checkpointed")
    BY <1>2 DEF Loads, Saves, Alone
  <2>3. ~Saves(p, "checkpointed")' /\ pc'[p] \notin EarlyCalls
    BY <1>2 DEF Loads, Saves, SaveCalls, EarlyCalls, CheckpointCalls
  <2>4. \A q \in Procs : pc[q] \in EarlyCalls \/ Saves(q, "checkpointed") => ctx[q].op \in Ops
    BY DEF TypeOK, ProcsTypeOK, EarlyCalls, CheckpointCalls, Saves, SaveCalls
  <2> QED BY <1>2, <2>1, <2>2, <2>3, <2>4
     DEF Loads, Untouched, Unshared, Alone, storeVars, runVars, opVars
<1>3. ASSUME NEW p \in Procs, Continue(p) \/ Abort(p)
      PROVE  Untouched'
  <2>1. Keeps(p) /\ CameFrom(p) /\ Changes(p) /\ pc[p] # "idle"
    BY <1>3, RunningKeeps, Transitions, Effects, RunningBusy
  <2>2. /\ ctx[p].op \in Ops /\ savedPlan[ctx[p].op] # NoPlan /\ savedPlan' = savedPlan
        /\ Unshared' = Unshared
    BY <2>1, PlanKnown DEF Keeps, Unshared
  <2>3. \A o \in Ops : savedPlan'[o] = NoPlan => EntriesOf(o)' = {} /\ files'[o] = {}
    BY <1>3, <2>2, OwnTraces DEF Untouched
  <2>4. ASSUME NEW q \in Procs, ctx'[q].op \in Unshared',
               (pc[q] \in EarlyCalls \/ Saves(q, "checkpointed"))'
        PROVE  (EntriesOf(ctx[q].op) = {} /\ files[ctx[q].op] = {})'
    <3>1. CASE q = p
      <4>1. /\ pc[p] \in EarlyCalls \/ Saves(p, "checkpointed")
            /\ ctx'[p].op = ctx[p].op
            /\ ~CreateEntry(p) /\ ~WriteMetadata(p) /\ ~RemoveMetadata(p)
        BY <2>1, <2>4, <3>1
           DEF CameFrom, Keeps, Stays, EarlyCalls, CheckpointCalls, Saves, SaveCalls,
               MakeEspDir, CopyEsp, ExportBcd, WriteManifest, StageWim, StageSdi, CreateEntry,
               WriteMetadata, RemoveMetadata, ConfirmEntry, ReadMetadata, Truncate
      <4>2. files' = files /\ maker' = maker
        BY <2>1, <4>1 DEF Changes
      <4> QED BY <2>2, <2>4, <3>1, <4>1, <4>2 DEF Untouched, EntriesOf
    <3>2. CASE q # p
      <4>1. /\ pc[q] \in EarlyCalls \/ Saves(q, "checkpointed")
            /\ ctx'[q] = ctx[q]
        BY <2>1, <2>4, <3>2 DEF Keeps, Alone, Saves
      <4>2. Applies(q)
        BY <4>1 DEF Applies, EarlyCalls, CheckpointCalls, ApplyCalls, Saves
      <4>3. ctx[q].op \in Ops /\ ctx[q].op # ctx[p].op
        BY <2>1, <2>2, <2>4, <3>2, <4>1, <4>2, SoleWorker
           DEF TypeOK, ProcsTypeOK, Applies, ApplyCalls, SaveCalls
      <4> QED BY <1>3, <2>2, <2>4, <4>1, <4>3, OwnTraces DEF Untouched
    <3> QED BY <3>1, <3>2
  <2> QED BY <2>3, <2>4 DEF Untouched
<1>4. CASE UNCHANGED <<storeVars, opVars, procVars, stage, espCopy, bcdCopy, maker>>
  BY <1>4 DEF Untouched, Unshared, EntriesOf, Saves, storeVars, runVars, opVars, procVars
<1> QED BY <1>1, <1>2, <1>3, <1>4, StepKinds

-----------------------------------------------------------------------------
(* What a running process has written or removed. *)
LEMMA KindFitsNext ==
  ASSUME TypeOK, KindFits, [Next]_vars
  PROVE  KindFits'
<1> USE DEF ApplyCalls, CheckpointCalls, SaveCalls
<1>1. ASSUME NEW p \in Procs, NEW o \in Ops, NEW pl \in Plans, StartApply(p, o, pl)
      PROVE  KindFits'
  <2>1. Alone(p) /\ pc'[p] = "esp"
    BY <1>1, ApplyStarts
  <2> QED BY <2>1 DEF KindFits, Alone, Saves
<1>2. ASSUME NEW p \in Procs, NEW o \in Ops, Loads(p, o)
      PROVE  KindFits'
  BY <1>2 DEF Loads, KindFits, Alone, Saves
<1>3. ASSUME NEW p \in Procs, Continue(p) \/ Abort(p)
      PROVE  KindFits'
  <2>1. Keeps(p) /\ CameFrom(p)
    BY <1>3, RunningKeeps, Transitions
  <2>2. ASSUME NEW q \in Procs, q # p
        PROVE  /\ pc'[q] \in ApplyCalls \ CheckpointCalls \/ Saves(q, "applied")'
                    => ctx'[q].plan \in WinPePlans
               /\ Saves(q, "checkpointed")' => ctx'[q].plan \notin WinPePlans
    BY <2>1, <2>2 DEF Keeps, Alone, KindFits, Saves
  <2>3. pc'[p] \in ApplyCalls \ CheckpointCalls => ctx'[p].plan \in WinPePlans
    BY <2>1 DEF CameFrom, Keeps, Stays, KindFits, StageWim, StageSdi, CreateEntry,
                ConfigureEntry, WriteMetadata, ConfirmEntry, UndoStore
  <2>4. Saves(p, "applied")' => ctx'[p].plan \in WinPePlans
    BY <2>1 DEF CameFrom, Keeps, Stays, KindFits, Saves, ConfirmEntry, Truncate
  <2>5. Saves(p, "checkpointed")' => ctx'[p].plan \notin WinPePlans
    BY <2>1 DEF CameFrom, Keeps, Stays, KindFits, Saves, Truncate
  <2> QED BY <2>2, <2>3, <2>4, <2>5 DEF KindFits
<1>4. CASE UNCHANGED <<storeVars, opVars, procVars, stage, espCopy, bcdCopy, maker>>
  BY <1>4 DEF KindFits, Saves, procVars
<1> QED BY <1>1, <1>2, <1>3, <1>4, StepKinds

(* A process that ends, goes to another call or goes to save is at the first
   file, or saves. *)
LEMMA FirstFileMoves ==
  ASSUME TypeOK, FirstFile, NEW p \in Procs,
         \/ Quit(p)
         \/ \E status \in Statuses : GotoSave(p, status)
         \/ /\ ctx[p].step = 1
            /\ \E call \in Calls : Goto(p, call)
  PROVE  FirstFile'
<1> USE DEF TypeOK, ProcsTypeOK, FirstFile
<1>1. CASE Quit(p)
  BY <1>1 DEF Quit, NoContext, Opening
<1>2. CASE \E status \in Statuses : GotoSave(p, status)
  BY <1>2 DEF GotoSave, SaveCalls
<1>3. CASE ctx[p].step = 1 /\ \E call \in Calls : Goto(p, call)
  BY <1>3 DEF Goto
<1> QED BY <1>1, <1>2, <1>3

(* FirstFile is inductive. *)
LEMMA FirstFileNext ==
  ASSUME TypeOK, FirstFile, [Next]_vars
  PROVE  FirstFile'
<1>1. ASSUME NEW p \in Procs, Continue(p) \/ Abort(p)
      PROVE  FirstFile'
  <2> DEFINE Moves == \/ Quit(p)
                      \/ \E status \in Statuses : GotoSave(p, status)
                      \/ /\ ctx[p].step = 1
                         /\ \E call \in Calls : Goto(p, call)
  <2>0. ASSUME Moves PROVE FirstFile'
    BY <2>0, FirstFileMoves
  <2>1. ASSUME pc[p] \notin {"metadata", "remove-metadata"} \union SaveCalls
        PROVE  ctx[p].step = 1
    BY <2>1 DEF FirstFile
  <2> USE DEF SaveCalls, Calls, ApplyCalls, RollbackCalls, VerifyCalls, Statuses
  <2>2. CASE \/ MakeEspDir(p) \/ CopyEsp(p) \/ ExportBcd(p) \/ StageWim(p)
             \/ StageSdi(p) \/ ConfigureEntry(p) \/ UndoStore(p) \/ UndoStage(p)
    <3>1. Moves
      BY <2>1, <2>2 DEF MakeEspDir, CopyEsp, ExportBcd, StageWim, StageSdi, ConfigureEntry,
                        UndoStore, UndoStage
    <3> QED BY <2>0, <3>1
  <2>3. CASE WriteManifest(p) \/ ConfirmEntry(p) \/ ReadMetadata(p) \/ ImportBackup(p) \/ Unstage(p)
    <3>1. Moves
      BY <2>1, <2>3 DEF WriteManifest, ConfirmEntry, ReadMetadata, ImportBackup, Unstage
    <3> QED BY <2>0, <3>1
  <2>4. CASE Write(p) \/ PrintReport(p) \/ Abort(p)
    <3>1. Moves
      BY <2>4 DEF Write, PrintReport, Abort
    <3> QED BY <2>0, <3>1
  <2> HIDE DEF Moves
  <2> USE DEF TypeOK, ProcsTypeOK, FirstFile
  <2>5. CASE CreateEntry(p)
    BY <1>1, <2>5 DEF CreateEntry, Goto, Contexts
  <2>6. CASE WriteMetadata(p)
    BY <1>1, <2>6 DEF WriteMetadata, Goto, NextFile, Contexts
  <2>7. CASE RemoveMetadata(p)
    BY <1>1, <2>7 DEF RemoveMetadata, Goto, NextFile, GotoSave, Contexts
  <2>8. CASE Truncate(p)
    BY <1>1, <2>8 DEF Truncate, Goto, Contexts
  <2>9. CASE InspectArtifacts(p)
    <3>1. CASE Quit(p)
      BY <3>1 DEF Quit, NoContext, Opening
    <3>2. CASE \E artifacts : Find(p, artifacts, "stat")
      BY <2>9, <3>2 DEF InspectArtifacts, Find, Contexts
    <3> QED BY <2>9, <3>1, <3>2 DEF InspectArtifacts
  <2>10. CASE StatStaged(p)
    BY <1>1, <2>10 DEF StatStaged, Find, Contexts
  <2>11. CASE EnumEntry(p)
    BY <1>1, <2>11 DEF EnumEntry, Find, Contexts
  <2> QED
    BY <1>1, <2>2, <2>3, <2>4, <2>5, <2>6, <2>7, <2>8, <2>9, <2>10, <2>11
       DEF Continue, ApplyStep, RollbackStep, VerifyStep
<1>2. ASSUME NEW p \in Procs, Start(p)
      PROVE  FirstFile'
  BY <1>2 DEF Start, StartApply, StartRollback, StartVerify, StartRepair, Begin, Loaded, Opening,
              FirstFile, TypeOK, ProcsTypeOK
<1>3. CASE UNCHANGED procVars
  BY <1>3 DEF procVars, FirstFile
<1> QED BY <1>1, <1>2, <1>3 DEF Next, OperatorSetsDefault, vars

(* Written is inductive. *)
LEMMA WrittenNext ==
  ASSUME TypeOK, Remembered, Bound, Owned, Journaled, FirstFile, Written, [Next]_vars
  PROVE  Written'
<1> USE DEF SaveCalls
<1>1. ASSUME NEW p \in Procs, NEW o \in Ops, NEW pl \in Plans, StartApply(p, o, pl)
      PROVE  Written'
  <2>1. Alone(p) /\ pc'[p] = "esp" /\ files' = files /\ Unshared' \subseteq Unshared
    BY <1>1, ApplyStarts, FirstApply DEF opVars
  <2> QED BY <2>1 DEF Written, Alone, Saves
<1>2. ASSUME NEW p \in Procs, NEW o \in Ops, Loads(p, o)
      PROVE  Written'
  BY <1>2 DEF Loads, Written, Unshared, Alone, Saves, storeVars, runVars, opVars
<1>3. ASSUME NEW p \in Procs, Continue(p) \/ Abort(p)
      PROVE  Written'
  <2>1. Keeps(p) /\ CameFrom(p) /\ Changes(p) /\ pc[p] # "idle"
    BY <1>3, RunningKeeps, Transitions, Effects, RunningBusy
  <2>0. Unshared' = Unshared
    BY <2>1 DEF Keeps, Unshared
  <2>2. ASSUME NEW q \in Procs, q # p, ctx'[q].op \in Unshared',
               (pc[q] = "metadata" \/ pc[q] = "confirm" \/ Saves(q, "applied"))'
        PROVE  /\ pc'[q] = pc[q] /\ ctx'[q] = ctx[q]
               /\ pc[q] = "metadata" \/ pc[q] = "confirm" \/ Saves(q, "applied")
               /\ files'[ctx[q].op] = files[ctx[q].op]
    <3>1. pc'[q] = pc[q] /\ ctx'[q] = ctx[q]
      BY <2>1, <2>2 DEF Keeps, Alone
    <3>2. pc[q] = "metadata" \/ pc[q] = "confirm" \/ Saves(q, "applied")
      BY <2>2, <3>1 DEF Saves
    <3>3. ctx[q].op \in Ops /\ ctx[q].op # ctx[p].op
      BY <2>1, <2>2, <2>0, <3>1, <3>2, SoleWorker
         DEF Applies, Saves, ApplyCalls, TypeOK, ProcsTypeOK
    <3> QED BY <1>3, <3>1, <3>2, <3>3, OwnTraces
  <2>3. pc'[p] = "metadata" /\ ctx'[p].op \in Unshared' =>
          \A i \in 1..7 : i < ctx'[p].step => WriteOrder[i] \in files'[ctx'[p].op]
    <3>1. CASE pc'[p] = "metadata" /\ WriteMetadata(p) /\ ctx'[p].step = ctx[p].step + 1
      <4>1. /\ ctx[p].op \in Ops /\ ctx[p].step \in 1..7 /\ ctx'[p].op = ctx[p].op
            /\ files'[ctx[p].op] = files[ctx[p].op] \union {WriteOrder[ctx[p].step]}
        BY <2>1, <3>1 DEF WriteMetadata, TypeOK, ProcsTypeOK, Contexts, Keeps, Stays
      <4> QED BY <2>0, <3>1, <4>1 DEF Written, WriteMetadata
    <3>2. CASE pc'[p] = "metadata" /\ ConfigureEntry(p) /\ ctx' = ctx
      <4>1. ctx[p].step = 1
        BY <3>2 DEF ConfigureEntry, FirstFile
      <4> QED BY <3>2, <4>1
    <3> QED BY <2>1, <3>1, <3>2 DEF CameFrom
  <2>4. ctx'[p].op \in Unshared' /\ (pc[p] = "confirm" \/ Saves(p, "applied"))' =>
          OpFiles \subseteq files'[ctx'[p].op]
    <3>1. CASE pc'[p] = "confirm"
      <4>1. /\ WriteMetadata(p) /\ ctx[p].step = 7 /\ ctx[p].op \in Ops
            /\ ctx'[p].op = ctx[p].op
            /\ files'[ctx[p].op] = files[ctx[p].op] \union {WriteOrder[ctx[p].step]}
        BY <2>1, <3>1 DEF CameFrom, WriteMetadata, TypeOK, ProcsTypeOK, Keeps, Stays
      <4>2. ctx[p].op \in Unshared => \A i \in 1..7 : i < 7 => WriteOrder[i] \in files[ctx[p].op]
        BY <4>1 DEF Written, WriteMetadata
      <4> QED BY <2>0, <4>1, <4>2 DEF OpFiles
    <3>2. CASE Saves(p, "applied")'
      <4>1. /\ pc[p] = "confirm" \/ Saves(p, "applied")
            /\ ctx'[p].op = ctx[p].op
            /\ files' = files
        BY <2>1, <3>2
           DEF CameFrom, Changes, Keeps, Stays, Saves, ConfirmEntry, Truncate, WriteMetadata,
               RemoveMetadata
      <4> QED BY <2>0, <4>1 DEF Written
    <3> QED BY <3>1, <3>2
  <2>5. ASSUME NEW q \in Procs, q # p, ctx'[q].op \in Unshared'
        PROVE  /\ pc'[q] = "metadata" =>
                    \A i \in 1..7 : i < ctx'[q].step => WriteOrder[i] \in files'[ctx'[q].op]
               /\ (pc[q] = "confirm" \/ Saves(q, "applied"))' => OpFiles \subseteq files'[ctx'[q].op]
    <3>1. CASE (pc[q] = "metadata" \/ pc[q] = "confirm" \/ Saves(q, "applied"))'
      <4>1. /\ pc'[q] = pc[q] /\ ctx'[q] = ctx[q]
            /\ files'[ctx[q].op] = files[ctx[q].op]
            /\ Saves(q, "applied")' <=> Saves(q, "applied")
        BY <2>2, <2>5, <3>1 DEF Saves
      <4> QED BY <2>5, <2>0, <4>1 DEF Written
    <3>2. CASE ~(pc[q] = "metadata" \/ pc[q] = "confirm" \/ Saves(q, "applied"))'
      BY <3>2
    <3> QED BY <3>1, <3>2
  <2> QED BY <2>3, <2>4, <2>5 DEF Written
<1>4. CASE UNCHANGED <<storeVars, opVars, procVars, stage, espCopy, bcdCopy, maker>>
  BY <1>4 DEF Written, Unshared, Saves, storeVars, runVars, opVars, procVars
<1> QED BY <1>1, <1>2, <1>3, <1>4, StepKinds

(* The first file a rollback removes is the entry id, and it stays away. *)
LEMMA RemovalForgets ==
  ASSUME TypeOK, Forgotten, NEW p \in Procs, RemoveMetadata(p), NEW o \in Unshared, o = ctx[p].op
  PROVE  "entry-id.txt" \notin files'[o]
<1>1. /\ ctx[p].step \in 1..7
      /\ files'[o] = files[o] \ {RemoveOrder[ctx[p].step]}
  BY DEF RemoveMetadata, Unshared, TypeOK, ProcsTypeOK, Contexts
<1>2. CASE ctx[p].step = 1
  BY <1>1, <1>2 DEF RemoveOrder
<1>3. CASE ctx[p].step > 1
  BY <1>1, <1>3 DEF RemoveMetadata, Forgotten, HasEntryId
<1> QED BY <1>1, <1>2, <1>3

(* Forgotten is inductive. *)
LEMMA ForgottenNext ==
  ASSUME TypeOK, Remembered, Bound, Owned, Journaled, FirstFile, Forgotten, [Next]_vars
  PROVE  Forgotten'
<1> USE DEF SaveCalls
<1> DEFINE Past(q) == /\ ctx[q].op \in Unshared
                      /\ \/ pc[q] = "remove-metadata" /\ ctx[q].step > 1
                         \/ Saves(q, "rolled-back")
<1>1. ASSUME NEW p \in Procs, NEW o \in Ops, NEW pl \in Plans, StartApply(p, o, pl)
      PROVE  Forgotten'
  <2>1. Alone(p) /\ pc'[p] = "esp" /\ files' = files /\ Unshared' \subseteq Unshared
    BY <1>1, ApplyStarts, FirstApply DEF opVars
  <2> QED BY <2>1 DEF Forgotten, Alone, Saves, HasEntryId
<1>2. ASSUME NEW p \in Procs, NEW o \in Ops, Loads(p, o)
      PROVE  Forgotten'
  BY <1>2 DEF Loads, Forgotten, Unshared, Alone, Saves, HasEntryId, storeVars, runVars, opVars
<1>3. ASSUME NEW p \in Procs, Continue(p) \/ Abort(p)
      PROVE  Forgotten'
  <2>1. Keeps(p) /\ CameFrom(p) /\ Changes(p) /\ pc[p] # "idle"
    BY <1>3, RunningKeeps, Transitions, Effects, RunningBusy
  <2>0. Unshared' = Unshared
    BY <2>1 DEF Keeps, Unshared
  <2>2. ASSUME NEW q \in Procs, q # p, Past(q)'
        PROVE  ~HasEntryId(ctx[q].op)'
    <3>1. pc'[q] = pc[q] /\ ctx'[q] = ctx[q] /\ Past(q)
      BY <2>0, <2>1, <2>2 DEF Keeps, Alone, Saves
    <3>2. ~HasEntryId(ctx[q].op) /\ ctx[q].op \in Ops
      BY <3>1 DEF Forgotten, TypeOK, ProcsTypeOK, Saves
    <3>3. CASE WriteMetadata(p)
      <4>1. ctx[q].op # ctx[p].op
        BY <2>2, <3>1, <3>3, SoleWorker DEF WriteMetadata, Applies, ApplyCalls, Saves
      <4> QED BY <1>3, <3>1, <3>2, <4>1, OwnTraces DEF HasEntryId
    <3>4. CASE RemoveMetadata(p)
      BY <3>1, <3>2, <3>4 DEF RemoveMetadata, HasEntryId, TypeOK
    <3>5. CASE files' = files
      BY <3>1, <3>2, <3>5 DEF HasEntryId
    <3> QED BY <2>1, <3>3, <3>4, <3>5 DEF Changes
  <2>3. RemoveMetadata(p) /\ ctx'[p].op = ctx[p].op /\ ctx[p].op \in Unshared =>
          ~HasEntryId(ctx[p].op)'
    BY <2>1, RemovalForgets DEF HasEntryId, TypeOK, ProcsTypeOK
  <2>4. ASSUME Past(p)'
        PROVE  ~HasEntryId(ctx[p].op)'
    <3>1. ctx'[p].op = ctx[p].op /\ ctx[p].op \in Unshared
      BY <2>0, <2>1, <2>4 DEF Keeps, Stays, Saves
    <3>2. CASE pc'[p] = "remove-metadata"
      BY <2>1, <2>3, <2>4, <3>1, <3>2 DEF CameFrom, Unstage, FirstFile, Saves
    <3>3. CASE Saves(p, "rolled-back")'
      BY <2>1, <2>3, <3>1, <3>3
         DEF CameFrom, Changes, Saves, ReadMetadata, WriteMetadata, RemoveMetadata, Truncate,
             Forgotten, HasEntryId
    <3> QED BY <2>4, <3>2, <3>3
  <2> QED BY <2>2, <2>4 DEF Forgotten
<1>4. CASE UNCHANGED <<storeVars, opVars, procVars, stage, espCopy, bcdCopy, maker>>
  BY <1>4 DEF Forgotten, Unshared, Saves, HasEntryId, storeVars, runVars, opVars, procVars
<1> QED BY <1>1, <1>2, <1>3, <1>4, StepKinds

(* FreshUnknown is inductive. *)
LEMMA FreshUnknownNext ==
  ASSUME TypeOK, Remembered, Bound, FreshUnknown, [Next]_vars
  PROVE  FreshUnknown'
<1>1. ASSUME UNCHANGED hostVars
      PROVE  FreshUnknown'
  BY <1>1 DEF FreshUnknown, FreshGuids, hostVars
<1>2. ASSUME NEW p \in Procs, Continue(p) \/ Abort(p)
      PROVE  FreshUnknown'
  <2>1. Changes(p) /\ pc[p] # "idle"
    BY <1>2, Effects, RunningBusy
  <2>2. ctx[p].op \in Ops /\ ctx[p].plan \in Plans
    BY <2>1, PlanKnown
  <2>3. CASE CreateEntry(p)
    <3>1. CASE UNCHANGED hostVars
      BY <1>1, <3>1
    <3>2. ASSUME NEW g \in FreshGuids, CreateObject(g, ctx[p].op)
          PROVE  FreshUnknown'
      <4>1. /\ maker' = [maker EXCEPT ![g] = ctx[p].op]
            /\ bcdCopy' = bcdCopy
            /\ bcd'.objects = bcd.objects \union {g}
        BY <3>2 DEF CreateObject, backupVars, TypeOK, HostTypeOK, Stores
      <4>2. FreshGuids' \subseteq FreshGuids \ {g}
        BY <2>2, <4>1, OpsAssumption DEF FreshGuids, TypeOK, HostTypeOK, NoOp
      <4> QED BY <4>1, <4>2 DEF FreshUnknown
    <3> QED BY <2>3, <3>1, <3>2 DEF CreateEntry
  <2>4. CASE ExportBcd(p)
    BY <2>2, <2>4
       DEF ExportBcd, ExportStore, machineVars, FreshUnknown, FreshGuids, TypeOK, HostTypeOK
  <2>5. CASE UndoStore(p) \/ ImportBackup(p)
    BY <2>2, <2>5 DEF UndoStore, ImportBackup, ImportStore, backupVars, hostVars, FreshUnknown,
                     FreshGuids, TypeOK, HostTypeOK
  <2>6. CASE ConfigureEntry(p)
    <3>1. bcd'.objects \subseteq bcd.objects /\ bcdCopy' = bcdCopy /\ maker' = maker
      BY <2>6 DEF ConfigureEntry, AddDisplayOrder, DeleteObject, backupVars, TypeOK, HostTypeOK,
                  Stores
    <3> QED BY <3>1 DEF FreshUnknown, FreshGuids
  <2>7. CASE bcd' = bcd /\ bcdCopy' = bcdCopy /\ maker' = maker
    BY <2>7 DEF FreshUnknown, FreshGuids
  <2> QED BY <2>1, <2>3, <2>4, <2>5, <2>6, <2>7 DEF Changes
<1>3. CASE /\ UNCHANGED <<storeVars, opVars, procVars, stage, espCopy, bcdCopy, maker>>
           /\ bcd'.objects = bcd.objects
  BY <1>3 DEF FreshUnknown, FreshGuids
<1>4. ASSUME NEW p \in Procs, NEW o \in Ops, NEW pl \in Plans, StartApply(p, o, pl)
      PROVE  FreshUnknown'
  BY <1>1, <1>4, ApplyStarts
<1>5. ASSUME NEW p \in Procs, NEW o \in Ops, Loads(p, o)
      PROVE  FreshUnknown'
  BY <1>1, <1>5 DEF Loads
<1> QED BY <1>2, <1>3, <1>4, <1>5, StepKinds

-----------------------------------------------------------------------------
(* The metadata of recorded operations. *)

(* MetadataComplete is inductive, relative to Inv. *)
LEMMA MetadataCompleteNext ==
  ASSUME Inv, [Next]_vars
  PROVE  MetadataComplete'
<1> USE DEF Inv
<1>1. CASE files' = files /\ recorded' = recorded /\ Unshared' \subseteq Unshared
  BY <1>1, TypeNext
     DEF Unshared, TypeOK, StoreTypeOK, MetadataComplete, HasEntryId, MetadataReadable
<1>2. ASSUME NEW p \in Procs, Continue(p) \/ Abort(p)
      PROVE  MetadataComplete'
  <2>1. Changes(p) /\ pc[p] # "idle" /\ ctx[p].op \in Ops
    BY <1>2, Effects, RunningBusy, PlanKnown
  <2>2. \A o \in Ops : o # ctx[p].op => files'[o] = files[o]
    BY <1>2, OwnTraces
  <2>7. reissued' = reissued /\ (ctx[p].op \in Unshared <=> ctx[p].op \notin reissued)
    BY <1>2, <2>1, RunningKeeps DEF Keeps, Unshared
  <2>3. CASE WriteMetadata(p)
    <3>1. /\ ctx[p].op \in Unshared => ctx[p].op \notin recorded
          /\ recorded' = recorded /\ recorded \subseteq Ops
      BY <2>3
         DEF WriteMetadata, Owned, Applies, ApplyCalls, storeVars, runVars, TypeOK,
             StoreTypeOK
    <3> QED BY <2>2, <2>7, <3>1 DEF MetadataComplete, HasEntryId, MetadataReadable
  <2>4. CASE RemoveMetadata(p)
    <3>1. recorded' = recorded /\ recorded \subseteq Ops
      BY <2>4 DEF RemoveMetadata, storeVars, runVars, TypeOK, StoreTypeOK
    <3>2. ctx[p].op \in Unshared => "entry-id.txt" \notin files'[ctx[p].op]
      BY <2>1, <2>4, RemovalForgets
    <3> QED BY <2>2, <2>7, <3>1, <3>2 DEF MetadataComplete, HasEntryId, MetadataReadable
  <2>5. CASE Write(p)
    <3>1. recorded' = recorded \union {ctx[p].op} /\ files' = files
      BY <2>5 DEF Write, FillJournal, opVars
    <3>2. ctx[p].op \in Unshared /\ HasEntryId(ctx[p].op) => MetadataReadable(ctx[p].op)
      <4>1. CASE Saves(p, "applied")
        BY <4>1 DEF Written, MetadataReadable, MetadataFiles
      <4>2. CASE Saves(p, "checkpointed")
        BY <4>2 DEF Untouched, HasEntryId
      <4>3. CASE ~Saves(p, "applied") /\ ~Saves(p, "checkpointed")
        <5>1. ~Applies(p)
          BY <2>5, <4>3 DEF Write, Applies, Saves, ApplyCalls, SaveCalls
        <5> QED BY <2>1, <2>7, <5>1 DEF Owned, MetadataComplete
      <4> QED BY <4>1, <4>2, <4>3
    <3> QED BY <2>7, <3>1, <3>2 DEF MetadataComplete, HasEntryId, MetadataReadable
  <2>6. CASE ~WriteMetadata(p) /\ ~RemoveMetadata(p) /\ ~Write(p)
    <3>1. files' = files
      BY <2>1, <2>6 DEF Changes
    <3>2. recorded' = recorded
      BY <2>1, <2>6 DEF Changes, Truncate, TruncateJournal
    <3> QED BY <1>1, <2>7, <3>1, <3>2 DEF Unshared
  <2> QED BY <2>3, <2>4, <2>5, <2>6
<1>3. ASSUME NEW p \in Procs, NEW o \in Ops, NEW pl \in Plans, StartApply(p, o, pl)
      PROVE  MetadataComplete'
  BY <1>1, <1>3, ApplyStarts, FirstApply DEF opVars
<1>4. ASSUME NEW p \in Procs, NEW o \in Ops, Loads(p, o)
      PROVE  MetadataComplete'
  BY <1>1, <1>4 DEF Loads, Unshared, opVars, storeVars, runVars
<1>5. CASE UNCHANGED <<storeVars, opVars, procVars, stage, espCopy, bcdCopy, maker>>
  BY <1>1, <1>5 DEF Unshared, opVars, storeVars, runVars
<1> QED BY <1>2, <1>3, <1>4, <1>5, StepKinds

(* RolledBackForgotten is inductive, relative to Inv. *)
LEMMA RolledBackForgottenNext ==
  ASSUME Inv, [Next]_vars
  PROVE  RolledBackForgotten'
<1> USE DEF Inv
<1>1. CASE files' = files /\ journal' = journal /\ Unshared' \subseteq Unshared
  BY <1>1 DEF RolledBackForgotten, HasStatus, Loadable, HasEntryId
<1>2. ASSUME NEW p \in Procs, Continue(p) \/ Abort(p)
      PROVE  RolledBackForgotten'
  <2>1. Changes(p) /\ pc[p] # "idle" /\ ctx[p].op \in Ops
    BY <1>2, Effects, RunningBusy, PlanKnown
  <2>2. \A o \in Ops : o # ctx[p].op => files'[o] = files[o]
    BY <1>2, OwnTraces
  <2>8. Unshared' = Unshared /\ Unshared \subseteq Ops
    BY <1>2, RunningKeeps DEF Keeps, Unshared
  <2>3. CASE WriteMetadata(p)
    <3>1. journal' = journal /\ (ctx[p].op \in Unshared => ctx[p].op \notin recorded)
      BY <2>3 DEF WriteMetadata, Owned, Applies, ApplyCalls, storeVars, runVars
    <3>2. ctx[p].op \in Unshared => ~Loadable(ctx[p].op)
      BY <2>1, <3>1 DEF Journaled
    <3> QED BY <2>2, <2>8, <3>1, <3>2 DEF RolledBackForgotten, HasStatus, Loadable, HasEntryId
  <2>4. CASE RemoveMetadata(p)
    <3>1. journal' = journal
      BY <2>4 DEF RemoveMetadata, storeVars, runVars
    <3>2. ctx[p].op \in Unshared => "entry-id.txt" \notin files'[ctx[p].op]
      BY <2>1, <2>4, RemovalForgets
    <3> QED BY <2>2, <2>8, <3>1, <3>2 DEF RolledBackForgotten, HasStatus, Loadable, HasEntryId
  <2>5. CASE Write(p)
    <3>1. /\ files' = files
          /\ journal' = [journal EXCEPT ![ctx[p].op] =
                           [status |-> ctx[p].status, plan |-> ctx[p].plan]]
      BY <2>5 DEF Write, FillJournal, opVars
    <3>2. ctx[p].op \in Unshared /\ ctx[p].status = "rolled-back" => ~HasEntryId(ctx[p].op)
      BY <2>5 DEF Write, Forgotten, Saves, SaveCalls
    <3> QED BY <2>1, <2>8, <3>1, <3>2
            DEF RolledBackForgotten, HasStatus, Loadable, HasEntryId, TypeOK, StoreTypeOK
  <2>6. CASE Truncate(p)
    <3>1. files' = files /\ journal' = [journal EXCEPT ![ctx[p].op] = Torn]
      BY <2>6 DEF Truncate, TruncateJournal, opVars
    <3> QED BY <2>1, <2>8, <3>1, FilesAssumption
            DEF RolledBackForgotten, HasStatus, Loadable, HasEntryId, TypeOK, StoreTypeOK
  <2>7. CASE ~WriteMetadata(p) /\ ~RemoveMetadata(p) /\ ~Write(p) /\ ~Truncate(p)
    BY <1>1, <2>1, <2>7, <2>8 DEF Changes
  <2> QED BY <2>3, <2>4, <2>5, <2>6, <2>7
<1>3. ASSUME NEW p \in Procs, NEW o \in Ops, NEW pl \in Plans, StartApply(p, o, pl)
      PROVE  RolledBackForgotten'
  BY <1>1, <1>3, ApplyStarts, FirstApply DEF opVars
<1>4. ASSUME NEW p \in Procs, NEW o \in Ops, Loads(p, o)
      PROVE  RolledBackForgotten'
  BY <1>1, <1>4 DEF Loads, Unshared, opVars, storeVars, runVars
<1>5. CASE UNCHANGED <<storeVars, opVars, procVars, stage, espCopy, bcdCopy, maker>>
  BY <1>1, <1>5 DEF Unshared, opVars, storeVars, runVars
<1> QED BY <1>2, <1>3, <1>4, <1>5, StepKinds

-----------------------------------------------------------------------------
(* The backup of a plan: it is there before anything of an operation is, and
   survives what the other processes do. *)

(* Starting one more operation leaves fewer plans that were applied once. *)
LEMMA OnceBefore ==
  ASSUME TypeOK, NEW o \in Ops, NEW pl \in Plans,
         ran' = [ran EXCEPT ![o] = @ \union {pl}],
         NEW x \in Plans, AppliedOnce(x)'
  PROVE  AppliedOnce(x)
<1>1. \A r \in RunsOf(x) : r \in RunsOf(x)'
  BY DEF RunsOf, TypeOK, StoreTypeOK
<1> QED BY <1>1 DEF AppliedOnce

(* What a running command does to the parts of a backup. *)
LEMMA PartsKept ==
  ASSUME TypeOK, Remembered, Bound, NEW p \in Procs, Continue(p) \/ Abort(p), NEW pl \in Plans
  PROVE  /\ espCopy[pl] # "absent" => espCopy'[pl] # "absent"
         /\ bcdCopy[pl] # NoStore => bcdCopy'[pl] # NoStore
         /\ manifest[pl] => manifest'[pl]
         /\ espCopy[pl] = "complete" =>
              espCopy'[pl] = "complete" \/ (CopyEsp(p) /\ pl = ctx[p].plan)
         /\ savedPlan' = savedPlan /\ Unshared' = Unshared
         /\ AppliedOnce(pl)' <=> AppliedOnce(pl)
<1>1. Changes(p) /\ pc[p] # "idle" /\ UNCHANGED <<savedPlan, ran, reissued>>
  BY Effects, RunningBusy, RunningKeeps DEF Keeps
<1>2. ctx[p].plan \in Plans
  BY <1>1, PlanKnown
<1>3. /\ espCopy[pl] # "absent" => espCopy'[pl] # "absent"
      /\ espCopy[pl] = "complete" =>
           espCopy'[pl] = "complete" \/ (CopyEsp(p) /\ pl = ctx[p].plan)
  <2>1. CASE MakeEspDir(p)
    BY <2>1 DEF MakeEspDir, TypeOK, HostTypeOK
  <2>2. CASE CopyEsp(p)
    BY <2>2 DEF CopyEsp, TypeOK, HostTypeOK
  <2> QED BY <1>1, <2>1, <2>2 DEF Changes
<1>4. bcdCopy[pl] # NoStore => bcdCopy'[pl] # NoStore
  <2>1. CASE ExportBcd(p)
    BY <2>1, HostAssumption DEF ExportBcd, ExportStore, TypeOK, HostTypeOK
  <2> QED BY <1>1, <2>1 DEF Changes
<1>5. manifest[pl] => manifest'[pl]
  <2>1. CASE WriteManifest(p)
    BY <2>1 DEF WriteManifest, WriteBackupManifest, TypeOK, StoreTypeOK
  <2> QED BY <1>1, <2>1 DEF Changes
<1> QED BY <1>1, <1>3, <1>4, <1>5 DEF AppliedOnce, RunsOf, Unshared

(* A copy of the ESP that fails can spoil the backup of another operation only
   if that operation ran the same plan, which was then applied twice. *)
LEMMA CompleteKept ==
  ASSUME TypeOK, Remembered, Bound, NEW p \in Procs, Continue(p) \/ Abort(p),
         NEW o \in Ops, savedPlan[o] \in Plans, o # ctx[p].op \/ ~CopyEsp(p),
         Complete(savedPlan[o])
  PROVE  Complete(savedPlan[o])'
<1> DEFINE pl == savedPlan[o]
<1>1. savedPlan' = savedPlan
  BY PartsKept
<1>2. CASE CopyEsp(p) /\ pl = ctx[p].plan
  <2>1. /\ ctx[p].op \in RunsOf(pl) /\ o \in RunsOf(pl) /\ ctx[p].op # o
    BY <1>2, PlanKnown, RunningBusy, PlansAssumption DEF RunsOf, Bound, Remembered
  <2>2. ~AppliedOnce(pl)
    BY <2>1 DEF AppliedOnce
  <2> QED BY <1>1, <2>2, PartsKept DEF Complete
<1>3. CASE ~(CopyEsp(p) /\ pl = ctx[p].plan)
  BY <1>1, <1>3, PartsKept DEF Complete
<1> QED BY <1>2, <1>3

(* So a backup that is there is spoilt by the apply of the same operation only. *)
LEMMA BackupKept ==
  ASSUME TypeOK, Remembered, Bound, NEW p \in Procs, Continue(p) \/ Abort(p),
         NEW o \in Ops, savedPlan[o] \in Plans, o # ctx[p].op \/ ~CopyEsp(p),
         Backup(savedPlan[o])
  PROVE  Backup(savedPlan[o])'
BY CompleteKept, PartsKept DEF Backup

(* Backed is inductive. *)
LEMMA BackedNext ==
  ASSUME TypeOK, Remembered, Bound, Owned, Journaled, Untouched, Backed, [Next]_vars
  PROVE  Backed'
<1> USE DEF SaveCalls, CheckpointCalls
<1>1. ASSUME NEW p \in Procs, NEW o \in Ops, NEW pl \in Plans, StartApply(p, o, pl)
      PROVE  Backed'
  <2>1. /\ ran' = [ran EXCEPT ![o] = @ \union {pl}]
        /\ Unshared' \subseteq Unshared
        /\ o \in Unshared' => savedPlan[o] = NoPlan
        /\ \A r \in Ops \ {o} : savedPlan'[r] = savedPlan[r]
        /\ Alone(p) /\ pc'[p] = "esp"
        /\ UNCHANGED <<manifest, recorded, espCopy, bcdCopy, maker, files>>
    BY <1>1, ApplyStarts, FirstApply DEF hostVars, opVars
  <2>2. \A x \in Plans : /\ Complete(x) => Complete(x)'
                         /\ Backup(x) => Backup(x)'
    BY <2>1, OnceBefore DEF Complete, Backup
  <2>3. \A q \in Procs \ {p} : Applies(q)' <=> Applies(q)
    BY <2>1 DEF Alone, Applies
  <2>4. \A q \in Procs : pc[q] # "idle" => ctx[q].plan \in Plans
    BY PlanKnown
  <2>5. ASSUME NEW q \in Procs, ctx'[q].op \in Unshared'
        PROVE  /\ pc'[q] \in CheckpointCalls \ {"esp"} => espCopy'[ctx'[q].plan] # "absent"
               /\ pc'[q] \in {"export", "manifest"} => Complete(ctx[q].plan)'
               /\ pc'[q] = "manifest" => bcdCopy'[ctx'[q].plan] # NoStore
               /\ Applies(q)' /\ pc'[q] \notin CheckpointCalls => Backup(ctx[q].plan)'
    <3>1. CASE q = p
      BY <2>1, <3>1 DEF Applies
    <3>2. CASE q # p
      <4>1. pc'[q] = pc[q] /\ ctx'[q] = ctx[q]
        BY <2>1, <3>2 DEF Alone
      <4>2. Applies(q) => pc[q] # "idle"
        BY DEF Applies, ApplyCalls
      <4>3. Complete(ctx[q].plan)' <=> (AppliedOnce(ctx[q].plan)' => espCopy'[ctx[q].plan] = "complete")
        BY <4>1 DEF Complete, AppliedOnce, RunsOf
      <4> QED BY <2>1, <2>2, <2>3, <2>4, <2>5, <3>2, <4>1, <4>2
         DEF Backed, Complete, Backup, AppliedOnce, RunsOf
    <3> QED BY <3>1, <3>2
  <2>6. ASSUME NEW r \in Unshared', (EntriesOf(r) # {} \/ files[r] # {} \/ r \in recorded)'
        PROVE  Backup(savedPlan[r])'
    <3>1. EntriesOf(r) # {} \/ files[r] # {} \/ r \in recorded
      BY <2>1, <2>6 DEF EntriesOf
    <3>2. /\ r # o /\ r \in Unshared
          /\ savedPlan[r] \in Plans /\ savedPlan'[r] = savedPlan[r]
      BY <2>1, <3>1 DEF Untouched, Unshared, Journaled, TypeOK, StoreTypeOK
    <3>3. Backup(savedPlan[r])
      BY <3>1, <3>2 DEF Backed
    <3> QED BY <2>2, <3>2, <3>3 DEF Backup, Complete, AppliedOnce, RunsOf
  <2> QED BY <2>5, <2>6 DEF Backed
<1>2. ASSUME NEW p \in Procs, NEW o \in Ops, Loads(p, o)
      PROVE  Backed'
  <2>1. /\ Alone(p) /\ pc'[p] \notin CheckpointCalls /\ ~Applies(p)'
        /\ UNCHANGED <<savedPlan, ran, reissued, manifest, recorded>>
        /\ UNCHANGED <<espCopy, bcdCopy, maker, files>>
    BY <1>2 DEF Loads, Applies, ApplyCalls, storeVars, runVars, hostVars, opVars
  <2> QED BY <2>1
     DEF Backed, Unshared, Alone, Applies, Backup, Complete, AppliedOnce, RunsOf, EntriesOf
<1>3. ASSUME NEW p \in Procs, Continue(p) \/ Abort(p)
      PROVE  Backed'
  <2>1. Keeps(p) /\ CameFrom(p) /\ Changes(p) /\ pc[p] # "idle"
    BY <1>3, RunningKeeps, Transitions, Effects, RunningBusy
  <2>2. /\ ctx[p].op \in Ops /\ ctx[p].plan \in Plans
        /\ ctx[p].op \in Unshared => savedPlan[ctx[p].op] = ctx[p].plan
        /\ savedPlan' = savedPlan /\ ran' = ran
        /\ Unshared' = Unshared /\ Unshared \subseteq Ops
    BY <2>1, PlanKnown DEF Keeps, Unshared
  <2>3. ASSUME NEW q \in Procs, q # p, ctx'[q].op \in Unshared'
        PROVE  /\ pc'[q] \in CheckpointCalls \ {"esp"} => espCopy'[ctx'[q].plan] # "absent"
               /\ pc'[q] \in {"export", "manifest"} => Complete(ctx[q].plan)'
               /\ pc'[q] = "manifest" => bcdCopy'[ctx'[q].plan] # NoStore
               /\ Applies(q)' /\ pc'[q] \notin CheckpointCalls => Backup(ctx[q].plan)'
    <3>1. pc'[q] = pc[q] /\ ctx'[q] = ctx[q] /\ (Applies(q)' <=> Applies(q))
      BY <2>1, <2>3 DEF Keeps, Alone, Applies
    <3>2. CASE Applies(q)
      <4>1. /\ ctx[q].op \in Ops /\ ctx[q].plan \in Plans
            /\ savedPlan[ctx[q].op] = ctx[q].plan
            /\ ctx[q].op # ctx[p].op
        BY <2>1, <2>2, <2>3, <3>1, <3>2, PlanKnown, SoleWorker DEF Applies, ApplyCalls
      <4>2. PICK o \in Ops : o = ctx[q].op
        BY <4>1
      <4>3. /\ Complete(savedPlan[o]) => Complete(savedPlan[o])'
            /\ Backup(savedPlan[o]) => Backup(savedPlan[o])'
        BY <1>3, <4>1, <4>2, CompleteKept, BackupKept
      <4>4. savedPlan[o] = ctx[q].plan /\ savedPlan'[o] = ctx'[q].plan
        BY <2>2, <3>1, <4>1, <4>2
      <4> QED BY <1>3, <2>2, <2>3, <3>1, <3>2, <4>1, <4>3, <4>4, PartsKept DEF Backed
    <3>3. CASE ~Applies(q)
      BY <3>1, <3>3 DEF Applies, ApplyCalls
    <3> QED BY <3>2, <3>3
  <2>4. ASSUME ctx'[p].op \in Unshared'
        PROVE  /\ pc'[p] \in CheckpointCalls \ {"esp"} => espCopy'[ctx'[p].plan] # "absent"
               /\ pc'[p] \in {"export", "manifest"} => Complete(ctx[p].plan)'
               /\ pc'[p] = "manifest" => bcdCopy'[ctx'[p].plan] # NoStore
               /\ Applies(p)' /\ pc'[p] \notin CheckpointCalls => Backup(ctx[p].plan)'
    <3>1. pc'[p] # "idle" => /\ ctx'[p].plan = ctx[p].plan /\ (Applies(p)' <=> Applies(p))
                             /\ ctx[p].op \in Unshared
      BY <2>1, <2>2, <2>4 DEF Keeps, Stays
    <3>2. CASE pc'[p] = "robocopy"
      BY <2>1, <2>2, <3>1, <3>2 DEF CameFrom, MakeEspDir, TypeOK, HostTypeOK
    <3>3. CASE pc'[p] = "export"
      <4>1. espCopy'[ctx'[p].plan] = "complete"
        BY <2>1, <2>2, <3>1, <3>3 DEF CameFrom, TypeOK, HostTypeOK
      <4> QED BY <3>3, <4>1 DEF Complete
    <3>4. CASE pc'[p] = "manifest"
      <4>1. /\ ExportBcd(p) /\ pc[p] = "export" /\ ctx'[p].plan = ctx[p].plan
            /\ espCopy' = espCopy
            /\ bcdCopy' = [bcdCopy EXCEPT ![ctx[p].plan] = bcd]
        BY <2>1, <3>1, <3>4 DEF CameFrom, ExportBcd, ExportStore
      <4>2. bcdCopy'[ctx'[p].plan] # NoStore
        BY <2>2, <4>1, HostAssumption DEF TypeOK, HostTypeOK
      <4>3. Complete(ctx[p].plan) /\ espCopy[ctx[p].plan] # "absent"
        BY <3>1, <3>4, <4>1 DEF Backed
      <4> QED BY <2>2, <3>4, <4>1, <4>2, <4>3 DEF Complete, AppliedOnce, RunsOf
    <3>5. CASE Applies(p)' /\ pc'[p] \notin CheckpointCalls
      <4>1. ctx'[p].plan = ctx[p].plan /\ Applies(p) /\ ctx[p].op \in Unshared
        BY <3>1, <3>5 DEF Applies, ApplyCalls
      <4>2. CASE WriteManifest(p)
        <5>1. /\ pc[p] = "manifest"
              /\ UNCHANGED <<espCopy, bcdCopy>>
              /\ manifest'[ctx[p].plan]
          BY <2>2, <4>2 DEF WriteManifest, WriteBackupManifest, hostVars, TypeOK, StoreTypeOK
        <5> QED BY <2>2, <3>5, <4>1, <5>1 DEF Backed, Backup, Complete, AppliedOnce, RunsOf
      <4>3. CASE ~WriteManifest(p)
        <5>1. pc[p] \notin CheckpointCalls
          BY <2>1, <3>5, <4>3
             DEF CameFrom, Applies, ApplyCalls, StageWim, StageSdi, CreateEntry, ConfigureEntry,
                 WriteMetadata, ConfirmEntry, UndoStore, ReadMetadata, RemoveMetadata, Truncate
        <5>2. PICK o \in Ops : o = ctx[p].op
          BY <2>2
        <5>3. Backup(savedPlan[o])'
          BY <1>3, <2>2, <4>1, <5>1, <5>2, BackupKept DEF Backed, CopyEsp
        <5>4. savedPlan'[o] = ctx'[p].plan
          BY <2>2, <4>1, <5>2
        <5> QED BY <3>5, <5>3, <5>4
      <4> QED BY <4>2, <4>3
    <3> QED BY <3>2, <3>3, <3>4, <3>5
  <2>5. ASSUME NEW o \in Unshared, (EntriesOf(o) # {} \/ files[o] # {} \/ o \in recorded)'
        PROVE  Backup(savedPlan[o])'
    <3>1. CASE o # ctx[p].op
      <4>1. EntriesOf(o) # {} \/ files[o] # {} \/ o \in recorded
        BY <1>3, <2>1, <2>2, <2>5, <3>1, OwnTraces DEF Keeps
      <4>2. savedPlan[o] \in Plans
        BY <4>1 DEF Untouched, Unshared, Journaled, TypeOK, StoreTypeOK
      <4> QED BY <1>3, <2>2, <3>1, <4>1, <4>2, BackupKept DEF Backed
    <3>2. CASE o = ctx[p].op
      <4>1. CASE CreateEntry(p) \/ WriteMetadata(p)
        BY <1>3, <2>2, <3>2, <4>1, BackupKept
           DEF CreateEntry, WriteMetadata, CopyEsp, Applies, ApplyCalls, Backed
      <4>2. CASE Write(p)
        BY <1>3, <2>2, <3>2, <4>2, BackupKept, RunningBusy DEF Write, CopyEsp, Owned, Backed
      <4>3. CASE RemoveMetadata(p)
        <5>1. o \in recorded
          BY <3>2, <4>3 DEF RemoveMetadata, Applies, ApplyCalls, Owned
        <5> QED BY <1>3, <2>2, <3>2, <4>3, <5>1, BackupKept DEF RemoveMetadata, CopyEsp, Backed
      <4>4. CASE ~CreateEntry(p) /\ ~WriteMetadata(p) /\ ~Write(p) /\ ~RemoveMetadata(p)
        <5>1. maker' = maker /\ files' = files /\ recorded' = recorded
          BY <2>1, <4>4 DEF Changes, Truncate, TruncateJournal
        <5>2. EntriesOf(o) # {} \/ files[o] # {} \/ o \in recorded
          BY <2>5, <5>1 DEF EntriesOf
        <5>3. ~CopyEsp(p)
          BY <3>2, <5>2 DEF CopyEsp, Untouched, EarlyCalls, Owned, Applies, ApplyCalls
        <5> QED BY <1>3, <2>2, <3>2, <5>2, <5>3, BackupKept DEF Backed
      <4> QED BY <4>1, <4>2, <4>3, <4>4
    <3> QED BY <3>1, <3>2
  <2> QED BY <2>2, <2>3, <2>4, <2>5 DEF Backed
<1>4. CASE UNCHANGED <<storeVars, opVars, procVars, stage, espCopy, bcdCopy, maker>>
  BY <1>4 DEF Backed, Unshared, Applies, Backup, Complete, AppliedOnce, RunsOf, EntriesOf,
              storeVars, runVars, opVars, procVars
<1> QED BY <1>1, <1>2, <1>3, <1>4, StepKinds

-----------------------------------------------------------------------------
(* OnlyReapplyTaintsCheckpoint is inductive. *)
LEMMA OnlyReapplyTaintsCheckpointNext ==
  ASSUME TypeOK, Remembered, Bound, Journaled, Untouched, FreshUnknown,
  OnlyReapplyTaintsCheckpoint,
         [Next]_vars
  PROVE  OnlyReapplyTaintsCheckpoint'
<1> DEFINE Clean(o) == /\ savedPlan[o] # NoPlan
                       /\ AppliedOnce(savedPlan[o])
                       /\ bcdCopy[savedPlan[o]] # NoStore
                       => bcdCopy[savedPlan[o]].objects \intersect EntriesOf(o) = {}
<1>1. ASSUME NEW p \in Procs, NEW o \in Ops, NEW pl \in Plans, StartApply(p, o, pl)
      PROVE  OnlyReapplyTaintsCheckpoint'
  <2>1. /\ ran' = [ran EXCEPT ![o] = @ \union {pl}]
        /\ Unshared' \subseteq Unshared
        /\ o \in Unshared' => savedPlan[o] = NoPlan
        /\ \A r \in Ops \ {o} : savedPlan'[r] = savedPlan[r]
        /\ UNCHANGED <<bcdCopy, maker>>
    BY <1>1, ApplyStarts, FirstApply DEF hostVars
  <2>2. ASSUME NEW r \in Unshared'
        PROVE  Clean(r)'
    <3>0. r \in Ops /\ r \in Unshared
      BY <2>1 DEF Unshared
    <3>1. CASE r = o
      BY <2>1, <3>0, <3>1 DEF Untouched, EntriesOf
    <3>2. CASE r # o
      <4>1. savedPlan'[r] = savedPlan[r]
        BY <2>1, <3>0, <3>2
      <4>2. CASE savedPlan[r] \in Plans
        <5>1. PICK x \in Plans : x = savedPlan[r]
          BY <4>2
        <5>2. AppliedOnce(x)' => AppliedOnce(x)
          BY <2>1, OnceBefore
        <5> QED BY <2>1, <3>0, <4>1, <5>1, <5>2
                DEF OnlyReapplyTaintsCheckpoint, EntriesOf, AppliedOnce, RunsOf
      <4>3. CASE savedPlan[r] = NoPlan
        BY <4>1, <4>3
      <4> QED BY <3>0, <4>2, <4>3 DEF TypeOK, StoreTypeOK
    <3> QED BY <3>1, <3>2
  <2> QED BY <2>2 DEF OnlyReapplyTaintsCheckpoint
<1>2. ASSUME UNCHANGED <<savedPlan, ran, reissued, bcdCopy, maker>>
      PROVE  OnlyReapplyTaintsCheckpoint'
  BY <1>2 DEF OnlyReapplyTaintsCheckpoint, Unshared, AppliedOnce, RunsOf, EntriesOf
<1>3. ASSUME NEW p \in Procs, Continue(p) \/ Abort(p)
      PROVE  OnlyReapplyTaintsCheckpoint'
  <2>1. Changes(p) /\ pc[p] # "idle" /\ UNCHANGED <<savedPlan, ran, reissued>>
    BY <1>3, Effects, RunningBusy, RunningKeeps DEF Keeps
  <2>2. /\ ctx[p].op \in Ops /\ ctx[p].plan \in Plans
        /\ ctx[p].plan \in ran[ctx[p].op]
        /\ Unshared' = Unshared /\ Unshared \subseteq Ops
    BY <2>1, PlanKnown DEF Bound, Unshared
  <2>3. CASE ExportBcd(p)
    <3>1. /\ pc[p] = "export" /\ maker' = maker
          /\ bcdCopy' = [bcdCopy EXCEPT ![ctx[p].plan] = bcd]
      BY <2>3 DEF ExportBcd, ExportStore, machineVars
    <3>2. ctx[p].op \in Unshared => EntriesOf(ctx[p].op) = {}
      BY <3>1 DEF Untouched, EarlyCalls, CheckpointCalls
    <3>3. ASSUME NEW r \in Ops, savedPlan[r] = ctx[p].plan, AppliedOnce(ctx[p].plan)
          PROVE  r = ctx[p].op
      BY <2>2, <3>3, PlansAssumption DEF AppliedOnce, RunsOf, Remembered
    <3>4. \A r \in Ops : savedPlan[r] # ctx[p].plan /\ savedPlan[r] # NoPlan =>
            bcdCopy'[savedPlan[r]] = bcdCopy[savedPlan[r]]
      BY <3>1 DEF TypeOK, HostTypeOK, StoreTypeOK
    <3>5. ASSUME NEW r \in Unshared
          PROVE  Clean(r)'
      BY <2>1, <2>2, <3>1, <3>2, <3>3, <3>4
         DEF OnlyReapplyTaintsCheckpoint, EntriesOf, AppliedOnce, RunsOf
    <3> QED BY <2>2, <3>5 DEF OnlyReapplyTaintsCheckpoint
  <2>4. CASE CreateEntry(p) /\ maker' # maker
    <3>1. PICK g \in FreshGuids : CreateObject(g, ctx[p].op)
      BY <2>4 DEF CreateEntry, hostVars
    <3>2. maker' = [maker EXCEPT ![g] = ctx[p].op] /\ bcdCopy' = bcdCopy
      BY <3>1 DEF CreateObject, backupVars
    <3>3. \A r \in Ops : EntriesOf(r)' \subseteq EntriesOf(r) \union {g}
      BY <2>2, <3>2 DEF EntriesOf, TypeOK, HostTypeOK
    <3>4. ASSUME NEW r \in Unshared
          PROVE  Clean(r)'
      <4>1. /\ savedPlan[r] # NoPlan /\ bcdCopy[savedPlan[r]] # NoStore =>
                 g \notin bcdCopy[savedPlan[r]].objects
        BY <2>2, <3>1 DEF FreshUnknown, TypeOK, StoreTypeOK
      <4> QED BY <2>1, <2>2, <3>2, <3>3, <4>1 DEF OnlyReapplyTaintsCheckpoint, AppliedOnce, RunsOf
    <3> QED BY <2>2, <3>4 DEF OnlyReapplyTaintsCheckpoint
  <2> QED BY <1>2, <2>1, <2>3, <2>4 DEF Changes
<1>4. ASSUME NEW p \in Procs, NEW o \in Ops, Loads(p, o)
      PROVE  OnlyReapplyTaintsCheckpoint'
  BY <1>2, <1>4 DEF Loads, storeVars, runVars, hostVars
<1>5. CASE UNCHANGED <<storeVars, opVars, procVars, stage, espCopy, bcdCopy, maker>>
  BY <1>2, <1>5 DEF storeVars, runVars
<1> QED BY <1>1, <1>3, <1>4, <1>5, StepKinds

-----------------------------------------------------------------------------
(* The invariant holds before the first command. *)
LEMMA InvInit ==
  ASSUME Init
  PROVE  Inv
<1>1. /\ TypeOK
      /\ \A o \in Ops : /\ savedPlan[o] = NoPlan /\ ran[o] = {} /\ o \in Unshared
                        /\ EntriesOf(o) = {}
                        /\ files[o] = {}
                        /\ ~Loadable(o)
      /\ recorded = {}
      /\ \A p \in Procs : pc[p] = "idle" /\ ctx[p].step = 1
  BY TypeInit, OpsAssumption, FilesAssumption
     DEF Init, StoreInit, HostInit, Unshared, EntriesOf, NoOp, Loadable, NoContext, Opening
<1>0. Unshared \subseteq Ops
  BY DEF Unshared
<1>2. Remembered /\ Bound /\ Owned /\ Journaled /\ Untouched /\ Backed /\ KindFits
  BY <1>0, <1>1
     DEF Remembered, Bound, Owned, Journaled, Untouched, Backed, KindFits, Applies, Saves,
         ApplyCalls,
              SaveCalls, EarlyCalls, CheckpointCalls
<1>3. FirstFile /\ Written /\ Forgotten
  BY <1>1 DEF FirstFile, Written, Forgotten, Saves, SaveCalls
<1>4. FreshUnknown
  BY DEF FreshUnknown, Init, HostInit
<1>5. MetadataComplete /\ RolledBackForgotten /\ OnlyReapplyTaintsCheckpoint
  BY <1>0, <1>1 DEF MetadataComplete, RolledBackForgotten, HasStatus, OnlyReapplyTaintsCheckpoint
<1> QED BY <1>1, <1>2, <1>3, <1>4, <1>5 DEF Inv

(* Every step keeps the invariant. *)
LEMMA InvNext ==
  ASSUME Inv, [Next]_vars
  PROVE  Inv'
<1>1. TypeOK'
  BY TypeNext DEF Inv
<1>2. Remembered' /\ Bound' /\ Owned' /\ Journaled' /\ Untouched' /\ KindFits'
  BY RememberedNext, BoundNext, OwnedNext, JournaledNext, UntouchedNext, KindFitsNext DEF Inv
<1>3. FirstFile' /\ Written' /\ Forgotten'
  BY FirstFileNext, WrittenNext, ForgottenNext DEF Inv
<1>4. Backed' /\ FreshUnknown'
  BY BackedNext, FreshUnknownNext DEF Inv
<1>5. MetadataComplete' /\ RolledBackForgotten' /\ OnlyReapplyTaintsCheckpoint'
  BY MetadataCompleteNext, RolledBackForgottenNext, OnlyReapplyTaintsCheckpointNext DEF Inv
<1> QED BY <1>1, <1>2, <1>3, <1>4, <1>5 DEF Inv

(* The invariant holds in every state the commands can reach. *)
THEOREM InvCorrect == Spec => []Inv
<1>1. Init => Inv
  BY InvInit
<1>2. Inv /\ [Next]_vars => Inv'
  BY InvNext
<1> QED BY <1>1, <1>2, PTL DEF Spec

-----------------------------------------------------------------------------
(* A recorded operation that still has its entry id has all the metadata files
   rollback and verify read (service.rs:709-764). *)
THEOREM MetadataCompleteCorrect == Spec => []MetadataComplete
<1>1. Inv => MetadataComplete
  BY DEF Inv
<1> QED BY <1>1, InvCorrect, PTL

(* An operation recorded as rolled back has lost its entry id
   (service.rs:326-348). *)
THEOREM RolledBackForgottenCorrect == Spec => []RolledBackForgotten
<1>1. Inv => RolledBackForgotten
  BY DEF Inv
<1> QED BY <1>1, InvCorrect, PTL

(* An exported store holds an entry of an operation of its plan only if the
   plan was applied more than once (service.rs:220). *)
THEOREM OnlyReapplyTaintsCheckpointCorrect == Spec => []OnlyReapplyTaintsCheckpoint
<1>1. Inv => OnlyReapplyTaintsCheckpoint
  BY DEF Inv
<1> QED BY <1>1, InvCorrect, PTL

(* Whatever exists of an operation, its backup existed before, whichever other
   commands run at the same time (service.rs:220-230). *)
THEOREM CheckpointBeforeChangeCorrect == Spec => []CheckpointBeforeChange
<1>1. Inv => CheckpointBeforeChange
  BY DEF Inv, CheckpointBeforeChange, Unshared, Traces, Journaled, Backed, Backup, Complete
<1> QED BY <1>1, InvCorrect, PTL

-----------------------------------------------------------------------------
(* Only verify's own calls find something, the backups only by looking. *)
LEMMA BackupsFound ==
  ASSUME TypeOK, NEW p \in Procs, Continue(p) \/ Abort(p), pc'[p] # "idle",
         "backups" \in ctx'[p].found
  PROVE  "backups" \in ctx[p].found \/ BackupReachable(ctx[p].plan)
<1> USE DEF TypeOK, ProcsTypeOK, Contexts
<1>1. CASE ApplyStep(p)
  BY <1>1 DEF ApplyStep, MakeEspDir, CopyEsp, ExportBcd, WriteManifest, StageWim, StageSdi,
              CreateEntry, ConfigureEntry, WriteMetadata, ConfirmEntry, UndoStore, UndoStage,
              Goto, GotoSave, NextFile, Quit
<1>2. CASE RollbackStep(p) \/ Truncate(p) \/ Write(p)
  BY <1>2 DEF RollbackStep, ReadMetadata, ImportBackup, Unstage, RemoveMetadata, Truncate, Write,
              Goto, GotoSave, NextFile, Quit
<1>3. CASE InspectArtifacts(p)
  BY <1>3 DEF InspectArtifacts, Find, If, Quit
<1>4. CASE StatStaged(p) \/ EnumEntry(p)
  BY <1>4 DEF StatStaged, EnumEntry, Find, If
<1>5. CASE PrintReport(p) \/ Abort(p)
  BY <1>5 DEF PrintReport, Abort, Quit
<1> QED BY <1>1, <1>2, <1>3, <1>4, <1>5 DEF Continue, VerifyStep

(* A backup that was found stays where it was found. *)
LEMMA BackupsSeenNext ==
  ASSUME Inv, BackupsSeen, [Next]_vars
  PROVE  BackupsSeen'
<1> USE DEF Inv
<1>1. ASSUME NEW p \in Procs, NEW o \in Ops, NEW pl \in Plans, StartApply(p, o, pl)
      PROVE  BackupsSeen'
  <2>1. ctx'[p].found = {} /\ Alone(p) /\ bcdCopy' = bcdCopy
    BY <1>1, ApplyStarts
       DEF StartApply, Begin, Opening, TypeOK, ProcsTypeOK, hostVars, backupVars
  <2> QED BY <2>1 DEF BackupsSeen, BackupReachable, Alone
<1>2. ASSUME NEW p \in Procs, NEW o \in Ops, Loads(p, o)
      PROVE  BackupsSeen'
  <2>1. ctx'[p].found = {} /\ Alone(p) /\ bcdCopy' = bcdCopy
    BY <1>2 DEF Loads, Opening, hostVars, backupVars
  <2> QED BY <2>1 DEF BackupsSeen, BackupReachable, Alone
<1>3. ASSUME NEW p \in Procs, Continue(p) \/ Abort(p)
      PROVE  BackupsSeen'
  <2>1. Alone(p) /\ pc[p] # "idle" /\ (pc'[p] # "idle" => ctx'[p].plan = ctx[p].plan)
    BY <1>3, RunningKeeps, RunningBusy DEF Keeps, Stays
  <2>2. \A q \in Procs : pc[q] # "idle" => ctx[q].plan \in Plans
    BY PlanKnown
  <2>3. \A pl \in Plans : BackupReachable(pl) => BackupReachable(pl)'
    BY <1>3, PartsKept DEF BackupReachable
  <2>4. ASSUME NEW q \in Procs, pc'[q] # "idle", "backups" \in ctx'[q].found
        PROVE  BackupReachable(ctx[q].plan) /\ ctx'[q].plan = ctx[q].plan /\ pc[q] # "idle"
    <3>1. CASE q = p
      BY <1>3, <2>1, <2>4, <3>1, BackupsFound DEF BackupsSeen
    <3>2. CASE q # p
      BY <2>1, <2>4, <3>2 DEF Alone, BackupsSeen
    <3> QED BY <3>1, <3>2
  <2> QED BY <2>2, <2>3, <2>4 DEF BackupsSeen, BackupReachable
<1>4. CASE UNCHANGED <<storeVars, opVars, procVars, stage, espCopy, bcdCopy, maker>>
  BY <1>4 DEF BackupsSeen, BackupReachable, procVars
<1> QED BY <1>1, <1>2, <1>3, <1>4, StepKinds

(* What verify calls verified can be rolled back: a backup never goes away from
   where the report found it, and a recorded operation has all its metadata or no
   entry id (service.rs:258-333). *)
THEOREM VerifiedCanRollBackCorrect == Spec => []VerifiedCanRollBack
<1>1. Init => BackupsSeen
  BY DEF Init, BackupsSeen
<1>2. Inv /\ BackupsSeen /\ [Next]_vars => BackupsSeen'
  BY BackupsSeenNext
<1>3. Inv /\ BackupsSeen => VerifiedCanRollBack
  <2> SUFFICES ASSUME Inv, BackupsSeen, NEW p \in Procs, pc[p] = "print", Verified(p)
               PROVE  /\ BackupReachable(ctx[p].plan)
                      /\ ctx[p].op \in Unshared /\ HasEntryId(ctx[p].op) =>
                           MetadataReadable(ctx[p].op)
    BY DEF VerifiedCanRollBack
  <2>1. "backups" \in ctx[p].found
    BY DEF Verified
  <2>2. ctx[p].op \in recorded
    BY DEF Inv, Owned, Applies, ApplyCalls, SaveCalls
  <2> QED BY <2>1, <2>2 DEF BackupsSeen, Inv, MetadataComplete, Unshared
<1> QED BY <1>1, <1>2, <1>3, InvCorrect, PTL DEF Spec

-----------------------------------------------------------------------------
(* The journal implements the ledger. *)
Answered == [o \in Ops |-> IF o \in reissued THEN NoFile ELSE journal[o]]

Book == [o \in Ops |-> IF o \in recorded \ reissued THEN savedPlan[o] ELSE NoPlan]

(* The empty journal is the empty ledger. *)
LEMMA LedgerInitMaps ==
  ASSUME Init
  PROVE  Ledger!LedgerInit
BY DEF Init, StoreInit, Ledger!LedgerInit

(* A step that leaves the records and the plans of the identifiers the ledger
   answers for alone is a stutter of the ledger. *)
LEMMA LedgerStutters ==
  ASSUME reissued' = reissued,
         \A o \in Unshared : journal'[o] = journal[o] /\ (o \in recorded' <=> o \in recorded),
         \A o \in Unshared : o \in recorded => savedPlan'[o] = savedPlan[o]
  PROVE  UNCHANGED Ledger!ledgerVars
<1>1. Answered' = Answered
  BY DEF Answered, Unshared
<1>2. Book' = Book
  BY DEF Book, Unshared
<1> QED BY <1>1, <1>2 DEF Answered, Book, Ledger!ledgerVars

(* A second apply under an identifier withdraws it. *)
LEMMA LedgerWithdraws ==
  ASSUME TypeOK, NEW p \in Procs, NEW o \in Unshared, NEW pl \in Plans, StartApply(p, o, pl),
         savedPlan[o] # NoPlan
  PROVE  Ledger!LedgerNext
<1>1. /\ o \in Ops /\ o \notin reissued
      /\ reissued' = reissued \union {o}
      /\ UNCHANGED <<journal, recorded>>
      /\ \A r \in Ops \ {o} : savedPlan'[r] = savedPlan[r]
  BY ApplyStarts DEF Unshared, TypeOK, StoreTypeOK
<1>2. Answered' = [Answered EXCEPT ![o] = NoFile]
  BY <1>1 DEF Answered
<1>3. Book' = [Book EXCEPT ![o] = NoPlan]
  BY <1>1 DEF Book
<1>4. Ledger!Withdraw(o)
  BY <1>1, <1>2, <1>3 DEF Answered, Book, Ledger!Withdraw
<1> QED BY <1>1, <1>4 DEF Ledger!LedgerNext

(* Every step is a step of the ledger or leaves it alone. *)
LEMMA LedgerNextMaps ==
  ASSUME Inv, [Next]_vars
  PROVE  [Ledger!LedgerNext]_(Ledger!ledgerVars)
<1> USE DEF Inv
<1>1. ASSUME NEW p \in Procs, NEW o \in Ops, NEW pl \in Plans, StartApply(p, o, pl)
      PROVE  [Ledger!LedgerNext]_(Ledger!ledgerVars)
  <2>1. CASE o \in Unshared /\ savedPlan[o] # NoPlan
    BY <1>1, <2>1, LedgerWithdraws
  <2>2. CASE o \notin Unshared \/ savedPlan[o] = NoPlan
    <3>1. reissued' = reissued /\ journal' = journal /\ recorded' = recorded
      BY <1>1, <2>2, ApplyStarts DEF Unshared
    <3>2. ASSUME NEW r \in Unshared, r \in recorded
          PROVE  savedPlan'[r] = savedPlan[r]
      BY <1>1, <2>2, <3>2, FirstApply DEF Journaled, Unshared
    <3> QED BY <3>1, <3>2, LedgerStutters
  <2> QED BY <2>1, <2>2
<1>2. ASSUME NEW p \in Procs, NEW o \in Ops, Loads(p, o)
      PROVE  UNCHANGED Ledger!ledgerVars
  BY <1>2, LedgerStutters DEF Loads, storeVars, runVars
<1>3. ASSUME NEW p \in Procs, Continue(p) \/ Abort(p)
      PROVE  [Ledger!LedgerNext]_(Ledger!ledgerVars)
  <2>1. /\ Changes(p) /\ ctx[p].op \in Ops /\ ctx[p].plan \in Plans
        /\ UNCHANGED <<savedPlan, reissued>>
        /\ ctx[p].op \in Unshared => savedPlan[ctx[p].op] = ctx[p].plan
        /\ ctx[p].op \in Unshared <=> ctx[p].op \notin reissued
    BY <1>3, Effects, RunningBusy, RunningKeeps, PlanKnown DEF Keeps, Unshared
  <2>2. CASE Truncate(p) /\ ctx[p].op \in Unshared
    <3>1. journal' = [journal EXCEPT ![ctx[p].op] = Torn] /\ recorded' = recorded
      BY <2>2 DEF Truncate, TruncateJournal
    <3>2. Book' = Book /\ Answered' = [Answered EXCEPT ![ctx[p].op] = Torn]
      BY <2>1, <2>2, <3>1 DEF Book, Answered, TypeOK, StoreTypeOK
    <3>3. PICK o \in Ops \ reissued : o = ctx[p].op
      BY <2>1, <2>2
    <3>4. Ledger!Damage(o)
      BY <2>1, <3>2, <3>3 DEF Book, Answered, Ledger!Damage
    <3> QED BY <3>4 DEF Ledger!LedgerNext
  <2>3. CASE Write(p) /\ ctx[p].op \in Unshared
    <3>1. /\ pc[p] = "write"
          /\ journal' = [journal EXCEPT ![ctx[p].op] =
                           [status |-> ctx[p].status, plan |-> ctx[p].plan]]
          /\ recorded' = recorded \union {ctx[p].op}
          /\ ctx[p].status \in Statuses
      BY <2>3 DEF Write, FillJournal, TypeOK, ProcsTypeOK, SaveCalls
    <3>2. Answered' = [Answered EXCEPT ![ctx[p].op] = [status |-> ctx[p].status, plan |-> ctx[p].plan]]
      BY <2>1, <2>3, <3>1 DEF Answered, TypeOK, StoreTypeOK
    <3>3. CASE Applies(p)
      <4>1. ctx[p].op \notin recorded
        BY <2>3, <3>3 DEF Owned
      <4>2. ctx[p].status = Ledger!Outcome(ctx[p].plan)
        BY <3>1, <3>3 DEF Applies, KindFits, Saves, SaveCalls, ApplyCalls, Ledger!Outcome
      <4>3. Book[ctx[p].op] = NoPlan
        BY <2>1, <4>1 DEF Book
      <4>4. Book' = [Book EXCEPT ![ctx[p].op] = ctx[p].plan]
        BY <2>1, <2>3, <3>1 DEF Book
      <4>5. PICK o \in Ops \ reissued, pl \in Plans : o = ctx[p].op /\ pl = ctx[p].plan
        BY <2>1, <2>3
      <4>6. Ledger!RecordOutcome(o, pl)
        BY <2>1, <3>2, <4>2, <4>3, <4>4, <4>5 DEF Book, Answered, Ledger!RecordOutcome
      <4> QED BY <4>6 DEF Ledger!LedgerNext
    <3>4. CASE ~Applies(p)
      <4>1. ctx[p].op \in recorded
        BY <3>1, <3>4 DEF Owned
      <4>2. ctx[p].status \in Ledger!RecoveryStatuses
        BY <3>1, <3>4 DEF Applies, SaveCalls, Statuses, Ledger!RecoveryStatuses
      <4>3. Book[ctx[p].op] = ctx[p].plan /\ ctx[p].plan # NoPlan
        BY <2>1, <2>3, <4>1, PlansAssumption DEF Book
      <4>4. Book' = Book
        BY <2>1, <3>1, <4>1 DEF Book
      <4>5. PICK o \in Ops \ reissued, status \in Ledger!RecoveryStatuses :
              o = ctx[p].op /\ status = ctx[p].status
        BY <2>1, <2>3, <4>2
      <4>6. Ledger!RecordRecovery(o, status)
        BY <2>1, <3>2, <4>3, <4>4, <4>5 DEF Book, Answered, Ledger!RecordRecovery
      <4> QED BY <4>6 DEF Ledger!LedgerNext
    <3> QED BY <3>3, <3>4
  <2>4. CASE ~Truncate(p) /\ ~Write(p)
    BY <2>1, <2>4, LedgerStutters DEF Changes
  <2>5. CASE (Truncate(p) \/ Write(p)) /\ ctx[p].op \notin Unshared
    <3>1. /\ \A o \in Ops : o # ctx[p].op => journal'[o] = journal[o]
          /\ \A o \in Ops : o # ctx[p].op => (o \in recorded' <=> o \in recorded)
      BY <2>5 DEF Truncate, TruncateJournal, Write, FillJournal, TypeOK, StoreTypeOK
    <3> QED BY <2>1, <2>5, <3>1, LedgerStutters DEF Unshared
  <2> QED BY <2>2, <2>3, <2>4, <2>5
<1>4. CASE UNCHANGED <<storeVars, opVars, procVars, stage, espCopy, bcdCopy, maker>>
  BY <1>4, LedgerStutters DEF storeVars, runVars
<1> QED BY <1>1, <1>2, <1>3, <1>4, StepKinds

(* The journal binds an operation to one plan for good, records the outcome of
   its apply first and nothing but recovery after that, as long as no second
   apply gets the operation's identifier (service.rs:209-256 and 326-360,
   journal lib.rs:53-60). *)
THEOREM LedgerCorrect == Spec => ImplementsLedger
<1>1. Init => Ledger!LedgerInit
  BY LedgerInitMaps
<1>2. Inv /\ [Next]_vars => [Ledger!LedgerNext]_(Ledger!ledgerVars)
  BY LedgerNextMaps
<1>3. Spec => []Inv
  BY InvCorrect
<1> QED BY <1>1, <1>2, <1>3, PTL DEF Spec, ImplementsLedger, Ledger!LedgerSpec

=============================================================================
