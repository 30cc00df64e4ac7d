-------------------------- MODULE RegistrationProofs -------------------------
(***************************************************************************)
(* Proofs about BootRegistration, for any number of processes and entries: *)
(* what the boot menu shows is configured, and the commands of a           *)
(* registration implement EntryLife.  Then about SharedStore, and for any  *)
(* number of plans: only a registration an import ran into can leave an    *)
(* incomplete entry in the boot menu, and what success promises is there.  *)
(***************************************************************************)
EXTENDS SharedStore, TLAPS

(* The actions of a process, as the cases of a proof about Next. *)
Acts(p) ==
  \/ Call(p) \/ CreateObject(p) \/ EnumOptions(p) \/ CreateOptions(p)
  \/ ResolveOptions(p) \/ SetSdiDevice(p) \/ SetSdiPath(p) \/ SetDevice(p)
  \/ SetOsDevice(p) \/ SetElement(p) \/ Show(p) \/ FailInClosure(p)
  \/ DeleteObject(p) \/ Stop(p)

(* Init establishes the invariant. *)
LEMMA InvInit == Init => Inv
<1> SUFFICES ASSUME Init
             PROVE  Inv
  OBVIOUS
<1>1. TypeOK
  <2>1. options \in OptionValues
    BY DEF Init, NoOptions, OptionValues
  <2>2. entry \in [Guids -> Entries]
    BY DEF Init, Entries, Blank, Devices, ElementNames
  <2> QED
    BY <2>1, <2>2 DEF Init, TypeOK, Calls, Devices
<1>2. Holds /\ Alone /\ ShownIsConfigured
  BY DEF Init, Holds, Alone, ShownIsConfigured
<1>3. \A p \in Procs : ReachedBy(p)
  BY DEF Init, ReachedBy, ElementNames, InClosure
<1> QED
  BY <1>1, <1>2, <1>3 DEF Inv, Owned

(* Every action keeps the types. *)
LEMMA TypeStep ==
  ASSUME Owned, NEW p \in Procs, Acts(p)
  PROVE  TypeOK'
<1> USE DEF Owned, TypeOK, Calls, InClosure, ElementNames, Goto, Return
<1>1. CASE Call(p)
  BY <1>1 DEF Call, storeVars
<1>2. CASE CreateObject(p)
  BY <1>2 DEF CreateObject, Devices
<1>3. CASE EnumOptions(p)
  BY <1>3 DEF EnumOptions, storeVars
<1>4. CASE CreateOptions(p)
  <2>1. options' \in OptionValues
    BY <1>4 DEF CreateOptions, Bare, OptionValues
  <2> QED
    BY <1>4, <2>1 DEF CreateOptions, Devices
<1>5. CASE ResolveOptions(p)
  BY <1>5 DEF ResolveOptions, storeVars
<1>6. CASE SetSdiDevice(p) \/ SetSdiPath(p)
  <2>1. options' \in OptionValues
    BY <1>6 DEF SetSdiDevice, SetSdiPath, SetOption, OptionValues
  <2> QED
    BY <1>6, <2>1 DEF SetSdiDevice, SetSdiPath, SetOption
<1>7. CASE SetDevice(p)
  BY <1>7 DEF SetDevice, SetEntry, NextSpelling, Entries, Devices, storeVars
<1>8. CASE SetOsDevice(p)
  BY <1>8 DEF SetOsDevice, SetEntry, Entries, Devices
<1>9. CASE SetElement(p)
  <2>1. After[at[p]] \in Calls
    BY <1>9 DEF SetElement, After
  <2>2. entry' \in [Guids -> Entries]
    BY <1>9 DEF SetElement, SetEntry, Entries
  <2> QED
    BY <1>9, <2>1, <2>2 DEF SetElement, SetEntry
<1>10. CASE Show(p)
  BY <1>10 DEF Show, Devices
<1>11. CASE FailInClosure(p)
  BY <1>11 DEF FailInClosure, storeVars
<1>12. CASE DeleteObject(p)
  BY <1>12 DEF DeleteObject, Devices, Blank, Entries
<1>13. CASE Stop(p)
  BY <1>13 DEF Stop, storeVars, Devices
<1> QED
  BY <1>1, <1>2, <1>3, <1>4, <1>5, <1>6, <1>7, <1>8, <1>9, <1>10, <1>11,
     <1>12, <1>13 DEF Acts

(* Every process past create still holds an entry that is not shown: only its
   own Show would show it. *)
LEMMA HoldsStep ==
  ASSUME Owned, NEW p \in Procs, Acts(p)
  PROVE  Holds'
<1> USE GuidsAssumption DEF Owned, TypeOK, Holds, Alone, Calls, InClosure, ElementNames,
        Goto, Return
<1>1. CASE Call(p)
  BY <1>1 DEF Call, storeVars
<1>2. CASE CreateObject(p)
  BY <1>2 DEF CreateObject
<1>3. CASE EnumOptions(p)
  BY <1>3 DEF EnumOptions, storeVars
<1>4. CASE CreateOptions(p)
  BY <1>4 DEF CreateOptions
<1>5. CASE ResolveOptions(p)
  BY <1>5 DEF ResolveOptions, storeVars
<1>6. CASE SetSdiDevice(p) \/ SetSdiPath(p)
  BY <1>6 DEF SetSdiDevice, SetSdiPath, SetOption
<1>7. CASE SetDevice(p)
  BY <1>7 DEF SetDevice, SetEntry, NextSpelling, storeVars
<1>8. CASE SetOsDevice(p)
  BY <1>8 DEF SetOsDevice, SetEntry
<1>9. CASE SetElement(p)
  BY <1>9 DEF SetElement, SetEntry, After
<1>10. CASE Show(p)
  BY <1>10 DEF Show
<1>11. CASE FailInClosure(p)
  BY <1>11 DEF FailInClosure, storeVars
<1>12. CASE DeleteObject(p)
  BY <1>12 DEF DeleteObject
<1>13. CASE Stop(p)
  BY <1>13 DEF Stop, storeVars
<1> QED
  BY <1>1, <1>2, <1>3, <1>4, <1>5, <1>6, <1>7, <1>8, <1>9, <1>10, <1>11,
     <1>12, <1>13 DEF Acts

(* No two processes register the same entry, bcdedit giving each a new one. *)
LEMMA AloneStep ==
  ASSUME Owned, NEW p \in Procs, Acts(p)
  PROVE  Alone'
<1> USE GuidsAssumption DEF Owned, TypeOK, Holds, Alone
<1>1. CASE UNCHANGED mine
  BY <1>1
<1>2. CASE CreateObject(p)
  BY <1>2 DEF CreateObject, Return
<1>3. CASE Return(p)
  BY <1>3 DEF Return
<1> QED
  BY <1>1, <1>2, <1>3 DEF Acts, Call, EnumOptions, CreateOptions, ResolveOptions,
     SetSdiDevice, SetSdiPath, SetOption, SetDevice, SetOsDevice, SetElement,
     SetEntry, Show, FailInClosure, DeleteObject, Stop, Goto, storeVars

(* What a process has set stays set: the others work on entries of their own,
   and the options only ever become PartBooter's. *)
LEMMA ReachedStep ==
  ASSUME Owned, NEW p \in Procs, Acts(p), NEW q \in Procs, ReachedBy(q)
  PROVE  ReachedBy(q)'
<1> USE DEF Owned, TypeOK, Holds, Alone, Calls, InClosure, ElementNames, Goto, Return
<1>1. CASE Call(p) \/ EnumOptions(p) \/ ResolveOptions(p) \/ FailInClosure(p) \/ Stop(p)
  BY <1>1 DEF ReachedBy, Call, EnumOptions, ResolveOptions, FailInClosure, Stop, storeVars
<1>2. CASE CreateObject(p)
  BY <1>2 DEF ReachedBy, CreateObject
<1>3. CASE CreateOptions(p)
  <2>1. CASE UNCHANGED options
    BY <1>3, <2>1 DEF ReachedBy, CreateOptions
  <2>2. CASE options = NoOptions
    <3>1. options # Ours /\ options["ramdisksdidevice"] # "partbooter"
      BY <2>2 DEF NoOptions, Ours, OptionNames
    <3>2. at[q] \notin InClosure \ {"sdidevice"}
      BY <3>1 DEF ReachedBy
    <3>3. at'[q] \in {at[q], "resolve", "idle"}
      BY <1>3 DEF CreateOptions
    <3> QED
      BY <3>2, <3>3 DEF ReachedBy
  <2> QED
    BY <1>3, <2>1, <2>2 DEF CreateOptions
<1>4. CASE SetSdiDevice(p)
  BY <1>4 DEF ReachedBy, SetSdiDevice, SetOption, Ours, OptionNames, OptionValues
<1>5. CASE SetSdiPath(p)
  BY <1>5 DEF ReachedBy, SetSdiPath, SetOption, Ours, OptionNames, OptionValues
<1>6. CASE SetDevice(p)
  <2>1. CASE NextSpelling(p) /\ UNCHANGED <<storeVars, at, mine>>
    BY <1>6, <2>1 DEF ReachedBy, SetDevice, NextSpelling, storeVars
  <2>2. CASE q # p
    <3>1. UNCHANGED <<at[q], mine[q], candidate[q], options>>
      BY <1>6, <2>2 DEF SetDevice, SetEntry, NextSpelling, storeVars
    <3>2. ASSUME at[q] \notin {"idle", "create"}
          PROVE  entry'[mine[q]] = entry[mine[q]]
      <4>1. mine[q] \in Guids /\ mine[q] # mine[p]
        BY <1>6, <2>2, <3>2, GuidsAssumption
      <4>2. \/ entry' = [entry EXCEPT ![mine[p]] = [@ EXCEPT !.device = candidate[p]]]
            \/ entry' = entry
        BY <1>6, <2>2 DEF SetDevice, SetEntry, storeVars
      <4> QED
        BY <4>1, <4>2
    <3> QED
      BY <3>1, <3>2 DEF ReachedBy
  <2>3. CASE q = p /\ ~(NextSpelling(p) /\ UNCHANGED <<storeVars, at, mine>>)
    <3>1. mine[p] \in Guids /\ at' = [at EXCEPT ![p] = "osdevice"]
      BY <1>6, <2>3 DEF SetDevice
    <3>2. entry' = [entry EXCEPT ![mine[p]] = [@ EXCEPT !.device = candidate[p]]]
      BY <1>6, <2>3 DEF SetDevice, SetEntry
    <3>3. entry'[mine[p]].device = candidate[p]
      BY <3>1, <3>2 DEF Entries
    <3> QED
      BY <1>6, <2>3, <3>1, <3>3 DEF ReachedBy, SetDevice, SetEntry
  <2> QED
    BY <2>1, <2>2, <2>3
<1>7. CASE SetOsDevice(p)
  <2>1. CASE q # p
    <3>1. UNCHANGED <<at[q], mine[q], candidate[q], options>>
      BY <1>7, <2>1 DEF SetOsDevice, SetEntry
    <3>2. ASSUME at[q] \notin {"idle", "create"}
          PROVE  entry'[mine[q]] = entry[mine[q]]
      <4>1. mine[q] \in Guids /\ mine[q] # mine[p]
        BY <1>7, <2>1, <3>2, GuidsAssumption
      <4>2. \/ entry' = [entry EXCEPT ![mine[p]] = [@ EXCEPT !.osdevice = candidate[p]]]
            \/ entry' = entry
        BY <1>7, <2>1 DEF SetOsDevice, SetEntry
      <4> QED
        BY <4>1, <4>2
    <3> QED
      BY <3>1, <3>2 DEF ReachedBy
  <2>2. CASE q = p
    <3>1. mine[p] \in Guids /\ at' = [at EXCEPT ![p] = "path"]
      BY <1>7 DEF SetOsDevice
    <3>2. entry' = [entry EXCEPT ![mine[p]] = [@ EXCEPT !.osdevice = candidate[p]]]
      BY <1>7 DEF SetOsDevice, SetEntry
    <3>3. /\ entry'[mine[p]].osdevice = candidate[p]
          /\ entry'[mine[p]].device = entry[mine[p]].device
      BY <3>1, <3>2 DEF Entries
    <3>4. entry[mine[p]].device = candidate[p] /\ options = Ours
      BY <1>7, <2>2 DEF ReachedBy, SetOsDevice
    <3> QED
      BY <1>7, <2>2, <3>1, <3>3, <3>4 DEF ReachedBy, SetOsDevice, SetEntry, Done
  <2> QED
    BY <2>1, <2>2
<1>8. CASE SetElement(p)
  BY <1>8 DEF ReachedBy, SetElement, SetEntry, Entries, Done, After
<1>9. CASE Show(p)
  BY <1>9 DEF ReachedBy, Show
<1>10. CASE DeleteObject(p)
  <2>1. CASE q = p
    BY <1>10, <2>1 DEF ReachedBy, DeleteObject
  <2>2. CASE q # p
    <3>1. UNCHANGED <<at[q], mine[q], candidate[q], options>>
      BY <1>10, <2>2 DEF DeleteObject
    <3>2. ASSUME at[q] \notin {"idle", "create"}
          PROVE  entry'[mine[q]] = entry[mine[q]]
      <4>1. mine[q] \in Guids /\ mine[q] # mine[p]
        BY <1>10, <2>2, <3>2, GuidsAssumption
      <4>2. entry' = [entry EXCEPT ![mine[p]] = Blank] \/ entry' = entry
        BY <1>10 DEF DeleteObject
      <4> QED
        BY <4>1, <4>2
    <3> QED
      BY <3>1, <3>2 DEF ReachedBy
  <2> QED
    BY <2>1, <2>2
<1> QED
  BY <1>1, <1>2, <1>3, <1>4, <1>5, <1>6, <1>7, <1>8, <1>9, <1>10 DEF Acts

(* A shown entry is nobody's to change any more, and Show adds a complete one. *)
LEMMA ShownStep ==
  ASSUME Owned, NEW p \in Procs, Acts(p), NEW g \in Guids, g \in shown',
         g \in shown => Configured(g, entry, options), g = mine[p] => ReachedBy(p)
  PROVE  Configured(g, entry, options)'
<1> USE DEF Owned, TypeOK, Holds, Configured, Goto, Return
<1>1. CASE Call(p) \/ CreateObject(p) \/ EnumOptions(p) \/ ResolveOptions(p)
           \/ FailInClosure(p) \/ DeleteObject(p) \/ Stop(p)
  BY <1>1 DEF Call, CreateObject, EnumOptions, ResolveOptions, FailInClosure,
     DeleteObject, Stop, storeVars
<1>2. CASE CreateOptions(p)
  BY <1>2 DEF CreateOptions, NoOptions, Ours, OptionNames
<1>3. CASE SetSdiDevice(p) \/ SetSdiPath(p)
  BY <1>3 DEF SetSdiDevice, SetSdiPath, SetOption, Ours, OptionNames, OptionValues
<1>4. CASE SetDevice(p) \/ SetOsDevice(p) \/ SetElement(p)
  BY <1>4 DEF SetDevice, SetOsDevice, SetElement, SetEntry, NextSpelling,
     ElementNames, storeVars
<1>5. CASE Show(p)
  BY <1>5 DEF Show, ReachedBy, Done, InClosure, ElementNames, Entries, Devices
<1> QED
  BY <1>1, <1>2, <1>3, <1>4, <1>5 DEF Acts

(* The invariant is inductive. *)
LEMMA InvNext == Inv /\ [Next]_vars => Inv'
<1> SUFFICES ASSUME Inv, [Next]_vars
             PROVE  Inv'
  OBVIOUS
<1>1. CASE UNCHANGED vars
  BY <1>1 DEF Inv, Owned, TypeOK, Holds, Alone, ReachedBy, ShownIsConfigured, Configured,
     vars, storeVars
<1>2. ASSUME NEW p \in Procs, Acts(p)
      PROVE  Inv'
  <2>1. Owned'
    BY <1>2, TypeStep, HoldsStep, AloneStep DEF Inv, Owned
  <2>2. \A q \in Procs : ReachedBy(q)'
    BY <1>2, ReachedStep DEF Inv
  <2>3. ASSUME NEW g \in shown'
        PROVE  Configured(g, entry, options)'
    BY <1>2, <2>1, <2>3, ShownStep DEF Inv, ShownIsConfigured, Owned, TypeOK
  <2> QED
    BY <2>1, <2>2, <2>3 DEF Inv, ShownIsConfigured
<1> QED
  BY <1>1, <1>2 DEF Next, Step, Acts

(* The inductive invariant of a registration (windows:506-616): past the
   creation a process holds an entry of its own, and its commands took effect. *)
THEOREM InvCorrect == Spec => []Inv
<1>1. Init => Inv
  BY InvInit
<1>2. Inv /\ [Next]_vars => Inv'
  BY InvNext
<1> QED
  BY <1>1, <1>2, PTL DEF Spec

(* Every variable of the registration keeps its type. *)
THEOREM TypeCorrect == Spec => []TypeOK
<1>1. Inv => TypeOK
  BY DEF Inv, Owned
<1> QED
  BY <1>1, InvCorrect, PTL

(* Every entry in the boot menu is completely configured. *)
THEOREM ShownIsConfiguredCorrect == Spec => []ShownIsConfigured
<1>1. Inv => ShownIsConfigured
  BY DEF Inv
<1> QED
  BY <1>1, InvCorrect, PTL

-----------------------------------------------------------------------------
(* An action maps to a step of EntryLife, or to a stutter. *)
LEMMA LifeNextMaps ==
  ASSUME Inv, [Next]_vars
  PROVE  [Life!LifeNext]_LifeOf
<1>1. CASE UNCHANGED <<given, shown, objects>>
  BY <1>1 DEF LifeOf
<1>2. ASSUME NEW p \in Procs, NEW g \in Guids \ given,
             given' = given \union {g}, objects' = objects \union {g}, UNCHANGED shown
      PROVE  Life!LifeNext
  <2>1. LifeOf' = [LifeOf EXCEPT ![g] = "created"] /\ LifeOf[g] = "unknown"
    BY <1>2 DEF Inv, Owned, TypeOK, LifeOf
  <2> QED
    BY <2>1 DEF Life!LifeNext, Life!Create
<1>3. ASSUME NEW p \in Procs, Show(p)
      PROVE  Life!LifeNext
  <2>1. PICK g \in Guids : g = mine[p] /\ g \in given \ shown
    BY <1>3 DEF Show, Inv, Owned, Holds, TypeOK
  <2>2. LifeOf' = [LifeOf EXCEPT ![g] = "registered"] /\ LifeOf[g] = "created"
    BY <1>3, <2>1 DEF Show, Inv, Owned, TypeOK, LifeOf
  <2> QED
    BY <2>1, <2>2 DEF Life!LifeNext, Life!Register
<1>4. ASSUME NEW p \in Procs, DeleteObject(p), ~UNCHANGED <<given, shown, objects>>
      PROVE  Life!LifeNext
  <2>1. PICK g \in Guids : g = mine[p] /\ g \in given \ shown
    BY <1>4 DEF DeleteObject, Inv, Owned, Holds, TypeOK
  <2>2. g \in objects /\ objects' = objects \ {g} /\ UNCHANGED <<given, shown>>
    BY <1>4, <2>1 DEF DeleteObject
  <2>3. LifeOf' = [LifeOf EXCEPT ![g] = "withdrawn"] /\ LifeOf[g] = "created"
    BY <2>1, <2>2 DEF Inv, Owned, TypeOK, LifeOf
  <2> QED
    BY <2>1, <2>3 DEF Life!LifeNext, Life!Withdraw
<1>5. ASSUME NEW p \in Procs, CreateObject(p)
      PROVE  Life!LifeNext
  BY <1>2, <1>5 DEF CreateObject
<1> QED
  BY <1>1, <1>3, <1>4, <1>5 DEF Next, Step, vars, storeVars, Call, EnumOptions,
     CreateOptions, ResolveOptions, SetSdiDevice, SetSdiPath, SetOption, SetDevice,
     SetOsDevice, SetElement, SetEntry, FailInClosure, Stop

(* Seen from the service, a registration is an entry created and then either
   registered for good or withdrawn. *)
THEOREM EntryLifeCorrect == Spec => ImplementsEntryLife
<1>1. Init => Life!LifeInit
  BY DEF Init, Life!LifeInit, LifeOf
<1>2. Inv /\ [Next]_vars => [Life!LifeNext]_LifeOf
  BY LifeNextMaps
<1> QED
  BY <1>1, <1>2, InvCorrect, PTL DEF Spec, ImplementsEntryLife, Life!LifeSpec

-----------------------------------------------------------------------------
(* SharedStore.  A step of it is a step of a registration, for which the lemmas
   above hold, an import, or leaves the store alone. *)

(* The steps a registration takes, in the phase for it *)
Registers(p) == phase[p] = "register" /\ Acts(p) /\ UNCHANGED <<backup, overrun, original, reexported>>

(* The imports, by a process that is between applies *)
Imports(p) ==
  /\ phase[p] \in {"free", "undo"}
  /\ \E pl \in Plans : Import(p, pl)
  /\ UNCHANGED <<backup, confirming>>

(* The steps beside the store; a checkpoint writes it to a backup. *)
Waits ==
  /\ UNCHANGED vars /\ UNCHANGED overrun
  /\ \A pl \in Plans : backup'[pl] \in {backup[pl], Store}

(* What a step of the shared store may be, and what each kind leaves alone. *)
LEMMA StepKinds ==
  ASSUME StoreInv, [StoreNext]_allVars
  PROVE  Waits \/ \E p \in Procs : Registers(p) \/ Imports(p)
<1> USE DEF Waits
<1>1. CASE UNCHANGED allVars
  BY <1>1 DEF allVars, serviceVars, historyVars
<1>2. ASSUME NEW p \in Procs, at[p] # "idle"
      PROVE  phase[p] = "register"
  BY <1>2 DEF StoreInv, Phases
<1>3. ASSUME NEW p \in Procs, BeginRegistration(p) \/ GoOn(p) \/ Registered(p) \/ Failed(p)
      PROVE  Registers(p)
  <2>1. at[p] # "idle" \/ phase[p] = "register"
    BY <1>3 DEF BeginRegistration, GoOn, Registered, Failed, Step, Stop, CreateObject,
       EnumOptions, CreateOptions, ResolveOptions, SetSdiDevice, SetSdiPath, SetDevice,
       SetOsDevice, SetElement, Show, FailInClosure, DeleteObject, InClosure, ElementNames
  <2> QED
    BY <1>2, <1>3, <2>1 DEF Registers, Acts, BeginRegistration, GoOn, Registered, Failed, Step,
       serviceVars, historyVars
<1>4. ASSUME NEW p \in Procs, Die(p)
      PROVE  Registers(p) \/ Waits
  BY <1>2, <1>4 DEF Die, Registers, Acts, Stop, historyVars
<1>5. ASSUME NEW p \in Procs, Confirm(p) \/ \E pl \in Plans : Checkpoint(p, pl)
      PROVE  Waits
  BY <1>5 DEF Confirm, Checkpoint, StoreInv, StoreTypeOK
<1>6. ASSUME NEW p \in Procs, Undo(p)
      PROVE  Imports(p) \/ Waits
  <2>1. using[p] \in Plans /\ phase[p] = "undo"
    BY <1>6 DEF Undo, StoreInv, Phases
  <2> QED
    BY <1>6, <2>1 DEF Undo, Imports, historyVars
<1>7. ASSUME NEW p \in Procs, NEW pl \in Plans, Rollback(p, pl)
      PROVE  Imports(p)
  BY <1>7 DEF Rollback, Imports, serviceVars
<1> QED
  BY <1>1, <1>3, <1>4, <1>5, <1>6, <1>7 DEF StoreNext

(* A process that is between applies holds no entry. *)
LEMMA ImporterIdle ==
  ASSUME StoreInv, NEW p \in Procs, Imports(p)
  PROVE  at[p] = "idle" /\ mine[p] = NoGuid /\ confirming[p] = NoGuid
  BY DEF StoreInv, Phases, Imports, Owned, Holds

(* What an import leaves of the registrations *)
LEMMA ImportOwned ==
  ASSUME StoreInv, NEW p \in Procs, Imports(p)
  PROVE  Owned'
<1>1. PICK pl \in Plans : Import(p, pl)
  BY DEF Imports
<1>2. backup[pl] \in Snapshots /\ BackupSound(pl) /\ backup[pl] # NoBackup
  BY <1>1 DEF Import, StoreInv, StoreTypeOK
<1>3. TypeOK'
  BY <1>1, <1>2 DEF Import, StoreInv, Owned, TypeOK, Snapshots, BackupSound
<1>4. Holds' /\ Alone'
  BY <1>1, <1>2 DEF Import, StoreInv, Owned, Holds, Alone, BackupSound
<1> QED
  BY <1>3, <1>4 DEF Owned

(* An entry is held by the process that created it. *)
LEMMA OwnedNext ==
  ASSUME StoreInv, [StoreNext]_allVars
  PROVE  Owned'
<1>1. CASE Waits
  BY <1>1 DEF Waits, StoreInv, Owned, TypeOK, Holds, Alone, vars, storeVars
<1>2. ASSUME NEW p \in Procs, Registers(p)
      PROVE  Owned'
  BY <1>2, TypeStep, HoldsStep, AloneStep DEF StoreInv, Registers, Owned
<1> QED
  BY <1>1, <1>2, StepKinds, ImportOwned

(* The store only gives out new identifiers, and a registration takes nothing
   from the boot menu. *)
LEMMA ActsGrow ==
  ASSUME Owned, NEW p \in Procs, Acts(p)
  PROVE  /\ given \subseteq given' /\ shown \subseteq shown'
         /\ \A q \in Procs : \/ mine'[q] = mine[q] /\ (at[q] = "idle" => at'[q] \in {"idle", "create"})
                             \/ mine'[q] = NoGuid /\ at'[q] = "idle"
                             \/ mine'[q] \in Guids \ given /\ at'[q] = "enum"
<1> USE DEF Owned, TypeOK, Holds, Goto, Return
<1>1. CASE \/ Call(p) \/ EnumOptions(p) \/ CreateOptions(p) \/ ResolveOptions(p)
           \/ FailInClosure(p) \/ Stop(p) \/ SetSdiDevice(p) \/ SetSdiPath(p)
  <2>1. UNCHANGED <<given, shown>>
    BY <1>1 DEF Call, EnumOptions, CreateOptions, ResolveOptions, FailInClosure, Stop,
       SetSdiDevice, SetSdiPath, SetOption, storeVars
  <2>2. \/ Return(p)
        \/ UNCHANGED mine /\ \A q \in Procs : at[q] = "idle" => at'[q] \in {"idle", "create"}
    BY <1>1 DEF Call, EnumOptions, CreateOptions, ResolveOptions, FailInClosure, Stop,
       SetSdiDevice, SetSdiPath, SetOption, Calls, InClosure, ElementNames
  <2>3. CASE Return(p)
    BY <2>1, <2>3
  <2>4. CASE UNCHANGED mine /\ \A q \in Procs : at[q] = "idle" => at'[q] \in {"idle", "create"}
    BY <2>1, <2>4
  <2> QED
    BY <2>2, <2>3, <2>4
<1>2. CASE SetDevice(p) \/ SetOsDevice(p) \/ SetElement(p)
  BY <1>2 DEF SetDevice, SetOsDevice, SetElement, SetEntry, NextSpelling, ElementNames, storeVars
<1>3. CASE CreateObject(p)
  BY <1>3 DEF CreateObject
<1>4. CASE Show(p) \/ DeleteObject(p)
  BY <1>4, GuidsAssumption DEF Show, DeleteObject
<1> QED
  BY <1>1, <1>2, <1>3, <1>4 DEF Acts

-----------------------------------------------------------------------------
(* What the service keeps *)
LEMMA ServiceTypeNext ==
  ASSUME StoreInv, [StoreNext]_allVars
  PROVE  StoreTypeOK'
<1> USE DEF StoreTypeOK
<1>1. TypeOK'
  BY OwnedNext DEF Owned
<1>2. CASE UNCHANGED allVars
  BY <1>1, <1>2 DEF StoreInv, allVars, serviceVars, historyVars
<1>3. ASSUME NEW p \in Procs, BeginRegistration(p) \/ GoOn(p) \/ Registered(p) \/ Failed(p) \/ Die(p)
      PROVE  StoreTypeOK'
  <2>1. mine[p] \in Guids \union {NoGuid}
    BY DEF StoreInv, TypeOK
  <2> QED
    BY <1>1, <1>3, <2>1 DEF StoreInv, BeginRegistration, GoOn, Registered, Failed, Die, Enter,
       serviceVars, historyVars
<1>4. ASSUME NEW p \in Procs, Confirm(p)
      PROVE  StoreTypeOK'
  <2>1. using[p] \in Plans /\ objects \subseteq Guids
    BY <1>4 DEF Confirm, StoreInv, Phases, Owned, TypeOK
  <2> QED
    BY <1>1, <1>4, <2>1 DEF StoreInv, Confirm, Enter
<1>5. ASSUME NEW p \in Procs, NEW pl \in Plans, Import(p, pl)
      PROVE  overrun' \subseteq Guids /\ UNCHANGED <<original, reexported, promised>>
  BY <1>5 DEF Import, StoreInv
<1>6. ASSUME NEW p \in Procs, Undo(p)
      PROVE  StoreTypeOK'
  <2>1. using[p] \in Plans
    BY <1>6 DEF Undo, StoreInv, Phases
  <2>2. overrun' \subseteq Guids /\ UNCHANGED <<original, reexported, promised>>
    BY <1>5, <1>6, <2>1 DEF Undo, historyVars, StoreInv
  <2> QED
    BY <1>1, <1>6, <2>2 DEF StoreInv, Undo, Enter
<1>7. ASSUME NEW p \in Procs, NEW pl \in Plans, Rollback(p, pl)
      PROVE  StoreTypeOK'
  BY <1>1, <1>5, <1>7 DEF StoreInv, Rollback, serviceVars
<1>8. ASSUME NEW p \in Procs, NEW pl \in Plans, Checkpoint(p, pl)
      PROVE  StoreTypeOK'
  <2>1. Store \in Snapshots
    BY DEF Store, Snapshots, StoreInv, TypeOK
  <2>2. applies' \in 0..MaxApplies
    BY <1>8, PlansAssumption DEF Checkpoint, StoreInv
  <2> QED
    BY <1>1, <1>8, <2>1, <2>2 DEF StoreInv, Checkpoint
<1> QED
  BY <1>2, <1>3, <1>4, <1>6, <1>7, <1>8 DEF StoreNext

(* The phase of a process fits its place in the registration. *)
LEMMA PhasesNext ==
  ASSUME StoreInv, [StoreNext]_allVars
  PROVE  Phases'
<1> USE DEF Phases
<1>1. CASE UNCHANGED allVars
  BY <1>1 DEF StoreInv, allVars, vars, serviceVars
<1>2. ASSUME NEW p \in Procs, NEW q \in Procs, q # p, Acts(p)
      PROVE  at'[q] = at[q]
  BY <1>2 DEF Acts, Call, CreateObject, EnumOptions, CreateOptions, ResolveOptions, SetSdiDevice,
     SetSdiPath, SetOption, SetDevice, SetOsDevice, SetElement, Show, FailInClosure, DeleteObject,
     Stop, Goto, Return, StoreInv, Owned, TypeOK
<1>3. ASSUME NEW p \in Procs, BeginRegistration(p) \/ GoOn(p)
      PROVE  Phases'
  <2>1. Acts(p) /\ UNCHANGED serviceVars
    BY <1>3 DEF BeginRegistration, GoOn, Step, Acts
  <2>2. at[p] # "idle" \/ phase[p] = "register"
    BY <1>3 DEF BeginRegistration, GoOn, Step, CreateObject, EnumOptions, CreateOptions,
       ResolveOptions, SetSdiDevice, SetSdiPath, SetDevice, SetOsDevice, SetElement, Show,
       FailInClosure, DeleteObject, InClosure, ElementNames
  <2> QED
    BY <1>2, <2>1, <2>2 DEF StoreInv, serviceVars
<1>4. ASSUME NEW p \in Procs, Registered(p) \/ Failed(p)
      PROVE  Phases'
  <2>1. Acts(p) /\ at[p] # "idle" /\ at'[p] = "idle" /\ UNCHANGED backup
    BY <1>4 DEF Registered, Failed, Step, Acts, Show, Stop, Return, StoreInv, Owned, TypeOK,
       CreateObject, EnumOptions, CreateOptions, ResolveOptions, SetSdiDevice, SetSdiPath, SetDevice,
       SetOsDevice, SetElement, FailInClosure, DeleteObject, InClosure, ElementNames
  <2>2. phase[p] = "register" /\ confirming[p] = NoGuid
    BY <2>1 DEF StoreInv
  <2>3. Registered(p) => mine[p] # NoGuid
    BY <2>1, GuidsAssumption DEF Registered, Show, StoreInv, Owned, TypeOK
  <2> QED
    BY <1>2, <1>4, <2>1, <2>2, <2>3 DEF Registered, Failed, Enter, StoreInv, StoreTypeOK
<1>5. ASSUME NEW p \in Procs, Confirm(p)
      PROVE  Phases'
  BY <1>5 DEF Confirm, Enter, StoreInv, StoreTypeOK, vars
<1>6. ASSUME NEW p \in Procs, Undo(p)
      PROVE  Phases'
  <2>1. UNCHANGED at
    BY <1>6 DEF Undo, Import, vars
  <2> QED
    BY <1>6, <2>1 DEF Undo, Enter, StoreInv, StoreTypeOK
<1>7. ASSUME NEW p \in Procs, Die(p)
      PROVE  Phases'
  <2>1. at'[p] = "idle" /\ \A q \in Procs \ {p} : at'[q] = at[q]
    BY <1>7 DEF Die, Stop, Return, vars, StoreInv, Owned, TypeOK
  <2> QED
    BY <1>7, <2>1 DEF Die, Enter, StoreInv, StoreTypeOK
<1>8. ASSUME NEW p \in Procs, NEW pl \in Plans, Checkpoint(p, pl)
      PROVE  Phases'
  <2>1. Store # NoBackup
    BY PlansAssumption DEF Store, Snapshots, StoreInv, Owned, TypeOK
  <2> QED
    BY <1>8, <2>1 DEF Checkpoint, StoreInv, StoreTypeOK, vars
<1>9. ASSUME NEW p \in Procs, NEW pl \in Plans, Rollback(p, pl)
      PROVE  Phases'
  BY <1>9 DEF Rollback, Import, serviceVars, StoreInv
<1> QED
  BY <1>1, <1>3, <1>4, <1>5, <1>6, <1>7, <1>8, <1>9 DEF StoreNext

-----------------------------------------------------------------------------
(* Only imports shrink what is known of entries, and they mark them. *)
LEMMA ReachedUnlessOverrunNext ==
  ASSUME StoreInv, [StoreNext]_allVars
  PROVE  ReachedUnlessOverrun'
<1> USE DEF ReachedUnlessOverrun
<1>1. CASE Waits
  BY <1>1 DEF Waits, StoreInv, ReachedBy, vars, storeVars
<1>2. ASSUME NEW q \in Procs, at'[q] \in {"idle", "create", "enum"}
      PROVE  ReachedBy(q)'
  BY <1>2 DEF ReachedBy, InClosure, ElementNames
<1>3. ASSUME NEW p \in Procs, Registers(p), NEW q \in Procs, mine'[q] \notin overrun'
      PROVE  ReachedBy(q)'
  <2>1. CASE mine'[q] = mine[q]
    BY <1>3, <2>1, ReachedStep DEF StoreInv, Registers
  <2>2. CASE mine'[q] # mine[q]
    BY <1>2, <1>3, <2>2, ActsGrow DEF StoreInv, Registers
  <2> QED
    BY <2>1, <2>2
<1>4. ASSUME NEW p \in Procs, Imports(p), NEW q \in Procs, mine'[q] \notin overrun'
      PROVE  ReachedBy(q)'
  <2>1. PICK pl \in Plans : Import(p, pl)
    BY <1>4 DEF Imports
  <2>2. UNCHANGED <<at, mine>> /\ mine[q] \in Guids \union {NoGuid}
    BY <2>1 DEF Import, StoreInv, Owned, TypeOK
  <2>3. q # p => mine[q] \notin Guids
    BY <1>4, <2>1, <2>2 DEF Import
  <2>4. mine[q] = NoGuid
    BY <1>4, <2>2, <2>3, ImporterIdle
  <2>5. at[q] \in {"idle", "create"}
    BY <2>4, GuidsAssumption DEF StoreInv, Owned, Holds, TypeOK
  <2> QED
    BY <1>2, <2>2, <2>5
<1> QED
  BY <1>1, <1>3, <1>4, StepKinds

(* An entry no import overran is complete when it is shown. *)
LEMMA OnlyOverrunIncompleteNext ==
  ASSUME StoreInv, [StoreNext]_allVars
  PROVE  OnlyOverrunIncomplete'
<1> USE DEF OnlyOverrunIncomplete
<1>1. CASE Waits
  BY <1>1 DEF Waits, StoreInv, Configured, vars, storeVars
<1>2. ASSUME NEW p \in Procs, Registers(p), NEW g \in shown' \ overrun'
      PROVE  Configured(g, entry, options)'
  <2>1. g \in Guids /\ g \notin overrun
    BY <1>2, OwnedNext DEF Owned, TypeOK, Registers
  <2>2. g = mine[p] => ReachedBy(p)
    BY <2>1 DEF StoreInv, ReachedUnlessOverrun
  <2> QED
    BY <1>2, <2>1, <2>2, ShownStep DEF StoreInv, Registers
<1>3. ASSUME NEW p \in Procs, Imports(p), NEW g \in shown' \ overrun'
      PROVE  Configured(g, entry, options)'
  <2>1. PICK pl \in Plans : Import(p, pl)
    BY <1>3 DEF Imports
  <2>2. g \in backup[pl].shown \ overrun
    BY <1>3, <2>1 DEF Import
  <2>3. Configured(g, backup[pl].entry, backup[pl].options)
    BY <2>1, <2>2 DEF Import, StoreInv, BackupSound
  <2> QED
    BY <2>1, <2>3 DEF Import, Configured
<1> QED
  BY <1>1, <1>2, <1>3, StepKinds

(* A backup is sound when it is taken, and nothing later spoils it: its entries
   were all given out before, and what it shows is nobody's to register. *)
LEMMA BackupSoundNext ==
  ASSUME StoreInv, [StoreNext]_allVars, NEW pl \in Plans
  PROVE  BackupSound(pl)'
<1> USE DEF BackupSound
<1>1. CASE UNCHANGED vars /\ UNCHANGED overrun /\ backup'[pl] = backup[pl]
  BY <1>1 DEF StoreInv, Configured, vars, storeVars
<1>2. CASE UNCHANGED vars /\ UNCHANGED overrun /\ backup'[pl] = Store
  <2>1. shown \subseteq objects /\ objects \subseteq given /\ shown \subseteq Guids
    BY DEF StoreInv, Owned, TypeOK
  <2>2. \A p \in Procs : mine[p] \notin shown
    BY <2>1, GuidsAssumption DEF StoreInv, Owned, Holds
  <2>3. \A g \in shown \ overrun : Configured(g, entry, options)
    BY DEF StoreInv, OnlyOverrunIncomplete
  <2> QED
    BY <1>2, <2>1, <2>2, <2>3 DEF Store, Configured, vars, storeVars
<1>3. ASSUME NEW p \in Procs, Registers(p)
      PROVE  BackupSound(pl)'
  <2>1. given \subseteq given'
    BY <1>3, ActsGrow DEF Registers, StoreInv
  <2>2. \A q \in Procs : mine'[q] \in {mine[q], NoGuid} \union (Guids \ given)
    BY <1>3, ActsGrow DEF Registers, StoreInv
  <2>3. given \subseteq Guids
    BY DEF StoreInv, Owned, TypeOK
  <2> QED
    BY <1>3, <2>1, <2>2, <2>3, GuidsAssumption DEF Registers, StoreInv, Configured
<1>4. ASSUME NEW p \in Procs, Imports(p)
      PROVE  BackupSound(pl)'
  <2>1. UNCHANGED <<backup, given, mine>> /\ overrun \subseteq overrun'
    BY <1>4 DEF Imports, Import
  <2> QED
    BY <2>1 DEF StoreInv, Configured
<1> QED
  BY <1>1, <1>2, <1>3, <1>4, StepKinds DEF Waits

(* A registered entry stays in the boot menu until its apply has asked for it,
   unless an import runs into it. *)
LEMMA ConfirmingShownNext ==
  ASSUME StoreInv, [StoreNext]_allVars
  PROVE  ConfirmingShown'
<1> USE DEF ConfirmingShown
<1>1. SUFFICES ASSUME NEW q \in Procs, confirming'[q] \in Guids \ overrun'
               PROVE  confirming'[q] \in shown'
  OBVIOUS
<1>2. CASE confirming'[q] = confirming[q]
  <2>1. CASE Waits
    BY <1>1, <1>2, <2>1 DEF Waits, StoreInv, vars, storeVars
  <2>2. ASSUME NEW p \in Procs, Registers(p)
        PROVE  confirming'[q] \in shown'
    BY <1>1, <1>2, <2>2, ActsGrow DEF Registers, StoreInv
  <2>3. ASSUME NEW p \in Procs, Imports(p)
        PROVE  FALSE
    <3>1. q # p
      BY <1>1, <1>2, <2>3, ImporterIdle, GuidsAssumption
    <3> QED
      BY <1>1, <1>2, <2>3, <3>1 DEF Imports, Import
  <2> QED
    BY <2>1, <2>2, <2>3, StepKinds
<1>3. CASE confirming'[q] # confirming[q]
  <2>1. ASSUME NEW p \in Procs, Registered(p)
        PROVE  confirming'[q] \in shown'
    BY <1>3, <2>1 DEF Registered, Show, StoreInv, StoreTypeOK
  <2>2. ASSUME NEW p \in Procs, Confirm(p) \/ Die(p)
        PROVE  FALSE
    BY <1>1, <1>3, <2>2, GuidsAssumption DEF Confirm, Die, StoreInv, StoreTypeOK
  <2> QED
    BY <1>3, <2>1, <2>2 DEF StoreNext, BeginRegistration, GoOn, Failed, Undo, Rollback, Checkpoint,
       allVars, serviceVars
<1> QED
  BY <1>2, <1>3

(* The first backup holds the original options: before it, no process is in a
   phase that could set them. *)
LEMMA FirstBackupIsOriginalNext ==
  ASSUME StoreInv, [StoreNext]_allVars
  PROVE  FirstBackupIsOriginal'
<1> USE DEF FirstBackupIsOriginal
<1>1. ASSUME NEW p \in Procs, NEW pl \in Plans, Checkpoint(p, pl)
      PROVE  FirstBackupIsOriginal'
  <2>1. /\ backup' = [backup EXCEPT ![pl] = Store] /\ backup \in [Plans -> Snapshots \union {NoBackup}]
        /\ UNCHANGED <<options, original>>
    BY <1>1 DEF Checkpoint, StoreInv, StoreTypeOK, vars, storeVars
  <2>2. Store # NoBackup /\ Store.options = options
    BY PlansAssumption DEF Store, Snapshots, StoreInv, Owned, TypeOK
  <2>3. CASE reexported' # {}
    BY <2>3
  <2>4. CASE reexported' = {} /\ options = original
    BY <2>1, <2>2, <2>4
  <2>5. CASE reexported' = {} /\ options # original
    <3>1. reexported = {} /\ backup[pl] = NoBackup
      BY <1>1, <2>5 DEF Checkpoint
    <3>2. PICK other \in Plans : backup[other] # NoBackup /\ backup[other].options = original
      BY <2>5, <3>1 DEF StoreInv
    <3> QED
      BY <2>1, <3>1, <3>2
  <2> QED
    BY <2>3, <2>4, <2>5
<1>2. CASE UNCHANGED <<backup, options, original, reexported>>
  BY <1>2 DEF StoreInv
<1>3. ASSUME UNCHANGED <<backup, original, reexported>>,
             NEW p \in Procs, phase[p] = "register" \/ \E pl \in Plans : backup[pl] # NoBackup
      PROVE  FirstBackupIsOriginal'
  <2>1. \E pl \in Plans : backup[pl] # NoBackup
    BY <1>3 DEF StoreInv, Phases
  <2> QED
    BY <1>3, <2>1 DEF StoreInv
<1>4. ASSUME NEW p \in Procs, Registers(p)
      PROVE  FirstBackupIsOriginal'
  BY <1>3, <1>4 DEF Registers
<1>5. ASSUME NEW p \in Procs, Imports(p)
      PROVE  FirstBackupIsOriginal'
  <2>1. UNCHANGED <<backup, original, reexported>> /\ \E pl \in Plans : backup[pl] # NoBackup
    BY <1>5 DEF Imports, Import
  <2> QED
    BY <1>3, <2>1
<1>6. CASE Waits
  <2>1. CASE \E p \in Procs, pl \in Plans : Checkpoint(p, pl)
    BY <1>1, <2>1
  <2>2. CASE ~\E p \in Procs, pl \in Plans : Checkpoint(p, pl)
    <3>1. UNCHANGED <<backup, original, reexported>>
      BY <2>2 DEF StoreNext, BeginRegistration, GoOn, Registered, Failed, Confirm, Undo, Import,
         Rollback, Die, allVars, serviceVars, historyVars
    <3> QED
      BY <1>2, <1>6, <3>1 DEF Waits, vars, storeVars
  <2> QED
    BY <2>1, <2>2
<1> QED
  BY <1>4, <1>5, <1>6, StepKinds

-----------------------------------------------------------------------------
(* No backup and nobody at work *)
LEMMA StoreInvInit == StoreInit => StoreInv
<1> SUFFICES ASSUME StoreInit
             PROVE  StoreInv
  OBVIOUS
<1>1. Owned /\ (\A p \in Procs : ReachedBy(p)) /\ options \in OptionValues
  BY InvInit DEF StoreInit, Inv, Owned, TypeOK
<1>2. StoreTypeOK
  BY <1>1, PlansAssumption DEF StoreInit, StoreTypeOK, Owned
<1>3. Phases /\ \A pl \in Plans : BackupSound(pl)
  BY DEF StoreInit, Init, Phases, BackupSound
<1>4. ReachedUnlessOverrun /\ OnlyOverrunIncomplete /\ ConfirmingShown /\ FirstBackupIsOriginal
  BY <1>1, GuidsAssumption DEF StoreInit, Init, ReachedUnlessOverrun, OnlyOverrunIncomplete,
     ConfirmingShown, FirstBackupIsOriginal
<1> QED
  BY <1>1, <1>2, <1>3, <1>4 DEF StoreInv

(* The inductive invariant of registrations on a store that other processes
   import their backups into (service.rs:326-333, 459-489; windows:506-616). *)
THEOREM StoreInvCorrect == StoreSpec => []StoreInv
<1>1. StoreInit => StoreInv
  BY StoreInvInit
<1>2. StoreInv /\ [StoreNext]_allVars => StoreInv'
  BY ServiceTypeNext, OwnedNext, PhasesNext, BackupSoundNext, ReachedUnlessOverrunNext,
     OnlyOverrunIncompleteNext, ConfirmingShownNext, FirstBackupIsOriginalNext DEF StoreInv
<1> QED
  BY <1>1, <1>2, PTL DEF StoreSpec

(* Every variable of store and service keeps its type. *)
THEOREM StoreTypeCorrect == StoreSpec => []StoreTypeOK
<1>1. StoreInv => StoreTypeOK
  BY DEF StoreInv
<1> QED
  BY <1>1, StoreInvCorrect, PTL

(* However applies and rollbacks interleave, only an import between the commands
   of its own registration leaves an incomplete entry in the boot menu. *)
THEOREM OnlyOverrunIncompleteCorrect == StoreSpec => []OnlyOverrunIncomplete
<1>1. StoreInv => OnlyOverrunIncomplete
  BY DEF StoreInv
<1> QED
  BY <1>1, StoreInvCorrect, PTL

(* The original {ramdiskoptions} can be brought back until a plan is applied
   again over a store that has PartBooter's. *)
THEOREM OriginalOptionsSavedCorrect == StoreSpec => []OriginalOptionsSaved
<1>1. StoreInv => OriginalOptionsSaved
  BY DEF StoreInv, FirstBackupIsOriginal, OriginalOptionsSaved
<1> QED
  BY <1>1, StoreInvCorrect, PTL

(* An apply that reports success has its entry in the boot menu, unless an import
   ran into it. *)
THEOREM SuccessIsBootableCorrect == StoreSpec => SuccessIsBootable
<1> DEFINE Bootable == \A g \in promised' \ promised : g \in shown' \union overrun
<1>1. StoreInv /\ [StoreNext]_allVars => [Bootable]_allVars
  <2> SUFFICES ASSUME StoreInv, [StoreNext]_allVars
               PROVE  Bootable
    OBVIOUS
  <2>1. ASSUME NEW p \in Procs, Confirm(p)
        PROVE  Bootable
    <3>1. UNCHANGED shown /\ promised' \ promised \subseteq {confirming[p]} \intersect objects
      BY <2>1 DEF Confirm, vars, storeVars
    <3>2. objects \subseteq Guids
      BY DEF StoreInv, Owned, TypeOK
    <3> QED
      BY <3>1, <3>2 DEF StoreInv, ConfirmingShown
  <2>2. CASE UNCHANGED promised
    BY <2>2
  <2> QED
    BY <2>1, <2>2 DEF StoreNext, BeginRegistration, GoOn, Registered, Failed, Undo, Import, Die,
       Checkpoint, Rollback, allVars, historyVars
<1> QED
  BY <1>1, StoreInvCorrect, PTL DEF StoreSpec, SuccessIsBootable

=============================================================================
