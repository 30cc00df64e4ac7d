# A TLA+ model of PartBooter

PartBooter adds a WinPE boot entry to a Windows machine: it saves the EFI system
partition and the boot configuration store, stages `boot.wim` and `boot.sdi`,
registers a boot entry with `bcdedit`, records what it did, and promises to undo
it. Everything it changes is either on disk or in the boot configuration store,
and no process of it lives longer than one command. What can go wrong is
therefore not in any single function but between them: a command that dies
half-way, two commands at once, one plan applied twice, operations undone in
another order than they were done, a whole-store import in the middle of somebody
else's registration, a record that was cut short or re-read under another name, a plan
carried to another day or a changed machine, two commands reaching for the same drive
letter. This directory models those.

Source locations are abbreviated: `service.rs` is `crates/core/src/service.rs`,
`journal` is `crates/journal/src/lib.rs`, `windows` is `crates/windows/src/lib.rs`;
`model.rs` and `json.rs` are in `crates/common/src`.

## 1. The system

| Component | State it keeps | Operations |
|---|---|---|
| **Operation service** `crates/core` (`PartBooterService`) | the metadata files of a WinPE operation under `operations/<op>/` | `build_plan`, `apply_plan`, `verify_operation`, `rollback_operation`, `repair_latest` |
| **Journal store** `crates/journal` (`FileJournalStore`) | `operations/<op>.pbop`, `operations/<op>/plan.pbplan`, `backups/<plan>/manifest.txt` | `save_journal`, `load_journal`, `latest_operation_id`, `write_backup_manifest` |
| **Windows adapter** `crates/windows` | none of its own; drives the boot configuration store, the ESP and `\Boot\PartBooter` | probe, backup checkpoint, stage, register, confirm, restore, remove |
| **Domain model** `crates/common` | none | plans, journals, reports, and their text format (`model.rs`, `json.rs`) |
| **Payload detectors** `crates/payloads/*` | none | file name to payload description |
| **CLI** `apps/cli`, **helper** `apps/helper` | none | one service call per process |

**Interaction.** Every call is synchronous: CLI or helper → service → journal
store and Windows adapter → `bcdedit`, `robocopy`, the file system. Commands
meet only through shared state: the journal directory, one backup directory *per
plan*, one staging directory *for all operations*, and the one boot
configuration store. No lock guards any of it, although nothing stops two
commands from running at once.

**What is hard.**

- *Crash at any call.* The journal is saved last (`service.rs:254`); a rollback
  removes seven files one by one (`service.rs:748-764`); `save_journal` truncates
  and then fills (`journal:58`).
- *Undo by whole-store import.* Both the undo of a failed registration
  (`service.rs:459-466`) and rollback (`service.rs:331`) replace the entire store with an
  older export.
- *Shared names.* Backups are named after the plan, the staging directory after
  nothing, identifiers after the second of the clock.
- *Errors half-way.* Every `?` leaves the disk as it is; undo steps ignore their
  own errors.
- *A registration is eleven `bcdedit` commands*, with two spellings of the device
  and one object, `{ramdiskoptions}`, that all entries and Windows share.
- *Plan and apply are days apart.* The plan travels in a file that a full disk may
  have cut (`apps/cli/src/main.rs:60`), and the machine may have changed. `apply`
  probes again (`service.rs:210`) but looks at no warning of the second probe.
- *Records are re-written from what was read.* Rollback and repair load a journal, change it and
  save it again (`service.rs:326-360`); fields are escaped byte by byte (`json.rs:37-70`), and a
  journal cut after its summary still loads.
- *Drive letters belong to the machine.* For the copy of the ESP a command maps a
  free letter and takes it away afterwards (`windows:276-296`); other commands
  and volumes use the same letters, and a crash leaves one behind.

**What makes each component correct.**

| Component | Properties |
|---|---|
| Service | nothing of an operation exists without the backup it is restored from; metadata is either unreadable-and-forgotten or whole; "applied" means bootable; "rolled back" means gone; an undo takes nobody else's entry; a rollback can always be completed; "verified" means there and intact, and a failure names its reason |
| Journal | an operation is bound to one plan by its first record, and only recovery statuses follow; a journal that loads is the last one that was saved |
| Windows adapter | the boot menu never offers a half-configured entry; a registration either registers or withdraws its entry; a copy that counts as the backup of the ESP is one, unless its letter was another command's; mapped letters do not pile up; imports leave finished entries complete and the options object of Windows recoverable |
| Domain model | a plan file that is accepted says what the plan said; a path comes back as it was written, if it is ASCII |
| Plan building, detectors | only a fit machine and a known payload get past the checks; what is doubtful is flagged, what is refused is explained |

## 2. Modules

| Module | What it is |
|---|---|
| `DomainModel` | identifiers, plans, statuses, journal records: the constants and their assumptions |
| `JournalStore` | the files of `FileJournalStore`; a save is two steps |
| `WindowsHost` | boot store, staging directory, backups, and what one adapter call does to them |
| `Lifecycle` | `PartBooterService`: the four commands that change state, call by call, for any number of processes |
| `LifecycleProperties` | what must hold of it |
| `LifecycleInvariant` | the inductive invariant behind the safety properties |
| `OperationLedger` | abstract: what a sequence of journal writes promises its reader, of every operation whose identifier no other apply got; `Lifecycle` implements it |
| `BootRegistration` | `register_winpe_boot_entry`, one `bcdedit` command a step; its properties and its inductive invariant |
| `EntryLife` | abstract: a boot entry is created, then registered or withdrawn; `BootRegistration` implements it, and it is the view `Lifecycle` takes with `CreateEntry` and `ConfigureEntry` |
| `EspMount` | the first half of `create_backup_checkpoint`: finding, mapping and releasing a drive letter of the ESP around `robocopy`; its properties and its inductive invariant |
| `SharedStore` | extends `BootRegistration`: several applies and rollbacks on one store, each with its export, its registration command by command, its confirmation, its undo; an import may fall between any two commands of another process |
| `RecordFile` | the line format plans and journals share, and what a write cut short leaves of it |
| `FieldEncoding` | `encode_field` and `decode_field`, byte by byte |
| `JournalRecord` | one operation as its journal tells it: saves, cut saves, rollback, repair, and what verify answers |
| `Planning` | probe script, detectors, `build_plan`, the plan file and the checks at the head of `apply_plan` |
| `OneCommand` | what `Lifecycle` keeps true beyond that when one command runs at a time |
| `StackOrder` | `Lifecycle` with a careful operator: each plan applied once, rolled back newest first; its property and its inductive invariant |
| `LifecycleProofs`, `LifecycleTheorems` | type correctness and the first conjuncts of the invariant; the other conjuncts, one lemma each, and the theorems |
| `OneCommandProofs` | the theorems about `OneCommand` and `StackOrder` |
| `RegistrationProofs`, `EspMountProofs` | the theorems about `BootRegistration` and `SharedStore`, which share their step lemmas, and about `EspMount` |
| `RecordFileProofs` | lemmas: what the operators of `RecordFile` and `FieldEncoding` return, for files and fields of any length |
| `PlanningProofs`, `JournalRecordProofs` | the theorems about `Planning` and `JournalRecord`, from those lemmas |
| `MCConcurrent`, `MCOneAtATime`, `MCSequential`, `MCStackOrder`, `MCRegistration`, `MCSharedStore`, `MCEspMount`, `MCJournalRecord`, `MCPlanning` | instances for TLC |

`Lifecycle` is the centre. It begins where `Planning` ends, with a plan that passed
the checks. Its `CopyEsp` is `EspMount` seen as one call, which either leaves a copy or
not; its `CreateEntry` and `ConfigureEntry` are the two steps of `EntryLife`,
which `BootRegistration` implements. `SharedStore` is `BootRegistration` with what
`Lifecycle` does around it to the store, and without journals and files;
`JournalRecord` is the content of the file whose fate is `Lifecycle`'s `journal[o]`.

### How the state corresponds

| Variable | Code |
|---|---|
| `journal[o]` | `operations/<o>.pbop`: absent, torn (truncated), or status and plan |
| `latest` | the `.pbop` with the newest modification time, the one `latest_operation_id` picks |
| `savedPlan[o]` | `operations/<o>/plan.pbplan` |
| `manifest`, `espCopy`, `bcdCopy` | `backups/<plan>/manifest.txt`, `esp/`, `bcd-store.bak` |
| `files[o]`, `entryId[o]` | the seven metadata files of a WinPE operation; what `entry-id.txt` holds |
| `bcd` | the boot configuration store: objects, display order, default entry |
| `stage` | `\Boot\PartBooter`: whose `boot.wim`, and is there a `boot.sdi` |
| `pc[p]`, `ctx[p]` | the next call of a process and the locals of its command |
| `recorded`, `maker` | history: journals ever written in full; which operation made an entry |
| `ran[o]`, `reissued` | history: the plans applied under an identifier; the identifiers that more than one apply got. `Unshared` are the others |
| `EspMount`: `drives`, `source`, `mounted` | what each letter from T to Z stands for; `esp_source` and whether `mounted_drive` is `Some` |
| `EspMount`: `read`, `copied` | what `robocopy` really read; `robocopy_succeeded` |
| `EspMount`: `mapper`, `leaked`, `borrowed` | history: who gave the ESP this letter; which letters were left behind; whose probe reported the letter of a command that was using it |
| `BootRegistration`: `entry`, `objects`, `shown`, `options` | elements of each entry, which entries exist, the display order, the elements of `{ramdiskoptions}` |
| `SharedStore`: `backup` | `backups/<plan>/bcd-store.bak`: those four as they were at the export |
| `SharedStore`: `phase`, `using`, `confirming` | where `apply_plan` is around its registration, with which plan, and the entry `verify_registered_entry` is asked for |
| `SharedStore`: `recorded`; `original`, `overrun`, `reexported`, `promised` | the plans with a journal; history: the options Windows had, entries an import ran into, plans exported again over PartBooter's values, entries reported as applied |
| `JournalRecord`: `root`, `file`, `there`, `report` | the path of `.partbooter`, the journal line by line, which artifacts of the operation exist, what verify printed |
| `JournalRecord`: `saved`, `saves` | history: the last journal that was to be saved; how many saves there were (a bound) |
| `Planning`: `file` | the plan file, line by line, each whole or the one the write stopped in |
| `Planning`: `made`, `last` | history: the plan that was built and the doubts about its machine; how the last command ended and on which facts |

### How the actions correspond

A process that is `idle` may start any command (`StartApply`, `StartRollback`,
`StartVerify`, `StartRepair`); a command is then one action per call that
touches the disk or the boot store, in the order of the code:

- **apply** (`service.rs:209-256`, `444-516`): `StartApply` (identifier and plan file) →
  `MakeEspDir` → `CopyEsp` → `ExportBcd` → `WriteManifest` → for WinPE plans
  `StageWim` → `StageSdi` → `CreateEntry` → `ConfigureEntry` → `WriteMetadata`
  seven times → `ConfirmEntry` → `Truncate` → `Write`. A failed registration or
  confirmation goes through `UndoStore` and `UndoStage`, whose own failures are
  ignored. A Linux plan goes from the manifest straight to the save.
- **rollback** (`service.rs:326-348`): `ReadMetadata` → `ImportBackup` → `Unstage` →
  `RemoveMetadata` seven times → `Truncate` → `Write`; without an entry id only
  the save.
- **verify** (`service.rs:258-324`): `InspectArtifacts` → `StatStaged` → `EnumEntry` →
  `PrintReport`. The report is on the process's context, so it may be stale when printed.
- **repair** (`service.rs:350-360`): `StartRepair` (load the newest journal) → `Truncate`
  → `Write`.

`Abort(p)` is, at every call, either an error the code answers with `?` or the
death of the process or machine: both end the command and leave everything
else alone. `OperatorSetsDefault` is the world outside.

`BootRegistration` opens the pair `CreateEntry`/`ConfigureEntry` up: `Call`,
`CreateObject`, `EnumOptions`, `CreateOptions`, `ResolveOptions`,
`SetSdiDevice`, `SetSdiPath`, `SetDevice` (with the second spelling),
`SetOsDevice`, `SetElement` five times, `Show`; `FailInClosure` and
`DeleteObject` are the error path inside the closure, `Stop` is an error
before it or a death anywhere.

In `SharedStore` a process goes `Checkpoint` (the export) → `BeginRegistration` → the commands of
`BootRegistration` (`GoOn`) → `Registered` → `Confirm`, or, when a command
ends the registration with an error, `Failed` → `Undo`, whose import may fail
unnoticed. `Rollback` imports the backup of any recorded plan, at any time, and may be
repeated. `Die` ends a process wherever it is.

`JournalRecord` has one action per command that touches the journal: `Apply` (its record only),
`Rollback`, `CutRollback` (dies after the import), `Repair`, `Verify`; `Lose` is everybody else. Each
save goes through `Save`, which leaves any prefix of the new file.

`EspMount` opens `CopyEsp` up (`windows:268-303`): `Probe` (a letter the ESP has
already, or none), `FindLetter`, `Mount`, `StartCopy`, `EndCopy`, `Unmount`,
`CheckCode`. `Stop` is a death anywhere or a `robocopy` that does not start;
`VolumeComes` and `VolumeGoes` are the rest of the machine, which takes and
leaves letters at any time.

`Planning` has two actions, one per command: `BuildPlan` (probe, detectors,
validation, risk flags, and the write of the plan file, which may stop anywhere) and
`Apply` up to the point where it first writes. Each of them meets a machine of
its own choice out of `Machines`. The rest of the module is operators: `ProbeOf` is
the script and the parsing of its answer, `ProbeError` is `validate_probe`,
`ToPlanFile`, `Readable` and `FromPlanFile` are the plan's text format.

Definitions commented *Fault* are never used by a specification. Each is a
plausible mistake in one definition, kept so that a property can be seen to
fail on it.

## 3. What the runs check

Runs that pass:

| Run | Instance | Question and properties |
|---|---|---|
| `concurrent` | 2 processes, 2 identifiers, one of which two applies may get at once, a WinPE and a Linux plan, 1 entry | What survives without a lock, for every operation that shares its identifier with no other: `TypeOK`, `CheckpointBeforeChange`, `MetadataComplete`, `RolledBackForgotten`, `OnlyReapplyTaintsCheckpoint`, and `ImplementsLedger` (refinement) |
| `one_at_a_time` | 1 process, 2 identifiers, 2 WinPE plans one of which was made under another state root, 2 entries, 2 defaults | What the records mean when commands do not overlap, and that recovery gets there: `VerifiedCanRollBack`, `AppliedIsBootable`, `OnlyRollbackUnregisters`, `RollbackCompletes` (liveness) |
| `stack_order` | 1 process, 3 identifiers, 3 plans applied at most once each in any order, verified, repaired, rolled back newest first, 3 entries, 2 defaults (12 million states) | The discipline under which whole-store imports are harmless: `RolledBackEntriesGone`, `AppliedEntryStays` |
| `registration` | 2 processes, 3 entries, store with and without `{ramdiskoptions}` | `TypeOK`, `ShownIsConfigured`, `ImplementsEntryLife` (refinement) |
| `restores` | 2 processes, 2 entries, 2 plans, 2 applies, any number of rollbacks, store with and without `{ramdiskoptions}` | What imports do to entries being registered, to finished ones and to `{ramdiskoptions}`: `StoreTypeOK`, `OnlyOverrunIncomplete`, `OriginalOptionsSaved`, `SuccessIsBootable` |
| `records` | 1 operation, 3 saves each cut anywhere, plans with 0 to 6 steps, 5 state roots in and outside ASCII | What a journal that loads says, and what verify makes of it: `TypeOK`, `LoadedIsSaved`, `RootSurvives`, `FailureExplained`, `VerifiedIsIntact`, `MarkerMeansRolledBack` |
| `esp_mount` | 2 processes, 2 letters, each free, the ESP's or another volume's at first | What is copied and which letters stay: `TypeOK`, `CopyIsOfEsp`, `OneLetterEach`, `LettersReturned`, `OnlyMapperReleases` |
| `planning` | machines that differ from a good one in at most two facts or in any about firmware and disk, at plan and again at apply; 6 kinds of file names; the plan file cut in every line | What is admitted, flagged and explained: `TypeOK`, `AdmittedIsFit`, `AppliedAsPlanned`, `BlockedIsExplained`, `ValidatorAgrees`, `DoubtsFlagged` |

Runs that TLC refutes, each a sentence of the documentation the code does not keep:

| Run | Property | What happens |
|---|---|---|
| `broad_restore` | `RollbackTouchesOwn` | rolling back an operation takes later operations' entries, and the operator's default, along |
| `interrupted_apply` | `InterruptedApplyJournaled` | an apply that dies after the entry exists has no journal to recover from |
| `shared_staging` | `AppliedStagedOwn` | a second apply replaces the `boot.wim` the first entry boots |
| `cut_rollback` | `VerifiedAppliedHasEntry` | after a rollback died with the entry id gone, verify reports a WinPE operation as verified though it has no entry |

`RolledBackEntriesGone` holds under the discipline of `stack_order` and not without it: when a plan
is applied twice, the second apply exports over the first one's backup, and rolling the first
operation back brings its entry back. Checked in place of the property of
`broad_restore.cfg`, TLC finds it violated.
`OnlyRollbackUnregisters` is checked for one command at a time and is false for
two at once: a failing apply then imports a store exported before the other
apply's entry existed. A lock would have to cover `apply_plan` from the
export at line 221 to the save at line 254.

**Bounds, and why they suffice.**

- *Identifiers, plans, entries:* two operations are the least that can share a
  plan, a staging directory or a store; a third (`stack_order`) lets one lie
  between two others. An entry is used up when created, so `Guids` bounds
  the number of registrations: with one entry, `concurrent` has two applies that
  race up to `create` and one that goes on. The theorems of section 5 lift these bounds.
- *Identifiers given out again* in `concurrent`: `ReuseIds` is `TRUE`, so an apply may get an identifier that is
  taken, as `unique_suffix` counts seconds (`service.rs:828`). At most one does (`OneReissued`; the identifiers
  are alike), while the apply that got it first still runs, and no further command starts on it
  (`SameSecond`). What is checked is that the other operation keeps its guarantees; the theorems need neither bound.
  The runs with one process have `ReuseIds = FALSE`: when commands follow one another, the robocopy and the exports of
  the one and the probe of the next (`service.rs:210`), each a process of its own, lie between two identifiers.
  `RollbackCompletes` would be false without it, for an identifier whose metadata a second apply overwrote in part.
- *Processes:* two. All shared state is read and written by single calls, so a
  conflict needs two.
- *Applies* in `restores`: two, so that an apply meets another one, an undo or any
  number of rollbacks, and the same plan may be applied twice. With three (12 million states) it passes too.
- *Saves* in `records`: three, an apply and two of rollback and repair in either order, each
  after any number of rollbacks cut short. A path is only told apart by whether it changed, so roots of one
  to three bytes reach every branch of the encoding.
- *Letters:* two processes with a letter each. A third letter adds
  only a free one that nobody reaches for. A found letter that is taken before it is mapped, and no free
  letter at all, both occur.
- *One plan, one apply* in `planning`: apply changes neither the file nor the
  machine, so a second one is the first on another machine. Facts the script
  looks at together (firmware and disk) are combined in full, the others in pairs.
- *The default entry* in `stack_order`: states with a changed default are followed up with one operation only
  (`FewDefaults`, a state constraint). The default is in every store and backup but neither property reads it,
  and the theorems have no such bound.
- *No deadlock check* where identifiers and GUIDs run out in the finite instance, or
  the one apply is done: a machine with nothing to do is a legal state.
- *Symmetry* is over processes and GUIDs, which no formula tells apart;
  identifiers are ordered and never permuted. The run with a liveness property uses none.

**Fairness** is assumed in `one_at_a_time` only. Weak fairness on `Continue`:
the code has no loop or wait of its own, so a process that is not
killed makes its next call. The other two are about the surroundings. Strong fairness
on `StartRollback` for each operation: the *operator* keeps asking, although other
commands may come first. And commands are not cut short for ever (`<>[]`, any finite
number of cuts is allowed): nothing completes on a machine that always dies. So
the run says that a retry is always possible and gets there, not that the
program retries by itself.

## 4. Abstractions

- A name, path, message or volume is left out; a plan stands for its
  `plan_id`, kind and `backup_root`. `HomePlans` are those made under the
  state root now in use; of the others only the backup's absence is kept.
- A metadata file appears whole in one step, and so does `plan.pbplan`, the copy
  of the plan in the operation's directory. `save_journal`, whose tearing matters most, is two steps.
  `Lifecycle` calls every cut record torn; `JournalRecord` has the cuts that still load, and
  `LoadedIsSaved` says they differ from the record in steps only, which no command reads.
- `read_winpe_operation_metadata` reads its files in one step.
- `boot.sdi` is only there or not; a torn one is not told apart.
- Equal modification times of two journals are left out: `latest` is the last one written.
- Each `bcdedit` command takes effect or changes nothing; a partial
  `bcd-store.bak` is left out.
- The statuses `Planned`, `Verified` and `Failed` are parsed but never stored,
  and so are not in `Statuses`.
- Summaries and the wording of details and warnings are left out. In `JournalRecord` a detail is
  only told apart by whether a cut can break it.
- `JournalRecord` removes the metadata in one step, after the first file of which it is as good as gone;
  the seven files are `Lifecycle`'s. A path that the encoding changed is "another" one: it only gets longer.
- `BootRegistration` is the adapter call alone; imports of other processes between two of its
  commands are in `SharedStore`. There a store is what PartBooter sets in it, staging and ESP are left
  out, and a rollback is its import. The export is one step, as `bcdedit` is.
- The plan file of `Planning` keeps of each line its key, the value that matters, and
  whether it is whole, short of fields, cut in its last field, or broken in an escape or a
  character. Notes, names and wording are left out. A cut inside
  a key counts as short of fields: either way the reader skips the line.
- There is one ESP, and a machine does not change between a command's probe and
  its use of it.
- `EspMount` knows letters only; a volume path without a letter is not a usable mount
  point, so the command maps a letter of its own.

## 5. What is proved

Proved for every number of processes, identifiers, plans and entries:

| Theorem | Statement |
|---|---|
| `LifecycleProofs!TypeCorrect` | `Spec => []TypeOK` |
| `LifecycleTheorems!InvCorrect` | `Spec => []Inv` |
| `!CheckpointBeforeChangeCorrect`, `!MetadataCompleteCorrect`, `!RolledBackForgottenCorrect`, `!OnlyReapplyTaintsCheckpointCorrect` | the safety properties of `concurrent` |
| `!LedgerCorrect` | `Spec => ImplementsLedger` |
| `!VerifiedCanRollBackCorrect` | `Spec => []VerifiedCanRollBack` |
| `RegistrationProofs!TypeCorrect`, `!InvCorrect` | `Spec => []TypeOK`, `Spec => []Inv` |
| `!ShownIsConfiguredCorrect` | `Spec => []ShownIsConfigured` |
| `!EntryLifeCorrect` | `Spec => ImplementsEntryLife` |
| `!StoreInvCorrect`, `!StoreTypeCorrect` | `StoreSpec => []StoreInv`, `StoreSpec => []StoreTypeOK` |
| `!OnlyOverrunIncompleteCorrect`, `!OriginalOptionsSavedCorrect`, `!SuccessIsBootableCorrect` | the properties of `restores`, for every number of processes, entries, plans and applies |
| `EspMountProofs!InvCorrect`, `!TypeCorrect` | `Spec => []Inv`, `Spec => []TypeOK` |
| `!CopyIsOfEspCorrect`, `!OneLetterEachCorrect`, `!LettersReturnedCorrect`, `!OnlyMapperReleasesCorrect` | the properties of `esp_mount` |
| `OneCommandProofs!OneInvCorrect` | `Spec => []OneInv`, for one process |
| `!AppliedIsBootableCorrect`, `!OnlyRollbackUnregistersCorrect` | the action properties of `one_at_a_time`, for every number of operations, plans and entries |
| `!StackInvCorrect` | `StackSpec => []StackInv`, for one process |
| `!RolledBackEntriesGoneCorrect`, `!AppliedEntryStaysCorrect` | the properties of `stack_order`, for every number of operations |
| `PlanningProofs!PlanInvCorrect`, `!PlanTypeCorrect` | `Spec => []PlanInv`, `Spec => []TypeOK` |
| `!ValidatorAgreesCorrect`, `!AdmittedIsFitCorrect`, `!AppliedAsPlannedCorrect`, `!BlockedIsExplainedCorrect`, `!DoubtsFlaggedCorrect` | the properties of `planning`, for every set of machines and names |
| `JournalRecordProofs!JournalInvCorrect`, `!JournalTypeCorrect` | `Spec => []JournalInv`, `Spec => []TypeOK` |
| `!LoadedIsSavedCorrect`, `!RootSurvivesCorrect`, `!FailureExplainedCorrect`, `!VerifiedIsIntactCorrect`, `!MarkerMeansRolledBackCorrect` | the properties of `records`, for every set of state roots, of any length, and any number of saves |

So every invariant, action property and refinement that a passing run checks is also a theorem.

**Assumptions.** The constants' assumptions (`OpsAssumption`, `PlansAssumption`,
`FilesAssumption`, `HostAssumption`, `ReuseAssumption`, `GuidsAssumption`,
`LettersAssumption`, `ProcsAssumption`, `PlansAssumption` of `SharedStore`, `InputsAssumption`) only
keep values apart or bound the inputs (`RootsAssumption`: a root is a sequence of bytes;
`SavesAssumption`: a number of saves), and TLC evaluates each in a run of its module. The theorems of
`OneCommandProofs` assume `OneProcess`: the code has no lock, so it is the operator who starts one
command after another; `OnlyRollbackUnregisters` is false without it (section 3).

The theorems about `Lifecycle`, and those about `OneCommand`, assume nothing of identifiers. The code counts seconds
(`service.rs:828`) and looks for no directory of that name, so two applies may get the same one, and then neither
has a record of its own: one overwrites the other's `plan.pbplan`, metadata and journal. The properties are
therefore about `Unshared`, the operations whose identifier no second apply got, and what they say is that the
sharing of an identifier spoils these two operations and no other. For a shared identifier they are false:
asked of all operations, TLC refutes `CheckpointBeforeChange`, `MetadataComplete` and
`OnlyReapplyTaintsCheckpoint` in `concurrent`, and `RolledBackForgotten` without `SameSecond`, although
`docs/architecture/system.md:59` has "stable operation identifiers". The three theorems about the stack discipline
(`StackInvCorrect`, `RolledBackEntriesGoneCorrect`, `AppliedEntryStaysCorrect`) alone assume `~ReuseIds`, as part of the
discipline: an operator who undoes operations in the order of their identifiers must have different ones.

**The argument for Lifecycle.** None of the safety properties is inductive.
"A recorded operation with an entry id has all its metadata" depends on who may
touch the files: `Owned` says an operation being applied is not recorded yet and
has one process only, every other command works on a recorded one. That an apply
records only what is complete needs `Written` (the files up to the step of the
loop), that rollback's record comes after the entry id is gone needs `Forgotten`.
`CheckpointBeforeChange` follows from `Backed`, which tells for every call of an apply
how much of the backup exists, with `Untouched` (no traces before `create`) and
`Bound` (the context's plan is one its operation ran). `OnlyReapplyTaintsCheckpoint` needs
`FreshUnknown`: an identifier never given out is in no store and no export, so
an export made before the first entry of a plan cannot contain it.
All of these hold of a process on an `Unshared` identifier only. When a second apply gets one, the identifier leaves
`Unshared`, so the conjuncts about it are dropped, and what remains to be shown is that they
survive for the rest. For that, `Remembered` keeps in `ran` every plan an identifier stood for, whatever
`plan.pbplan` says now, `Bound` says a command's plan is one of them, and the operations of a plan
(`RunsOf`) are counted with `ran`: a plan applied under a shared identifier still counts as applied, so another
operation of it is not `AppliedOnce`. Each conjunct has one lemma. They
share a small frame: which calls change which variable of which
operation (`Effects`, `PartsKept`), so that a conjunct is only argued for the calls
that can disturb it.

`VerifiedCanRollBack` adds `BackupsSeen`: a backup a verify has found stays in reach as
long as it runs, since no call removes an export (`PartsKept`). That the metadata is whole follows from
`Owned` (a verified operation is a recorded one) and `MetadataComplete`; it is promised of `Unshared` operations, as
a second apply may be writing the files of the others. That the export is in reach is promised of all.

**The ledger.** The refinement maps `journal` to `ledger` and the plan of every recorded
operation to `book`. `Truncate` is `Damage`, the `Write` of an apply is
`RecordOutcome`, any other `Write` is `RecordRecovery`. A `StartApply` that gets a taken identifier is `Withdraw`:
from then on the ledger shows nothing of it, and all writes to it are stutters, as is everything else.
`Owned` and `KindFits` decide which of the two a write is.

**The argument for BootRegistration.** `Holds` (a process past `create` holds an
identifier given out and not shown) and `Alone` (no two hold the same) make
a shown entry untouchable; `ReachedBy(p)` says of each command of `p` that those before it
took effect, down to `{ramdiskoptions}`, whose elements, once PartBooter's, are
only overwritten with PartBooter's. `Show` therefore adds a complete entry. Each step lemma
(`TypeStep` to `ShownStep`) assumes no more than it uses, so that it serves `SharedStore` as well,
where `ReachedBy` may be false for some processes.

**The argument for SharedStore.** An import breaks `ReachedBy` for every process that is
between two commands, and those, and no others, are put in `overrun`. So the invariant relativises: `ReachedBy` holds
for processes whose entry is not overrun (`ReachedUnlessOverrun`), an entry that is not overrun is
complete when shown. That an import preserves this needs the same statement of every
backup (`BackupSound`): no backup shows an entry somebody still registers, and what it shows
is complete *with the options it holds*. It holds at an export because `ShownIsConfigured`'s
counterpart holds of the store then. `Phases` ties a process's phase to its
place in the registration, so that the importer itself is never between two commands;
`ConfirmingShown` carries "shown" from the registration to the report. `FirstBackupIsOriginal` says the
first export of all has the options of Windows, and only an export of the same plan over PartBooter's values,
which `reexported` notes, can lose them.

**The argument for EspMount.** `Kept` says a process that mapped a letter still has it
until it releases it: nobody else releases a letter, because only `mounted` leads to
`Unmount` (also `Kept`), and no volume leaves a letter of the ESP's (`Mapped`). `Empty` says
a process that looks for a letter has none: it was sent there because no letter
was the ESP's. With them `OneLetterEach` and `LettersReturned` are inductive.
A letter that was reported while its mapper was using it is `borrowed`, and may go away at any
time; `Lasting` says every other one stays the ESP's during the copy, because a letter with a mapper is only
released by that mapper, and one left behind never is, as its mapper finds it reported and maps no other.
`Reading` (what a process with such a letter reads is the ESP) gives `CopyIsOfEsp`.

**The argument for one command at a time.** `OneInv` adds to `Inv` what an apply relies on between
its calls and nobody guards: the staging directory still holds what it staged (`Staged`), its
entry is its own and in the menu from the registration on (`InMenu`), and its export holds every
entry of the store but the one it made itself (`UndoHarmless`). The last makes its undo take no
entry of others along. With two processes each of the three is false.
`Current` says the plan saved under an apply's identifier
is the one it applies; with one process no second apply can come in between, which takes the place of an
assumption on identifiers.

**The argument for the stack discipline.** That a rolled-back operation leaves no entry is not
inductive: an entry may come back from a backup. `Gone` therefore speaks of every backup that a
command may still import (`Restorable`), and starts with the import, not with the record
(`Undone`). `Distinct` carries the assumption: no identifier is shared.
Those backups are older: `CopyOlder` says a backup holds entries of operations before
its own only, which `PlansOnce` (no backup is exported twice) and `Newest` (what is being applied is
the newest) keep true. `InOrder` says that when a rollback imports, all later operations are
rolled back, so no backup younger than the one it imports is restorable (`RestorableBefore`).
`AppliedEntryStays` goes the other way: `Kept` says every backup made after an apply shows its
entry, `Noted` that the entry in `entry-id.txt` is the one that was created.

**Files cut anywhere.** `RecordFileProofs` has what both files need. `WrittenShape`: a cut leaves a
front of the lines, the last of which may be damaged. `PickedItems` and `OnlyField`: picking the
lines of a key, when these are adjacent, gives a subsequence (`PickedFrom`: nothing else is
picked). From them `ReadBack` (plans) and
`RecordReadBack` (journals) say what a reader gets from a file cut at any line: the same header
and payload, the same status, and fewer items in the lists at its end.

**The argument for Planning.** `PlanInv` says that the plan is one of a machine and a name that
passed (`PlanMade`), that the file is what a write of it may leave, and that the last command ended with
the verdict its probe and its file deserve (`LastJudged`). `Supported` is a conjunction that
implies each later check of `validate_probe`; each requirement that is missed raises a warning
(`MissesAreTold`), each doubt but one a flag (`DoubtsAreFlags`); and by `ReadBack` apply judges the payload
that was planned. The order of the lines matters: risks precede steps, so a file with a step has all risks.

**The argument for JournalRecord.** `SavedInFile` ties the file to the last journal that was to be
saved: every save leaves a file of it (`FilesOf`), steps are numbered except for the marker, and
metadata is of an operation no rollback has recorded. `ReportIsCurrent` says a report is one that the
file and the artifacts as they are would give. With `RecordReadBack` a command that loads the file has
that journal but for steps at its end (`LoadedJournal`), which keeps `SavedInFile` when it saves the
journal again. `RootSurvives` rests on `AsciiComesBack`: a field is the same after `encode_field` and
`decode_field` exactly if each of its bytes is below 128. Its proof is an induction over the bytes: `Encoded` says where the
encoding of each byte begins, `Decoded` what the decoder gets from each place on, and `UnitDecoded` what one byte becomes,
two characters when it is 128 or more. The induction is over a set of numbers
(`Counting`, from the well-foundedness of the naturals), which needs no theorem with an operator parameter.

**Only model-checked:** `RollbackCompletes`. Liveness under fairness, and with it `ENABLED`, is out of the prover's
reach; TLC checks it on the instance of `one_at_a_time`.

## 6. Worth knowing, without a property

- `repair` takes the journal written last. After a rollback of an older
  operation that is the rolled-back one, and after an apply that died it is not
  that apply. The documents say "latest operation" and do not define it.
- A path outside ASCII grows with every write and read of a record, as each of its bytes above 127 becomes
  two. Under a state root with such a letter, apply records a `backup_root` that does not exist, so verify
  calls every operation unverified and a WinPE rollback fails at its import
  (`RootSurvives`); an image under such a path cannot be staged from a plan file.
- `repair` overwrites `applied` with `repair-suggested`, after which verify no
  longer warns of missing staged files or entries (`service.rs:295-300`), though
  its verdict still requires them while the metadata exists. `FailureExplained` allows this one case.
- An import of another process between two commands of a registration can leave an entry in the menu without
  its options, or an apply that reports success for an entry that is out of the menu:
  `OnlyOverrunIncomplete` and `SuccessIsBootable` say that nothing else can.
- `remove_boot_entry` (`windows:467`) deletes one entry, but nothing calls it: undo and rollback
  import whole stores.
- A rollback that died during its save leaves a torn journal, and no command
  works on that operation any more (`RollbackCompletes` allows it by name).
- A rollback that died after the entry id is gone leaves the other metadata files
  behind; the next one only records `rolled-back`.
- `docs/security/threat-model.md` has the CLI unprivileged and the helper
  mutating; both binaries make the same service calls.
- A `{ramdiskoptions}` object Windows uses itself is overwritten (`windows:566-584`). `OriginalOptionsSaved`
  says its values are in some backup until a plan is applied a second time over PartBooter's.
- A plan made in another directory is applied under the state root in use, while its journal
  records the plan's own backup root (`service.rs:508`). Rollback then finds no backup;
  `VerifiedCanRollBack` says verify reports such an operation as not verified.
- A GPT disk with an ESP outweighs a registry and a boot loader that say BIOS (`windows:76`), although
  `docs/security/threat-model.md:36` would "block apply when required probe facts are missing or unsupported".
- A copy of the ESP through a letter that the probe reported may be one of another volume, if that letter was another
  command's temporary one, was released and taken again before `robocopy` starts (`windows:276`). `CopyIsOfEsp` says
  that nothing else leads to it; `README.md:40` of the repository knows no exception.
- A `Get-BitLockerVolume` that fails reads as no BitLocker, without a warning, and apply goes ahead
  (`windows:47`), although `docs/security/threat-model.md:36` would "block apply when required probe facts are missing".
  `DoubtsFlagged` says this is the one doubt that is never flagged.
- BitLocker or Secure Boot turned on after planning is probed by apply and dropped (`service.rs:106`): the risk flags
  are those of the day of the plan (`DoubtsFlagged`).
- Nothing records what the image was when it was planned: apply stages whatever file has its name
  (`service.rs:212`). `AppliedAsPlanned` is about its description.
- Plans are named by the second as well (`service.rs:90`), and the backup directory after the plan. Two plans made
  in one second share it, as if one plan were applied twice, of which `OnlyReapplyTaintsCheckpoint` says
  what it costs.
- A registration that fails before its closure leaves its object in the store (`windows:403`), and only
  the import of the undo takes it away, whose failure is ignored. `ImplementsEntryLife` says the object
  never gets into the boot menu; that it is deleted is promised nowhere.
- A plan file that is cut after its payload is accepted. `AppliedAsPlanned` says what
  is lost: risk flags only together with all steps.
- Any `.wim` with "boot" or "winpe" in its name is taken for WinPE.

## 7. Not modelled, and the plan

In this order:

1. **Several ESPs**: which partition `mountvol /s` maps and which one the script reports, once it is
   known what Windows answers; today `Facts` has one (`windows:58`).
2. **Staging and store together**: `SharedStore` with the one staging directory, where an
   undo also takes the files of a finished operation away.

Not planned: the argument parsing and printing of the CLI and the helper, the JSON they print
and the error type with its exit codes (`error.rs`), which no state depends on; the stubs for other
systems than Windows; and the behaviour of `bcdedit` and `robocopy` beyond what the code relies on.
