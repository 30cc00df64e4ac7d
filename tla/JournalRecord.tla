---------------------------- MODULE JournalRecord ----------------------------
(***************************************************************************)
(* One operation as its journal tells it: the record file line by line,    *)
(* saved by apply, rollback and repair, each save of which may be cut, and *)
(* read back by rollback, repair and verify (crates/common, crates/core).  *)
(* Lifecycle has the calls and the interleavings; here is what a file says *)
(* and what verify makes of it and of the machine.                         *)
(***************************************************************************)
EXTENDS RecordFile, FieldEncoding, SequencesExt

CONSTANTS
  Roots,    \* paths of state roots, in bytes
  MaxSaves  \* bound: how often the journal is saved

ASSUME RootsAssumption == Roots \subseteq Seq(Byte)

ASSUME SavesAssumption == MaxSaves \in Nat

VARIABLES
  root,   \* the state root; .partbooter of the current directory
  file,   \* operations/<op>.pbop
  there,  \* which artifacts of the operation exist on the machine
  report, \* what verify printed, when that was the last step
  saved,  \* history: the journal of the last save, as it was to be written
  saves   \* history: how many saves there were

vars == <<root, file, there, report, saved, saves>>

-----------------------------------------------------------------------------
Kinds == <<"backup-esp", "snapshot-boot-config", "stage-payload",
           "write-loader-config", "register-boot-entry", "verify-boot-entry">>

StepRecord(id, kind, outcome) == [id |-> id, kind |-> kind, outcome |-> outcome]

(* The steps apply records: all of a WinPE plan, of another only the backup. *)
StepRecords(payload, count) ==
  [i \in 1..count |->
     StepRecord(i, Kinds[i], IF payload = "winpe" \/ i <= 2 THEN "completed" ELSE "skipped")]

(* Fault: the marker gets the number of the step it resembles. *)
MarkerAsStep == StepRecord(6, "verify-boot-entry", "completed")

(* What rollback adds to them *)
Marker == StepRecord(255, "verify-boot-entry", "completed")

(* The path read where this one was written.  encode_field and decode_field only
   ever add bytes above 127, so a path that changed never comes back. *)
Reread(path) == IF Trip(root) = root THEN path ELSE "another"

NoJournal == [status |-> "none"]

NoReport == [status |-> "none"]

ToRecordFile(journal) ==
  << Line("PARTBOOTER_OPERATION_V1", "any"),
     Line("operation_id", journal.operation),
     Line("plan_id", journal.plan),
     Line("backup_root", journal.path),
     Line("status", journal.status),
     Line("summary", "any") >>
  \o Lines("step", journal.steps)

(* The paths and names in a record *)
FreeText(line) ==
  \/ line.key \in {"backup_root", "summary"}
  \/ line.key = "step" /\ line.value.outcome = "completed" /\ line.value.id \in {1, 2, 4, 5}

(* What save_journal may leave of a journal, when the process dies before the file
   is whole *)
FilesOf(journal) ==
  LET lines == ToRecordFile(journal) IN
    Written(lines, {i \in DOMAIN lines : FreeText(lines[i])})

(* from_record_file succeeds: a step whose detail is broken is an error, and the
   other fields are asked for in the end. *)
Loads(lines) ==
  /\ \A i \in DOMAIN lines : lines[i].state # "broken"
  /\ Has(lines, "PARTBOOTER_OPERATION_V1", {"whole"})
  /\ Has(lines, "status", {"whole"})
  /\ \A key \in {"operation_id", "plan_id", "backup_root", "summary"} :
       Has(lines, key, {"whole", "last"})

FromRecordFile(lines) ==
  [operation |-> Fields(lines, "operation_id")[1].value,
   plan      |-> Fields(lines, "plan_id")[1].value,
   path      |-> Reread(Fields(lines, "backup_root")[1].value),
   status    |-> Fields(lines, "status")[1].value,
   steps     |-> Values(Fields(lines, "step"))]

-----------------------------------------------------------------------------
Init ==
  /\ root \in Roots
  /\ file = <<>>
  /\ there = {}
  /\ report = NoReport
  /\ saved = NoJournal
  /\ saves = 0

(* Fault: the file is written over and not truncated. *)
SaveInPlace(journal) ==
  /\ saves < MaxSaves
  /\ LET lines == ToRecordFile(journal) IN
       \E k \in 0..Len(lines) :
         file' = SubSeq(lines, 1, k) \o SubSeq(file, k + 1, Len(file))
  /\ saved' = journal
  /\ saves' = saves + 1
  /\ report' = NoReport

(* save_journal *)
Save(journal) ==
  /\ saves < MaxSaves
  /\ file' \in FilesOf(journal)
  /\ saved' = journal
  /\ saves' = saves + 1
  /\ report' = NoReport

(* apply_plan that got as far as its journal.  The backup root comes from the
   plan file, which may have been cut to fewer steps. *)
Apply ==
  /\ saved = NoJournal
  /\ \E payload \in {"winpe", "linux-iso"}, count \in 0..Len(Kinds) :
       /\ there' = {"backups", "plan"} \union
                   (IF payload = "winpe" THEN {"metadata", "staged", "entry"} ELSE {})
       /\ Save([operation |-> "op", plan |-> "plan", path |-> Reread("root"),
                status |-> IF payload = "winpe" THEN "applied" ELSE "checkpointed",
                steps |-> StepRecords(payload, count)])
  /\ UNCHANGED root

(* The backup is where the journal says. *)
BackupFound(journal) == journal.path = "root" /\ "backups" \in there

(* Fault: only what is still recorded as applied is taken back. *)
RollbackOfApplied ==
  /\ Loads(file)
  /\ LET journal == FromRecordFile(file) IN
       /\ IF journal.status = "applied" /\ "metadata" \in there
          THEN /\ BackupFound(journal)
               /\ there' = there \ {"metadata", "staged", "entry"}
          ELSE UNCHANGED there
       /\ Save([journal EXCEPT !.status = "rolled-back", !.steps = Append(@, Marker)])
  /\ UNCHANGED root

(* rollback_operation, to its end *)
Rollback ==
  /\ Loads(file)
  /\ LET journal == FromRecordFile(file) IN
       /\ IF "metadata" \in there
          THEN /\ BackupFound(journal)
               /\ there' = there \ {"metadata", "staged", "entry"}
          ELSE UNCHANGED there
       /\ Save([journal EXCEPT !.status = "rolled-back", !.steps = Append(@, Marker)])
  /\ UNCHANGED root

(* rollback_operation that dies after the import, with or without the staged files
   and the metadata gone, and before its journal *)
CutRollback ==
  /\ Loads(file) /\ "metadata" \in there /\ BackupFound(FromRecordFile(file))
  /\ there' \in {there \ {"entry"}, there \ {"entry", "staged"},
                 there \ {"entry", "staged", "metadata"}}
  /\ report' = NoReport
  /\ UNCHANGED <<root, file, saved, saves>>

(* repair_latest *)
Repair ==
  /\ Loads(file)
  /\ Save([FromRecordFile(file) EXCEPT !.status = "repair-suggested"])
  /\ UNCHANGED <<root, there>>

(* Other programs, and other operations, take artifacts away. *)
Lose(artifact) ==
  /\ artifact \in there
  /\ there' = there \ {artifact}
  /\ report' = NoReport
  /\ UNCHANGED <<root, file, saved, saves>>

(* The warnings of verify_operation *)
WarningsOf(status, backups, plan, staged, entry) ==
  LET due == [checkpoint |-> status = "checkpointed",
              staged     |-> status = "applied" /\ ~staged,
              entry      |-> status = "applied" /\ ~entry,
              backup     |-> ~backups,
              plan       |-> ~plan]
  IN {w \in DOMAIN due : due[w]}

(* Fault: a journal whose status was overwritten is not looked into. *)
FullByStatus(status) == status = "applied"

(* Staged files and boot entry are to be there. *)
FullBootPathExpected(status) == "metadata" \in there \/ status = "applied"

(* What verify prints of a journal; bcdedit may have answered or not. *)
ReportOf(journal, answered) ==
  LET metadata == "metadata" \in there
      applied == journal.status = "applied"
      backups == BackupFound(journal)
      plan == "plan" \in there
      staged == IF metadata THEN "staged" \in there ELSE applied
      entry == IF metadata THEN answered /\ "entry" \in there ELSE applied
  IN [verified |-> backups /\ plan
                     /\ (FullBootPathExpected(journal.status) => staged /\ entry),
      warnings |-> WarningsOf(journal.status, backups, plan, staged, entry),
      status   |-> journal.status]

(* verify_operation; bcdedit /enum may fail though the entry is there. *)
Verify ==
  /\ Loads(file)
  /\ \E answered \in BOOLEAN : report' = ReportOf(FromRecordFile(file), answered)
  /\ UNCHANGED <<root, file, there, saved, saves>>

Next ==
  \/ Apply \/ Rollback \/ CutRollback \/ Repair \/ Verify
  \/ \E artifact \in {"backups", "plan", "staged", "entry"} : Lose(artifact)

Spec == Init /\ [][Next]_vars

-----------------------------------------------------------------------------
Statuses == {"applied", "checkpointed", "rolled-back", "repair-suggested"}

Artifacts == {"backups", "plan", "metadata", "staged", "entry"}

TypeOK ==
  /\ root \in Roots
  /\ \A i \in DOMAIN file : file[i].state \in {"whole", "short", "last", "broken"}
  /\ there \subseteq Artifacts
  /\ report = NoReport \/ (report.verified \in BOOLEAN /\ report.status \in Statuses)
  /\ saved = NoJournal \/
       /\ saved.status \in Statuses
       /\ \A i \in DOMAIN saved.steps : saved.steps[i].id \in {i, 255}
  /\ saves \in 0..MaxSaves

(* A file that loads is the last journal that was saved, but for the steps at its
   end: a save cut short never leaves another status, plan or operation to act on
   (OperationJournal::from_record_file, FileJournalStore::save_journal). *)
LoadedIsSaved ==
  Loads(file) =>
    LET journal == FromRecordFile(file) IN
      /\ <<journal.operation, journal.plan, journal.status>> =
           <<saved.operation, saved.plan, saved.status>>
      /\ IsPrefix(journal.steps, saved.steps)

(* However often a journal was saved and read, it leads to the backups exactly
   when the path of the state root is ASCII: every other path is another one after
   one trip through encode_field and decode_field. *)
RootSurvives == Loads(file) => (FromRecordFile(file).path = "root" <=> Ascii(root))

(* verify_operation gives a reason whenever it does not verify, except after
   repair_latest, whose status silences the warnings of an applied operation. *)
FailureExplained ==
  report # NoReport /\ ~report.verified =>
    report.warnings # {} \/ report.status = "repair-suggested"

(* With a root that is ASCII, verify calls an operation that still has its
   metadata verified only if backup, plan, staged files and boot entry are all
   there, and a false alarm is only ever about the entry, whatever repair,
   rollbacks cut short and cut saves did to its journal. *)
VerifiedIsIntact ==
  report # NoReport /\ Ascii(root) /\ "metadata" \in there =>
    /\ report.verified => there = Artifacts
    /\ there = Artifacts => report.verified \/ report.warnings \subseteq {"entry"}

(* A journal with the marker of a rollback belongs to an operation of which
   nothing is left to restore, also when repair has overwritten its status. *)
MarkerMeansRolledBack ==
  Loads(file) =>
    ("metadata" \in there => ~Contains(FromRecordFile(file).steps, Marker))

-----------------------------------------------------------------------------
(* The inductive invariant behind these. *)

Records == [id : 1..6 \union {255}, kind : {Kinds[i] : i \in DOMAIN Kinds},
            outcome : {"completed", "skipped"}]

(* Every journal that is saved is the operation's, with the path that one trip
   through the encoding leaves, and its steps are numbered but for markers. *)
IsJournal(journal) ==
  /\ journal.operation = "op" /\ journal.plan = "plan" /\ journal.path = Reread("root")
  /\ journal.status \in Statuses
  /\ journal.steps \in Seq(Records)
  /\ \A i \in DOMAIN journal.steps : journal.steps[i].id \in {i, 255}

(* There is no operation before apply saved its journal; from then on the file is
   what a save leaves.  Metadata on the disk is of an operation that wrote a boot
   entry and that no rollback has recorded. *)
SavedInFile ==
  \/ saved = NoJournal /\ file = <<>> /\ there = {}
  \/ /\ IsJournal(saved) /\ file \in FilesOf(saved)
     /\ "metadata" \in there =>
          saved.status \in {"applied", "repair-suggested"} /\ ~Contains(saved.steps, Marker)

(* A report is of the file and the machine as they are. *)
ReportIsCurrent ==
  report # NoReport =>
    Loads(file) /\ \E answered \in BOOLEAN : report = ReportOf(FromRecordFile(file), answered)

JournalInv ==
  /\ root \in Roots /\ there \subseteq Artifacts /\ saves \in 0..MaxSaves
  /\ SavedInFile
  /\ ReportIsCurrent

=============================================================================
