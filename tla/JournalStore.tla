----------------------------- MODULE JournalStore ----------------------------
(***************************************************************************)
(* crates/journal: the files under the state root, one journal file per    *)
(* operation and one backup directory per plan.  FileJournalStore::        *)
(* save_journal is fs::write on the journal file itself, which truncates   *)
(* the file and then fills it: a reader, or a crash, may come in between.  *)
(***************************************************************************)
EXTENDS DomainModel

VARIABLES
  journal,   \* operations/<op>.pbop
  latest,    \* the operation whose journal file has the newest mtime
  savedPlan, \* operations/<op>/plan.pbplan, by the plan it holds
  manifest,  \* does backups/<plan>/manifest.txt exist?
  recorded,  \* history: the operations whose journal was ever written in full
  ran,       \* history: the plans that were ever applied under an identifier
  reissued   \* history: the identifiers that more than one apply got

runVars == <<savedPlan, ran, reissued>>
storeVars == <<journal, latest, manifest, recorded, runVars>>

StoreTypeOK ==
  /\ journal \in [Ops -> Records \union {NoFile, Torn}]
  /\ latest \in Ops \union {NoOp}
  /\ savedPlan \in [Ops -> Plans \union {NoPlan}]
  /\ manifest \in [Plans -> BOOLEAN]
  /\ recorded \subseteq Ops
  /\ ran \in [Ops -> SUBSET Plans]
  /\ reissued \subseteq Ops

StoreInit ==
  /\ journal = [o \in Ops |-> NoFile]
  /\ latest = NoOp
  /\ savedPlan = [o \in Ops |-> NoPlan]
  /\ manifest = [pl \in Plans |-> FALSE]
  /\ recorded = {}
  /\ ran = [o \in Ops |-> {}]
  /\ reissued = {}

(* load_journal succeeds *)
Loadable(o) == journal[o] \in Records

(* The operations that have a directory under operations/. *)
UsedOps == {o \in Ops : savedPlan[o] # NoPlan}

(* The operations whose identifier no other apply got. *)
Unshared == Ops \ reissued

(* The operations that ran a plan. *)
RunsOf(pl) == {o \in Ops : pl \in ran[o]}

AppliedOnce(pl) == \A o1, o2 \in RunsOf(pl) : o1 = o2

(* A second apply under the same identifier overwrites the plan of the first. *)
SavePlan(o, pl) ==
  /\ savedPlan' = [savedPlan EXCEPT ![o] = pl]
  /\ ran' = [ran EXCEPT ![o] = @ \union {pl}]
  /\ reissued' = IF savedPlan[o] = NoPlan THEN reissued ELSE reissued \union {o}
  /\ UNCHANGED <<journal, latest, manifest, recorded>>

WriteBackupManifest(pl) ==
  /\ manifest' = [manifest EXCEPT ![pl] = TRUE]
  /\ UNCHANGED <<journal, latest, recorded, runVars>>

(* save_journal, first half: the open truncates the file. *)
TruncateJournal(o) ==
  /\ journal' = [journal EXCEPT ![o] = Torn]
  /\ latest' = o
  /\ UNCHANGED <<manifest, recorded, runVars>>

(* save_journal, second half: the record is in the file. *)
FillJournal(o, record) ==
  /\ journal' = [journal EXCEPT ![o] = record]
  /\ latest' = o
  /\ recorded' = recorded \union {o}
  /\ UNCHANGED <<manifest, runVars>>

=============================================================================
