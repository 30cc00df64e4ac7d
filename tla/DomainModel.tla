----------------------------- MODULE DomainModel -----------------------------
(***************************************************************************)
(* The vocabulary of crates/common that the other modules share: operation *)
(* identifiers, plans and the operation record a journal file holds.       *)
(* Names, paths and messages are opaque; an operation identifier is the    *)
(* number of seconds unique_suffix returned, so identifiers are ordered.   *)
(***************************************************************************)
EXTENDS Naturals

CONSTANTS
  Ops,         \* the identifiers unique_suffix can return, as numbers
  Plans,       \* plan artifacts, by plan_id
  WinPePlans,  \* the plans whose payload is a WinPE image; the rest are Linux ISOs
  HomePlans,   \* the plans whose backup_root lies under the state root in use now
  NoPlan,      \* no plan
  NoFile,      \* a journal file that does not exist
  Torn         \* a journal file whose content from_record_file rejects

ASSUME OpsAssumption == Ops \subseteq Nat \ {0}

ASSUME PlansAssumption ==
  /\ WinPePlans \subseteq Plans
  /\ HomePlans \subseteq Plans
  /\ NoPlan \notin Plans

NoOp == 0

(* The values of OperationStatus the service writes; Planned, Verified and
   Failed are parsed but no command ever stores them. *)
Statuses == {"checkpointed", "applied", "rolled-back", "repair-suggested"}

NoStatus == "none"

(* What a journal file says of its operation: its status, and its plan, which
   stands for plan_id and for the backup_root copied from the plan. *)
Records == [status : Statuses, plan : Plans]

ASSUME FilesAssumption ==
  /\ NoFile \notin Records
  /\ Torn \notin Records
  /\ NoFile # Torn

=============================================================================
