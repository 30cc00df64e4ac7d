--------------------------- MODULE OperationLedger ---------------------------
(***************************************************************************)
(* What the journal promises whoever reads it.  An operation is bound to   *)
(* one plan, for good, by its first record, and that record says what the  *)
(* plan's payload allows: applied for WinPE, checkpointed otherwise.       *)
(* Later records only report recovery.  A save cut short leaves a torn     *)
(* record, and the operation stays bound to its plan.  None of this is     *)
(* promised of an identifier that a second operation gets as well: it is   *)
(* withdrawn, and the others are kept as before.                           *)
(***************************************************************************)
EXTENDS DomainModel

VARIABLES
  ledger,     \* the record of each operation, NoFile or Torn
  book,       \* the plan an operation is bound to, NoPlan before its first record
  withdrawn   \* the identifiers the ledger no longer answers for

ledgerVars == <<ledger, book, withdrawn>>

LedgerInit ==
  /\ ledger = [o \in Ops |-> NoFile]
  /\ book = [o \in Ops |-> NoPlan]
  /\ withdrawn = {}

Outcome(pl) == IF pl \in WinPePlans THEN "applied" ELSE "checkpointed"

RecoveryStatuses == {"rolled-back", "repair-suggested"}

Damage(o) ==
  /\ ledger' = [ledger EXCEPT ![o] = Torn]
  /\ UNCHANGED <<book, withdrawn>>

RecordOutcome(o, pl) ==
  /\ book[o] = NoPlan
  /\ book' = [book EXCEPT ![o] = pl]
  /\ ledger' = [ledger EXCEPT ![o] = [status |-> Outcome(pl), plan |-> pl]]
  /\ UNCHANGED withdrawn

RecordRecovery(o, status) ==
  /\ book[o] # NoPlan
  /\ ledger' = [ledger EXCEPT ![o] = [status |-> status, plan |-> book[o]]]
  /\ UNCHANGED <<book, withdrawn>>

Withdraw(o) ==
  /\ ledger' = [ledger EXCEPT ![o] = NoFile]
  /\ book' = [book EXCEPT ![o] = NoPlan]
  /\ withdrawn' = withdrawn \union {o}

LedgerNext ==
  \E o \in Ops \ withdrawn :
    \/ Withdraw(o)
    \/ Damage(o)
    \/ \E pl \in Plans : RecordOutcome(o, pl)
    \/ \E status \in RecoveryStatuses : RecordRecovery(o, status)

LedgerSpec == LedgerInit /\ [][LedgerNext]_ledgerVars

=============================================================================
