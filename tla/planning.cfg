SPECIFICATION Spec
CONSTANTS
  Machines <- MCMachines
  Names <- MCNames
INVARIANTS
  TypeOK
  AdmittedIsFit
  AppliedAsPlanned
  BlockedIsExplained
  ValidatorAgrees
  DoubtsFlagged
CHECK_DEADLOCK FALSE
