SPECIFICATION StoreSpec
CONSTANTS
  p1 = p1
  p2 = p2
  Procs = {p1, p2}
  g1 = g1
  g2 = g2
  Guids = {g1, g2}
  NoGuid = NoGuid
  a = a
  b = b
  Plans = {a, b}
  NoPlan = NoPlan
  NoBackup = NoBackup
  MaxApplies = 2
SYMMETRY Symmetry
INVARIANTS
  StoreTypeOK
  OnlyOverrunIncomplete
  OriginalOptionsSaved
PROPERTY
  SuccessIsBootable
CHECK_DEADLOCK FALSE
