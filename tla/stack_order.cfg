SPECIFICATION StackSpec
CONSTANTS
  Ops = {1, 2, 3}
  first = first
  second = second
  third = third
  Plans = {first, second, third}
  WinPePlans = {first, second, third}
  HomePlans = {first, second, third}
  NoPlan = NoPlan
  NoFile = NoFile
  Torn = Torn
  g1 = g1
  g2 = g2
  g3 = g3
  Guids = {g1, g2, g3}
  Loaders = {"windows", "other"}
  NoGuid = NoGuid
  NoStore = NoStore
  PartialWim = PartialWim
  p1 = p1
  Procs = {p1}
  ReuseIds = FALSE
SYMMETRY Symmetry
CONSTRAINT FewDefaults
INVARIANTS
  RolledBackEntriesGone
  AppliedEntryStays
CHECK_DEADLOCK FALSE
