SPECIFICATION TurnSpec
CONSTANTS
  Ops = {1, 2}
  home = home
  foreign = foreign
  Plans = {home, foreign}
  WinPePlans = {home, foreign}
  HomePlans = {home}
  NoPlan = NoPlan
  NoFile = NoFile
  Torn = Torn
  g1 = g1
  g2 = g2
  Guids = {g1, g2}
  Loaders = {"windows", "other"}
  NoGuid = NoGuid
  NoStore = NoStore
  PartialWim = PartialWim
  p1 = p1
  Procs = {p1}
  ReuseIds = FALSE
INVARIANT
  VerifiedCanRollBack
PROPERTIES
  RollbackCompletes
  AppliedIsBootable
  OnlyRollbackUnregisters
CHECK_DEADLOCK FALSE
