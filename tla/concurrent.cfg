SPECIFICATION Spec
CONSTANTS
  Ops = {1, 2}
  winpe = winpe
  linux = linux
  Plans = {winpe, linux}
  WinPePlans = {winpe}
  HomePlans = {winpe, linux}
  NoPlan = NoPlan
  NoFile = NoFile
  Torn = Torn
  g1 = g1
  Guids = {g1}
  Loaders = {"windows"}
  NoGuid = NoGuid
  NoStore = NoStore
  PartialWim = PartialWim
  p1 = p1
  p2 = p2
  Procs = {p1, p2}
  ReuseIds = TRUE
SYMMETRY Symmetry
CONSTRAINT OneReissued
ACTION_CONSTRAINT SameSecond
INVARIANTS
  TypeOK
  CheckpointBeforeChange
  MetadataComplete
  RolledBackForgotten
  OnlyReapplyTaintsCheckpoint
PROPERTY
  ImplementsLedger
CHECK_DEADLOCK FALSE
