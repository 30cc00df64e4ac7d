SPECIFICATION Spec
CONSTANTS
  p1 = p1
  p2 = p2
  Procs = {p1, p2}
  g1 = g1
  g2 = g2
  g3 = g3
  Guids = {g1, g2, g3}
  NoGuid = NoGuid
SYMMETRY Symmetry
INVARIANTS
  TypeOK
  ShownIsConfigured
PROPERTY
  ImplementsEntryLife
CHECK_DEADLOCK FALSE
