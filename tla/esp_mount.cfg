SPECIFICATION Spec
CONSTANTS
  p1 = p1
  p2 = p2
  Procs = {p1, p2}
  Letters = {1, 2}
  NoLetter = NoLetter
  NoProc = NoProc
SYMMETRY Symmetry
INVARIANTS
  TypeOK
  CopyIsOfEsp
  OneLetterEach
  LettersReturned
PROPERTY
  OnlyMapperReleases
CHECK_DEADLOCK FALSE
