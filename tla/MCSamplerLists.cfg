SPECIFICATION ListsSpec
CONSTANTS
  Players = {p1, p2}
  Workers = {w1, w2}
  Pool = {s1, s2, s3}
  Null = null
  UsedMod = 5
SYMMETRY Symmetry
CONSTRAINT BeforeAba
INVARIANTS
  Conserved
  UsedExact
  MixedSamplersStayOut
CHECK_DEADLOCK TRUE
