SPECIFICATION ListsSpec
CONSTANTS
  Players = {p1, p2}
  Workers = {w1}
  Pool = {s1, s2, s3}
  Null = null
  UsedMod = 5
INVARIANT
  NoneLost
