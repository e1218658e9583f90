SPECIFICATION FairSpec
CONSTANTS
  Samplers = {s1, s2}
  Notes = {pipe, drum, trem}
  Tremulants = {trem}
  Oneshots = {drum}
  Delay <- MCDelay
  MaxLife = 1
  None = none
INVARIANTS
  LoopsAccounted
  StopsNoOtherAttack
  OneRelease
PROPERTIES
  NoteEnds
CHECK_DEADLOCK TRUE
