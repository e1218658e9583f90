SPECIFICATION FairSpec
CONSTANTS
  Workers = {w1, w2}
  Owner = o
  Samplers = {s1}
  None = none
  CountMod = 5
INVARIANTS
  
  DoneIsComplete
  NoDoubleMix
PROPERTIES
  ImplementsMixRound
  WaiterReturns
  RoundEnds
CHECK_DEADLOCK TRUE
