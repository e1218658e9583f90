SPECIFICATION FairSpec
CONSTANTS
  Outputs = {0, 1}
  CounterMod = 8
INVARIANTS
  OncePerRound
  GracefulStop
  DisconnectDrains
PROPERTIES
  DisconnectReturns
CHECK_DEADLOCK FALSE
