SPECIFICATION FairSpec
CONSTANTS
  Workers = {0, 1}
  InitialPlan = 1
  MaxPlan = 2
  MaxPeriods = 2
INVARIANTS
  Quiescent
  PlanSafe
PROPERTIES
  RoundHandedOut
  StopReturns
  DeleteReturns
CHECK_DEADLOCK TRUE
