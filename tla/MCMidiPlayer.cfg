SPECIFICATION Spec
CONSTANTS
  MaxTime = 7
  Times <- MCTimes
  Presses = {2, 3}
  Second = 3
  Beats = {2, 3}
INVARIANTS
  Armed
  OneTimerEach
  NotBeforeItsTime
CHECK_DEADLOCK TRUE
