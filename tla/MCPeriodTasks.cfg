SPECIFICATION FairSpec
CONSTANTS
  Tasks <- MCTasks
  Priority <- MCPriority
  Repeatable <- MCRepeatable
  RepeatCount = 1
  Workers = {w1}
  Owner = o
  None = none
  Inputs <- MCInputs
  Amplitudes <- MCAmplitudes
  Cells <- MCCells
  Groups = {"group"}
  Output = "output"
  BuildOrder <- MCBuildOrder
  LateTask = "cell2"
INVARIANTS
  OutputFresh
  InputsFirst
  EveryTaskOffered
PROPERTIES
  RoundEnds
CHECK_DEADLOCK TRUE
