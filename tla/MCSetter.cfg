SPECIFICATION Spec
CONSTANTS
  principal = principal
  trumpet = trumpet
  both = both
  Default = default
  Drawstops = {principal, trumpet, both}
  Function <- MCFunction
  Controlling <- MCControlling
  Controlled <- MCControlled
  GCState <- MCGCState
  InitEngaged <- MCInitEngaged
  StateNames <- MCStateNames
  ElementOrder <- MCOrder
  Always = {principal}
  NGenerals = 1
  NFrames = 2
  NCrescendos = 1
  NSteps = 2
  ProtectedGenerals = {}
  ProtectedFrames = {1}
  ProtectedSteps = {1}
  InitGeneral <- MCGeneral
  InitFrame <- MCFrame
  InitCrescendo <- MCCrescendo
  InitOverride <- MCOverride
  MaxEdits = 1
INVARIANTS
  DrawstopsSettled
  RecallExact
  CancelClears
  GeneralsRoundTrip
CHECK_DEADLOCK TRUE
