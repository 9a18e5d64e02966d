SPECIFICATION Spec
CONSTANTS
  None = None
  Participants = {1, 2, 3, 4}
  Ports = {1, 2, 3, 4, 5, 6, 7, 8}
  Owner <- LoopOwner
  Direction <- LoopDirection
  Domain <- LoopDomain
  Unit <- LoopUnit
  Kind <- LoopKind
  Logic = {0, 2}
  Voltages = {0, 1, 2}
  LowVoltage = 0
  HighVoltage = 2
  LowThreshold = 0
  HighThreshold = 2
  Registrations <- LoopRegistrations
  Stop = 2
  MaxStep = 2
  MaxDeltaCycles = 3
  MaxSteps = 2
  MaxTime = 3
  Exact = 1
  Faults = {"fail","time","event","value"}
  Interrupts = {"cancel","timeout"}
  MaxRuns = 1
INVARIANTS LockStep InputsAreAccepted EventsAreNeverPassed SettledWhenSampled BridgesConvert
PROPERTY RunReturns
CHECK_DEADLOCK FALSE
