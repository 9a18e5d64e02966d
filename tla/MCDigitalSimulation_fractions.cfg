SPECIFICATION Spec
CONSTANTS
  None = None
  Components = {1, 2}
  Kind <- GatedKind
  In <- GatedIn
  Out <- GatedOut
  Data = None
  Edge = None
  Initial <- GatedInitial
  Nets <- GatedNets
  External = {"d"}
  Delay <- GatedDelay
  Low <- GatedLevels
  High <- GatedLevels
  Scale = 4
  Stop = 24
  MaxEvents = 24
  MaxTransitions = 20
INVARIANT ChangesPropagate
CHECK_DEADLOCK FALSE
