SPECIFICATION Spec
CONSTANTS
  None = None
  Components = {1, 2, 3, 4, 5, 6}
  Kind <- BoardKind
  In <- BoardIn
  Out <- BoardOut
  Data <- NoData
  Edge <- BoardEdge
  Initial <- BoardInitial
  Nets <- BoardNets
  External = {"d", "en"}
  Delay <- BoardDelay
  Low <- BoardLevels
  High <- BoardLevels
  Scale = 2
  Stop = 6
  MaxEvents = 24
  MaxTransitions = 20
INVARIANTS NoEdgeIsMissed ChangesPropagate NextEventIsFuture HistoriesFollowNets
PROPERTY OperationReturns
CHECK_DEADLOCK FALSE
