SPECIFICATION MCSpec

CONSTANTS
  Clients = {c1}
  Workers = {w1, w2}
  Keys = {k1}
  MaxQueued = 1
  MaxRetained = 1
  MaxAttempts = 2
  MaxJobs = 3
  Batch = 2
  MaxCrashes = 0
  None = None

SYMMETRY Symmetry

INVARIANTS
  ExclusiveClaim
  DrainLeavesNothingBehind

PROPERTIES
  PruneKeepsRetained
  VisibleTerminalIsFinal
