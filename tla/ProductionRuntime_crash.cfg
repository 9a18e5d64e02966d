SPECIFICATION FairSpec

CONSTANTS
  Clients = {c1}
  Workers = {w1}
  Keys = {k1}
  MaxQueued = 2
  MaxRetained = 1
  MaxAttempts = 2
  MaxJobs = 2
  MaxCrashes = 2
  None = None

INVARIANTS
  OneFilePerJob
  SnapshotCoherent
  SucceededIsCached

PROPERTIES
  ImplementsLifecycle
  EventuallySettled
  CancelTakesEffect
