SPECIFICATION Spec

CONSTANTS
  Clients = {c1}
  Workers = {w1, w2}
  Keys = {k1}
  MaxQueued = 2
  MaxRetained = 2
  MaxAttempts = 1
  MaxJobs = 2
  MaxCrashes = 0
  None = None

PROPERTIES
  MarkerClosesClaimRace
