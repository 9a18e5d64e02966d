SPECIFICATION Spec

CONSTANTS
  Clients = {c1}
  Workers = {w1}
  Keys = {k1}
  MaxQueued = 2
  MaxRetained = 1
  MaxAttempts = 1
  MaxJobs = 1
  MaxCrashes = 1
  None = None

INVARIANTS
  TerminalDirIsTerminal
