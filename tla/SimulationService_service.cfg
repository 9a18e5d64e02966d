SPECIFICATION FairSpec

CONSTANTS
  MaxJobs = 2
  Streams = {s1}
  MaxRetained = 1
  MaxConcurrent = 1
  Capacity = 2
  None = None

INVARIANTS
  PermitsConserved
  RetentionBounded
  CancelWins
  StreamCaughtUp
  StreamEndsWithTerminal

PROPERTIES
  JobSettles
  StreamEnds

CHECK_DEADLOCK FALSE
