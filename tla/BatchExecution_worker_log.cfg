CONSTANTS
    Engines = {"isolated"}
    Limit = 1
    MaxSize = 2
SPECIFICATION Spec
CHECK_DEADLOCK FALSE
INVARIANTS WorkerLogIsBounded
