CONSTANTS
    Engines = {"isolated", "ngspice", "xspice", "mixed", "verilator", "renode"}
    Limit = 1
    MaxSize = 2
SPECIFICATION Spec
CHECK_DEADLOCK FALSE
INVARIANTS NothingLeftBehind OutcomesAreEarned
PROPERTIES RunReturns
