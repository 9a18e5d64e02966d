CONSTANTS
    InPorts = {"drive"}
    OutPorts = {"sense"}
    PadPorts = {"pad"}
    MaxTime = 4
    NsTicks = 2
    Quantum = 2
    StopTime = 3
    MaxSpawns = 2
    Faults = {"malformed", "time", "next"}
SPECIFICATION Spec
CHECK_DEADLOCK FALSE
INVARIANTS AnswersBelongToCommands SkippedWritesAreRedundant NoStrayHelper
PROPERTIES KeepsContract CallReturns
