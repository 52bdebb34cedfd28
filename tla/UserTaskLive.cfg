CONSTANTS
    USER_TASK_MAX = 3
    MaxPid = 3
    BoostInterval = 1
    Quantum <- MCQuantum
    IrqPreempt = FALSE
    TickUs = 1
    UintMod = 4
    SleepArgs = {1}
    LoadOutcomes = {"ok", "early"}
    Calls = {"spawn", "waitpid", "sleep"}
    Signals = {"KILL"}
    CtrlC = TRUE
SPECIFICATION FairSpec
INVARIANTS Ring3Mapped
PROPERTY TasksProgress
