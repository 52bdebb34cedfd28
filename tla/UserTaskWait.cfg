CONSTANTS
    USER_TASK_MAX = 3
    MaxPid = 3
    BoostInterval = 2
    Quantum <- MCQuantum
    IrqPreempt = TRUE
    TickUs = 1
    UintMod = 4
    SleepArgs = {2}
    LoadOutcomes = {"ok"}
    Calls = {"spawn", "waitpid", "kill"}
    Signals = {"KILL"}
    CtrlC = FALSE
SPECIFICATION Spec
INVARIANTS NoLostWaiter QueuesSound
