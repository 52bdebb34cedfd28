CONSTANTS
    USER_TASK_MAX = 2
    MaxPid = 3
    BoostInterval = 1
    Quantum <- MCQuantum
    IrqPreempt = FALSE
    TickUs = 2
    UintMod = 8
    SleepArgs = {0, 3}
    LoadOutcomes = {"ok", "early", "late"}
    Calls = {"spawn", "waitpid", "nohang", "sleep", "gui", "kill", "signal", "execve"}
    Signals = {"INT", "KILL", "CHLD"}
    CtrlC = TRUE
SPECIFICATION Spec
INVARIANTS TableSound CurrentSound CurrentIsProg
PROPERTIES ZombieStays
