CONSTANTS
    USER_FD_MAX = 6
    USER_PIPE_MAX = 1
    USER_PTY_MAX = 1
    BUFFER_BYTES = 1
    SPOOL_BYTES = 1
    Paths = {"f"}
    NoPath = NoPath
    Tasks = {1, 2}
    Strings <- MCZeros
    ReadLens = {1}
    LinksExposed = FALSE
    LinkBudget = 2
    MaxSpawns = 2
    MaxEpoch = 1
    MaxStages = 0
    StageKinds = {"task", "builtin"}
    LoadOutcomes = {"ok", "early", "late"}
    SpoolOutcomes = {TRUE}
    RemapStreams = {1}
    Calls <- MCCalls
SPECIFICATION Spec
INVARIANTS ObjectsSound ShellClean
