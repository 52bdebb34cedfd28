CONSTANTS
    USER_FD_MAX = 7
    USER_PIPE_MAX = 2
    USER_PTY_MAX = 0
    BUFFER_BYTES = 2
    SPOOL_BYTES = 2
    Paths = {}
    NoPath = NoPath
    Tasks = {1, 2}
    Strings <- MCStrings
    ReadLens = {1, 2}
    LinksExposed = FALSE
    LinkBudget = 4
    MaxSpawns = 2
    MaxEpoch = 1
    MaxStages = 3
    StageKinds = {"task", "builtin"}
    LoadOutcomes = {"ok"}
    SpoolOutcomes = {TRUE}
    RemapStreams = {}
    Calls = {{"read", "write", "open", "close", "spawn", "wait"}}
SPECIFICATION FairSpec
INVARIANTS InOrder LinksSound
PROPERTY PipelineFinishes
