CONSTANTS
    f1 = f1
    f2 = f2
    f3 = f3
    f4 = f4
    Frames = {f1, f2, f3, f4}
    TailFrames = {f4}
    ImagePages = 1
    SharedPages = 1
    StackPages = 2
    InitialStack = 1
    TableOf <- MCTableOf
    BootTables <- MCBoot
    CLOCK_SIZE = 2
    MAX_SWAP_SLOTS = 2
    KernelMax = 2
    MaxLaunches = 2
    MaxSpan = 2
    None = None
SPECIFICATION Spec
SYMMETRY FrameSymmetry
INVARIANTS MemorySound Intact
PROPERTY StackTracked
