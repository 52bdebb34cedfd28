SPECIFICATION ServicesSpec
CONSTANTS
    Rams = {500, 2048, 8192, 8200, 300000}
    FreeKbs = {0, 4, 512, 516, 600, 768, 772, 5000, 100000}
    HeapSize = 20
    BLOCK_HEADER_SIZE = 2
    MIN_BLOCK_SIZE = 2
    ALIGN = 2
    HeapScan = 4
    SlabFrames = {1, 2}
    SlabPage = 5
    SlabHeader = 1
    ClassSizes <- Classes
    Requests = {1, 3, 5, 6}
    RxRing = 3
    TxRing = 3
    Frames = 4
    Scripts <- ScriptSet
    FileSystems <- FsSet
    MAX_DEPTH = 2
    MAX_VARS = 1
    MaxLines = 8
    INPUT_BUF_LEN = 4
    MAX_HISTORY_SIZE = 2
    TERM_COLS = 4
    VTERM_HISTORY_ROWS = 3
    PromptLen = 2
    STDIN_SIZE = 4
    Letters = {"a", "clear"}
    MaxKeys = 4
    Width = 1
    PACKET_SIZE = 4
    PacketLen = 3
    QueueSize = 2
    MaxPresses = 3
    MaxBytes = 6
    Lines <- LineSet
    Configs <- ConfigSet
    FileSets <- TreeSet
    Slashed = {"/d/p"}
    ALIAS_MAX_COUNT = 4
    ALIAS_DEPTH = 4
    SHELL_ARGS_MAX = 3
    LineWords = 4
    COMMAND_CONTEXT_STACK_MAX = 2
    MaxFrames = 4
    MaxLinesRun = 5
    Radix = 4
    Nibble = 2
    MaxSpt = 3
    AtaDisks <- Disks
    AtaLbas = {0, 9, 17, 130}
    AtaVals = {0, 1}
    ATA_PIO_MAX_ATTEMPTS = 3
    ATA_RESET_BACKOFF_MAX_SHIFT = 2
    MaxAtaCalls = 2
    PciBuses <- Buses
    DriveSlots = {0, 2}
    PartTables <- Tables
    DiskSectors = 20
    InstallStart = 2
    PageSectors = 2
    BlockBits = 4
    MaxScans = 5
    FatNames = {"a", "b", "long_a"}
    Fat83 <- ShortNames
    LongNames = {"long_a"}
    FatData = {"x"}
    LastCluster = 5
    Padding = 1
    SecPerClus = 2
    DirSlots = 2
    MaxFatSize = 4
    MaxFatCalls = 4
    RamModules <- Modules
    RamWrites <- RawSectors
    RamPaths <- PathSet
    BootMaps <- Machines
    PageBytes = 2
    LowFrames = 2
    WordFrames = 4
    MAX_FRAMES = 26
    PdeFrames = 12
    MinPdes = 1
    MaxPdes = 2
    HeapWanted = 3
    HeapLeaves = 2
    RamCells = 2
    EYNFS_SUPERBLOCK_LBA = 3
    MaxRamReads = 5
    MaxRamWrites = 1
    QueueSlots = 3
    QueueLevels = 2
    MaxTornOps = 1
INVARIANT RunsSelected
CHECK_DEADLOCK FALSE
