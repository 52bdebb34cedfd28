SPECIFICATION Spec
CONSTANTS
  NBlocks = 5
  CacheSize = 2
  FreeCacheSize = 2
  Slots = 1
  TableMax = 2
  Payload = 2
  Paths <- FilePaths
  Handles = {1, 2}
  MaxSize = 3
  MaxCalls = 3
  Calls = {"stream", "unlink", "open"}
  Modes = {TRUE}
INVARIANTS FilesSound
PROPERTY ImplementsFileStore
