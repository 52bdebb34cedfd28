SPECIFICATION FairSpec
CONSTANTS
  NBlocks = 5
  CacheSize = 2
  FreeCacheSize = 2
  Slots = 1
  TableMax = 2
  Payload = 1
  Paths <- TreePaths
  Handles = {1}
  MaxSize = 2
  MaxCalls = 4
  Calls = {"write", "append", "unlink", "rmdir", "mkdir", "stream", "open", "format"}
  Modes = {TRUE, FALSE}
INVARIANTS BlocksSound
 
