SPECIFICATION Spec
CONSTANTS
  InodeCount = 3
  DataBlocks = 4
  BlockUnits = 5
  EntryUnits = 2
  NDirect = 1
  NIndirect = 1
  Fds = {3}
  Values = {1}
  Counts = {7}
  Installed = "a"
  Paths <- MCPaths
  OpenCalls <- MCCrashOpens
  Crashes = TRUE
CONSTRAINT Followed
VIEW View
INVARIANTS
  CrashSafe
  OneHomePerBlock
PROPERTY ImplementsFileStore
