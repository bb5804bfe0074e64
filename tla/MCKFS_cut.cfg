SPECIFICATION Spec
CONSTANTS
  InodeCount = 3
  DataBlocks = 4
  BlockUnits = 5
  EntryUnits = 2
  NDirect = 1
  NIndirect = 1
  Fds = {3, 4}
  Values = {1}
  Counts = {7}
  Installed = "a"
  Paths <- MCPaths
  OpenCalls <- MCOpens
  Crashes = FALSE
CONSTRAINT Followed
VIEW View
INVARIANT EntriesWhole
