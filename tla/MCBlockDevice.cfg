SPECIFICATION Spec
CONSTANTS
  SectorSize = 2
  Capacity = 3
  Byte = {1, 2}
  Junk = 0
  RegBase = 2
  HeadBase = 2
  Writes <- MCWrites
  Reads <- MCReads
  Runs <- MCRuns
INVARIANTS WriteIsExact ReadIsExact CommandsMeetIdleDrive
PROPERTY CallReturns
\* kernel_main() panics without a disk.
CHECK_DEADLOCK FALSE
