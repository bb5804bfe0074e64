SPECIFICATION Spec
CONSTANTS
  Frame = {1, 2, 3, 4, 5, 6, 7, 8, 9, 10, 11, 12, 13, 14, 15, 16}
  BootPml4 = 99
  Pid = {1, 2}
  InitPid = 1
  Levels = 3
  Fanout = 2
  Span <- MCSpan
  UserPages = 4
  HeapBase = 4
  HeapPages = 2
  BootTops = {2}
  PageSize = 2
  AddressEnd = 24
  StackBottom = 3
  StackTop = 3
  BrkStart = 2
  Images <- MCImages
  BrkRequests = {3, 6, 23}
  Garbage = {0, 5}
INVARIANT NoLeaks
CHECK_DEADLOCK FALSE
