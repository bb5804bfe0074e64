SPECIFICATION Spec
CONSTANTS
  PageUnits = 5
  ReservedPages = 4
  Requests = {1, 8}
INVARIANTS
  KheapVerify
  LiveBlocks
  FreeOnce
  OneExpansionIsEnough
