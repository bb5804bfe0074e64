SPECIFICATION Spec
CONSTANTS
  NumThreads = 3
  MainIF = TRUE
INVARIANTS
  Resumable
