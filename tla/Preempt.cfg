SPECIFICATION FairSpec
CONSTANTS
  NumThreads = 4
  MainIF = FALSE
INVARIANTS
  Resumable
PROPERTIES
  ImplementsRoundRobin
