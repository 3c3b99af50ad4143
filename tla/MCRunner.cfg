SPECIFICATION FairSpec
CONSTANTS
  Agents = {root, a1, a2}
  Root = root
  Calls = {c1, c2, c3}
  None = None
  MaxDepth = 2
  MaxTurns = 2
  MaxBatch = 2
  MaxQueued = 1
INVARIANTS
  AnsweredOnce
  WaitsAreOpen
  WaitChain
  ChildSettled
PROPERTIES
  CancelStopsWork
  LedgerSpec
  RequestEventuallyEnds
