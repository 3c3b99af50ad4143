SPECIFICATION TranscriptSpec
CONSTANTS
  Agents = {root, a1}
  Root = root
  Calls = {c1, c2, c3}
  None = None
  MaxDepth = 1
  MaxTurns = 2
  MaxBatch = 2
  MaxQueued = 2
  MaxRequests = 3
SYMMETRY Symmetry
INVARIANTS
  TranscriptTypeOK
  ToolCallsArePaired
  AgentsHaveTasks
  RewindEndsWaits
  AnswerIsTheRun
PROPERTIES
  QueueIsTakenOnce
