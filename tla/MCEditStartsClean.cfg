SPECIFICATION TranscriptSpec
CONSTANTS
  Agents = {root, a1}
  Root = root
  Calls = {c1, c2}
  None = None
  MaxDepth = 1
  MaxTurns = 2
  MaxBatch = 2
  MaxQueued = 1
  MaxRequests = 3
PROPERTIES
  EditStartsClean
