SPECIFICATION FairSpec
CONSTANTS
  Calls = {c1, c2, c3}
  None = None
  MaxTurns = 2
  MaxText = 2
CHECK_DEADLOCK FALSE
INVARIANTS
  NoHalfResponse
  TextIsKept
  ToolEventsMatch
PROPERTIES
  SilentAfterCancel
  CancelEndsRun
