SPECIFICATION FairSpec
CONSTANTS
  Calls = {c1, c2}
  Hello = hello
  None = None
  MaxReplies = 2
CHECK_DEADLOCK FALSE
INVARIANTS
  OwnResponse
  ClosedForGood
PROPERTIES
  NoLateSend
  CallsEnd
