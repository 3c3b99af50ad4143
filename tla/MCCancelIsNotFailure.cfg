SPECIFICATION Spec
CONSTANTS
  Calls = {c1, c2}
  None = None
  MaxTurns = 2
  MaxText = 2
CHECK_DEADLOCK FALSE
PROPERTIES
  CancelIsNotFailure
