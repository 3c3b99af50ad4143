SPECIFICATION Spec
CONSTANTS
  Requests = {r1, r2, r3}
  Sessions = {s1}
  None = None
INVARIANTS
  NoLeakedHandle
