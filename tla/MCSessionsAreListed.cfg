SPECIFICATION Spec
CONSTANTS
  Names = {manfred, helper}
  Default = manfred
  Seeds = {manfred}
  Shipped <- ShippedText
  Sessions = {s1}
  Requests = {r1, r2}
  Payloads <- PayloadSet
  MaxInode = 6
  MaxOps = 2
  MaxCrashes = 1
  None = None
  Empty = Empty
  Torn = Torn
INVARIANTS
  SessionsAreListed
