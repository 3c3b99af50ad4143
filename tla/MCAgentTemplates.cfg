SPECIFICATION Spec
CONSTANTS
  Names = {manfred, helper}
  Default = manfred
  Seeds = {manfred}
  Shipped <- ShippedText
  Sessions = {s1, s2}
  Requests = {r1, r2}
  Payloads <- PayloadSet
  MaxInode = 6
  MaxOps = 3
  MaxCrashes = 1
  None = None
  Empty = Empty
  Torn = Torn
SYMMETRY Symmetry
INVARIANTS
  SavedIsKept
  SavedIsReadBack
  RootsHaveTemplates
