SPECIFICATION Spec
CONSTANTS
  Sessions = {s1, s2}
  Names = {n1, n2}
  Tasks = {t1, t2}
  None = None
  MaxItems = 3
  MaxEdits = 1
SYMMETRY Symmetry
CONSTRAINT Bounded
INVARIANTS
  ObservedIsRemembered
  NoLostUpdate
  PromptsArePaired
PROPERTIES
  MemoryIsKept
