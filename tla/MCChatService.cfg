SPECIFICATION FairSpec
CONSTANTS
  Requests = {r1, r2, r3}
  Sessions = {s1, s2}
  None = None
INVARIANTS
  CommittedAtRest
  RunsAreRegistered
  QueueIsServed
  NoGhostMessages
  CancelOutlastsRun
PROPERTIES
  MessagesAreKept
  RequestsAreAnswered
