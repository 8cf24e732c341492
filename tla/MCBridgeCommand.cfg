SPECIFICATION Spec
SYMMETRY Interchangeable
CONSTANTS
  q1 = q1
  q2 = q2
  k1 = k1
  k2 = k2
  Requests = {q1, q2}
  Keys = {k1, k2}
  b1 = b1
  b2 = b2
  Bodies = {b1, b2}
  Families <- EveryFamily
  None = None
  Troubles <- TroublesOf
INVARIANTS
  AcceptedIsMine
  RetryIsReplayed
  RefusalIsFinal
  SomeoneProceeds
PROPERTIES
  Promise
