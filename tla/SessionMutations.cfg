SPECIFICATION Spec
CONSTANTS
  Request = {r1, r2, r3}
  Key = {k1}
  Payload = {p1}
  TTL = 1
  MaxTime = 1
  MaxRevision = 1
  MaxCrash = 1
INVARIANTS OneEffectPerKey ToldTrue AcknowledgedIsKept
PROPERTIES EveryRequestEnds
\* The bounds run out.
CHECK_DEADLOCK FALSE
