SPECIFICATION Spec
CONSTANTS
  Terminal = {}
  Mutation = {m1, m2}
  Launch = {m1}
  Allowed = {a1}
  Camera = {k1}
  Dir = {d1}
  NoDir = NoDir
  ApprovalTime = 1
  CameraTime = 1
  MaxTime = 2
  MaxLines = 1
  MaxGoAway = 1
INVARIANTS CardsBacked OneVerdict
PROPERTIES RunsBeforeExpiry ImplementsGate EveryCallAnswered
\* The bounds run out.
CHECK_DEADLOCK FALSE
