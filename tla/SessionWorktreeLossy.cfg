SPECIFICATION Spec
CONSTANTS
  Process = {p1}
  Session = {s1}
  Work = {w1}
  Large = {}
  TTL = 1
  MaxTime = 1
  None = None
INVARIANT NeverLossy
CHECK_DEADLOCK FALSE
