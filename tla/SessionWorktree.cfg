SPECIFICATION Spec
CONSTANTS
  Process = {p1, p2}
  Session = {s1, s2}
  Work = {w1}
  Large = {}
  TTL = 1
  MaxTime = 1
  None = None
INVARIANTS WorktreesAreManaged PickupFindsItsTree
PROPERTY RemovesIdleAndRescued
SYMMETRY Symmetry
\* The bounds run out.
CHECK_DEADLOCK FALSE
