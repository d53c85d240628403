SPECIFICATION Spec
CONSTANTS
  Client = {c1, c2}
  Session = {x1}
  Storm = {b1, b2}
  Turn = turn
  Configured = {"app", "omp"}
  MaxPending = 2
  Server = {a1, a2}
  None = None
INVARIANTS ProcessesAccounted ChoiceKept
PROPERTY EveryTurnEnds
