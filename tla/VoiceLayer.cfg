SPECIFICATION Spec
CONSTANTS
  Utterance = {u1, u2}
  Listener = {l1, l2}
  PiCall = {p1}
  CodexCall = {c1}
  None = None
INVARIANTS HeardAsAsked LostOnlyByLateExits HardStopSilences
PROPERTIES EverythingEnds
