CONSTANTS
  c1 = c1  c2 = c2  s1 = s1  d1 = d1  q4 = q4  q8 = q8
  None = None
  Client = {c1, c2}
  Suite = {s1}
  Dataset = {d1}
  Label = {q4, q8}
  Kind = {"jsonl", "tokens", "lmeval", "none"}
  Outcome <- MCOutcome
  MaxConfigs = 2
  MaxRequests = 4
SPECIFICATION Spec
SYMMETRY Symmetry
CHECK_DEADLOCK FALSE
INVARIANTS TypeOK DatasetWhole TableIsRight
PROPERTIES EditsLostOnlyByRace
