CONSTANTS
  c1 = c1  c2 = c2  s1 = s1  d1 = d1  q4 = q4  q8 = q8
  None = None
  Client = {c1}
  Suite = {s1}
  Dataset = {}
  Label = {q4, q8}
  Kind = {"none"}
  Outcome <- MCOutcome
  MaxConfigs = 2
  MaxRequests = 2
SPECIFICATION Spec
CHECK_DEADLOCK FALSE
INVARIANTS BestWasMeasured
