CONSTANTS
  r1 = r1  r2 = r2  d1 = d1  d2 = d2
  Run = {r1}
  Dep = {d1}
  NoRun = NoRun
  NumConfigs = 2
  MaxCrash = 1
  Env = {"skip", "lag", "unsaved", "disk", "delete", "early"}
SPECIFICATION FairSpec
CHECK_DEADLOCK FALSE
INVARIANTS EndedIsSettled
PROPERTIES RunEnds
