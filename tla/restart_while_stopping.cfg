CONSTANTS
  r1 = r1  r2 = r2  d1 = d1  d2 = d2
  Run = {r1}
  Dep = {d1, d2}
  NoRun = NoRun
  NumConfigs = 1
  MaxCrash = 1
  Env = {"unsaved"}
SPECIFICATION Spec
CHECK_DEADLOCK FALSE
INVARIANTS RestorePromise
