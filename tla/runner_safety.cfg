CONSTANTS
  r1 = r1  r2 = r2  d1 = d1  d2 = d2
  Run = {r1}
  Dep = {d1, d2}
  NoRun = NoRun
  NumConfigs = 2
  MaxCrash = 1
  Env = {"error", "ambiguous", "user", "delete"}
SPECIFICATION Spec
SYMMETRY Deps
CHECK_DEADLOCK FALSE
INVARIANTS TypeOK RestorePromise BoxIsFree RecordsTellTheTruth
PROPERTIES EndIsFinal ResultsKept
