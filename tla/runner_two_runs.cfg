CONSTANTS
  r1 = r1  r2 = r2  d1 = d1  d2 = d2
  Run = {r1, r2}
  Dep = {d1}
  NoRun = NoRun
  NumConfigs = 1
  MaxCrash = 2
  Env = {}
SPECIFICATION FairSpec
CHECK_DEADLOCK FALSE
INVARIANTS AloneOnBox NoLeftovers
PROPERTIES RecordsSettle DeploymentsComeBack ImplementsLifecycle
