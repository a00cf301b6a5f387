CONSTANTS
  dashboard = dashboard  user = user
  Caller = {dashboard, user}
  Dashboard = dashboard
  Boxes <- MCBoxes
  MaxFaults = 1
SPECIFICATION FairSpec
INVARIANTS TypeOK RescanShowsCurrent 
PROPERTIES OlderOnlyByOverlap AgentHeals
