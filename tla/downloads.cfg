CONSTANTS
  d1 = d1  l1 = l1  l2 = l2  v1 = v1
  MaxFlight = 2
  Download = {d1}
  Model = {d1}
  Lister = {l1, l2}
  Visitor = {v1}
  MaxCalls = 1
  MaxVisits = 1
  Waiter <- MCWaiter
SPECIFICATION FairSpec
CHECK_DEADLOCK FALSE
INVARIANTS TypeOK OneScan ServedIsCurrent CompletionAnnounced
PROPERTIES NeverOlder EveryCallAnswered
