SPECIFICATION FairSpec

CONSTANTS
  Callers = {c1, c2}
  Worker = worker
  MaxTries = 3
  Limit = 1
  MaxCrashes = 1

INVARIANTS TypeOK NoEventLost PostBudget
PROPERTY Drains
