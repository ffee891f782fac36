\* One worker at a time: resume after failures and a crash, changing page size.
SPECIFICATION FairSpec
CONSTANTS
  k1 = k1 k2 = k2 k3 = k3 k4 = k4 h1 = h1 h2 = h2 w1 = w1 w2 = w2
  None = None
  Workers = {w1}
  Keys = {k1, k2, k3, k4}
  Hashes = {h1}
  PageSizes = {2, 3}
  MaxRuns = 3
  MaxCrashes = 1
  MaxDrifts = 0
  MaxRows = 4
INVARIANTS AcceptedIsExact SuccessUsable
PROPERTY RunsClose
CHECK_DEADLOCK FALSE
