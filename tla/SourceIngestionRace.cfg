\* Two workers race on one scope while the provider amends, drops or adds a row.
SPECIFICATION Spec
CONSTANTS
  k1 = k1 k2 = k2 k3 = k3 k4 = k4 h1 = h1 h2 = h2 w1 = w1 w2 = w2
  None = None
  Workers = {w1, w2}
  Keys = {k1, k2}
  Hashes = {h1, h2}
  PageSizes = {1}
  MaxRuns = 3
  MaxCrashes = 0
  MaxDrifts = 1
  MaxRows = 2
SYMMETRY Symmetry
INVARIANTS TypeOK SuccessCovers ManifestUnambiguous
PROPERTIES ArchiveSpec
CHECK_DEADLOCK FALSE
