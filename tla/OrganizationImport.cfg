SPECIFICATION Spec
CONSTANTS
  i1 = i1  i2 = i2  v1 = v1  v2 = v2  None = None
  Importers = {i1, i2}
  Versions = {v1, v2}
  Names <- MCNames
  FullName <- MCFullName
  Keys <- MCKeys
  NameOf <- MCNameOf
  Jobs <- MCJobs
  Lane <- MCLane
  Namespace <- MCNamespace
  NamesOf <- MCNamesOf
  KeysOf <- MCKeysOf
  Scenarios <- MCScenarios
  MaxLaunches = 3
  MaxRuns = 2
  MaxEdits = 2
SYMMETRY Symmetric
INVARIANTS TypeOK BoundOnce
PROPERTIES CommitComplete LedgerSpec
CHECK_DEADLOCK FALSE
