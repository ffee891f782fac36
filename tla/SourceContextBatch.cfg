\* Both batches, twice each, with operators and collectors beside them.
SPECIFICATION Spec
CONSTANTS
  a1 = a1
  a2 = a2
  a3 = a3
  a9 = a9
  b1 = b1
  c1 = c1
  c2 = c2
  c3 = c3
  s0 = s0
  s3 = s3
  s4 = s4
  k1 = k1
  k2 = k2
  k3 = k3
  n1 = n1
  n2 = n2
  w1 = w1
  w2 = w2
  Workers = {w1, w2}
  AlioScope = s0
  NecScopes = {s3, s4}
  ScopeOf <- MCScopeOf
  KeyOf <- MCKeyOf
  Anchored = {b1, c1, c2}
  Sites <- MCSites
  Names = {n1, n2}
  AlioRows = {a1, a2, a3, a9}
  WitnessRows = {}
  NecRows = {b1, c1, c2, c3}
  NameOf <- MCNameOf
  Org = Org
  Batch = Batch
  None = None
SYMMETRY Symmetry
INVARIANTS TypeOK RecordLinkedOnce
PROPERTIES NewcomersAreNew OnlyShownWrites
CHECK_DEADLOCK FALSE
