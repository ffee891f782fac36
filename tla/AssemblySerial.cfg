SPECIFICATION Spec
CONSTANTS
  Runners = {w1, w2}
  Versions = {o2, o3, o4}
  Records <- MCRecords
  KeyOf <- MCKeyOf
  NameOf <- MCNameOf
  BirthOf <- MCBirthOf
  Names = {n1, n2}
  Overlap = FALSE
  MaxPeople = 4
  MaxOperator = 3
  None = None
  w1 = w1
  w2 = w2
  o1 = o1
  o2 = o2
  o3 = o3
  o4 = o4
  k1 = k1
  k2 = k2
  n1 = n1
  n2 = n2
  b1 = b1
  b2 = b2
SYMMETRY Symmetry
INVARIANTS TypeOK OnePersonPerKey NamesakesReviewed ReviewAnswered
