\* The correction of a witness list claim.
SPECIFICATION Spec
CONSTANTS
  a1 = a1
  a2 = a2
  w1 = w1
  n1 = n1
  n2 = n2
  n3 = n3
  hong = hong
  kim = kim
  rp = rp
  rq = rq
  kq = kq
  cq = cq
  op1 = op1
  op2 = op2
  r1 = r1
  r2 = r2
  Actors = {op1, op2}
  Requests = {r1, r2}
  Names = {n1, n2, n3}
  AlioRows = {a1, a2}
  WitnessRows = {w1}
  NecRows = {}
  NameOf <- MCNameOf
  Offices <- OfficesCascade
  Org = Org
  Batch = Batch
  None = None
INVARIANT LinkedHasSource
CHECK_DEADLOCK FALSE
