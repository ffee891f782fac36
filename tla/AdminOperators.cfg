\* One operator on the identity of people; two whose previews overlap; the batch.
SPECIFICATION Spec
CONSTANTS
  a1 = a1
  a2 = a2
  w1 = w1
  n1 = n1
  n2 = n2
  n3 = n3
  hong = hong
  kim = kim
  rp = rp
  rq = rq
  kq = kq
  cq = cq
  op1 = op1
  op2 = op2
  r1 = r1
  r2 = r2
  r3 = r3
  r4 = r4
  r5 = r5
  Actors = {op1, op2}
  Requests = {r1, r2, r3, r4, r5}
  Names = {n1, n2, n3}
  AlioRows = {a1, a2}
  WitnessRows = {w1}
  NecRows = {}
  NameOf <- MCNameOf
  Offices <- OfficesAll
  Org = Org
  Batch = Batch
  None = None
SYMMETRY Symmetry
INVARIANTS TypeOK IdentitiesDistinct PublishedIsBacked SourceNotWithdrawn
PROPERTIES MergeKeepsPublic CorrectionReplaces PreviewHonored
CHECK_DEADLOCK FALSE
