\* Twelve collections of a universe, resumed, interrupted and run twice at once.
SPECIFICATION Spec
CONSTANTS
  w1 = w1
  w2 = w2
  c1 = c1
  c2 = c2
  c3 = c3
  Workers = {w1, w2}
  Units = {1, 2, 3}
  Contents = {c1, c2, c3}
  Empty = Empty
  Clashing = {c3}
  Selected <- MCSelected
  Groups <- MCGroups
  Installations <- MCInstallations
  None = None
INVARIANTS TypeOK CheckpointBacked RunCovers SuccessIsWhole
CHECK_DEADLOCK FALSE
