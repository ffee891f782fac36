\* Four installations: scheduled, by hand, racing, edited.
SPECIFICATION FairSpec
CONSTANTS
  None = None
  s1 = s1 s2 = s2 w1 = w1 w2 = w2
  Schedulers = {s1, s2}
  Workers = {w1, w2}
  TakesResume = FALSE
  Bills = {1, 2}
  Members = {1, 2}
  Responses <- MCResponses
  Scenarios <- MCScenarios
  MaxKills = 1
INVARIANTS TypeOK OneCollector AcceptedCovers ClaimsSound
PROPERTIES PublicationComplete LockReleased
CHECK_DEADLOCK FALSE
