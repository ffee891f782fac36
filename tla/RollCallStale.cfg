\* A row is amended and amended back between complete runs.
SPECIFICATION Spec
CONSTANTS
  None = None
  s1 = s1 s2 = s2 w1 = w1 w2 = w2
  Schedulers = {s1, s2}
  Workers = {w1, w2}
  TakesResume = FALSE
  Bills = {1, 2}
  Members = {1, 2}
  Responses <- MCResponses
  Scenarios <- MCBackAndForth
  MaxKills = 1
PROPERTY PublishedFromLatestRun
CHECK_DEADLOCK FALSE
