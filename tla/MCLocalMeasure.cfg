SPECIFICATION FairSpec
CHECK_DEADLOCK FALSE
CONSTANTS
  t1 = t1
  t2 = t2
  Runner = Runner
  Threads = {t1, t2}
  Workers = {t1, t2, Runner}
  NInputs = 3
  Requests <- MCRequests
INVARIANTS AnswersMatch ResultsInOrder FinishedWorkStops CrashesCostLittle
PROPERTIES BatchEnds
