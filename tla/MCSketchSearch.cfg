SPECIFICATION FairSpec
CHECK_DEADLOCK FALSE
CONSTANTS
  s1 = s1
  s2 = s2
  s3 = s3
  i1 = i1
  i2 = i2
  Programs <- MCPrograms
  Kinds = {TRUE, FALSE}
  Insts <- MCInsts
  Fit <- MCFit
  MaxSpeed = 2
  MaxNumStates = 2
  Callers = {"AutoSchedule", "TaskScheduler"}
  TrialCounts = {1, 3}
  PerIter = 2
  NumRandom = 1
  EmptyRetries = 1
  EarlyStopping = 2
INVARIANTS NeverMeasuredTwice ThroughputsAligned AnswerIsFastest
PROPERTIES StaticStopJustified SearchEnds
