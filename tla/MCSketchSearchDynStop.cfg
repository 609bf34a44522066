SPECIFICATION Spec
CHECK_DEADLOCK FALSE
CONSTANTS
  s1 = s1
  s2 = s2
  s3 = s3
  i1 = i1
  i2 = i2
  Programs <- MCTwoPrograms
  Kinds = {TRUE}
  Insts <- MCInsts
  Fit <- MCTwoFit
  MaxSpeed = 2
  MaxNumStates = 2
  Callers = {"AutoSchedule"}
  TrialCounts = {2}
  PerIter = 1
  NumRandom = 0
  EmptyRetries = 1
  EarlyStopping = 1
PROPERTIES EarlyStopJustified
