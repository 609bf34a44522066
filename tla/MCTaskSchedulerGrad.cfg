SPECIFICATION FairSpec
CHECK_DEADLOCK FALSE
CONSTANTS
  NTasks = 2
  Trials = 10
  MeasuresPerRound = 10
  EarlyAll = 3
  EarlyTask = 1
  Strategy = "gradient"
  Window = 1
  LoadModes = {FALSE, TRUE}
  MaxRecords = 3
  ObjectiveFunc <- SumObjective
  Latencies <- MCLatencies
  Failed = 9
  AlphaNum = 1
  AlphaDen = 5
INVARIANTS EveryTaskTuned BackwardReadsLatest GradientsNonPositive WastedTrialsBounded
