SPECIFICATION Spec
CHECK_DEADLOCK FALSE
CONSTANTS
  NTasks = 2
  Trials = 7
  MeasuresPerRound = 2
  EarlyAll = 3
  EarlyTask = 4
  Strategy = "gradient"
  Window = 1
  LoadModes = {FALSE}
  MaxRecords = 0
  ObjectiveFunc <- FirstTaskObjective
  Latencies <- MCLatencies
  Failed = 9
  AlphaNum = 1
  AlphaDen = 5

PROPERTIES DeadTasksRest
