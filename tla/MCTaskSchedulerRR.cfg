SPECIFICATION FairSpec
CHECK_DEADLOCK FALSE
CONSTANTS
  NTasks = 3
  Trials = 7
  MeasuresPerRound = 4
  EarlyAll = 3
  EarlyTask = 3
  Strategy = "round-robin"
  Window = 1
  LoadModes = {FALSE}
  MaxRecords = 0
  ObjectiveFunc <- SumObjective
  Latencies <- MCLatencies
  Failed = 9
  AlphaNum = 1
  AlphaDen = 5

INVARIANTS BudgetKept RoundRobinBalanced AliveTasksImprove
PROPERTIES DeadTasksRest Termination ContractSpec
