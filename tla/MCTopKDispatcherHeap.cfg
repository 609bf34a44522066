SPECIFICATION Spec
CHECK_DEADLOCK FALSE
CONSTANTS
  i1 = i1
  i2 = i2
  i3 = i3
  Insts <- MCTwoInsts
  NumStates = 3
  Capacities = {1}
  ScoreValues <- MCRanks
INVARIANTS BoardsArePreferred
