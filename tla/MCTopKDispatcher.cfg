SPECIFICATION FairSpec
CHECK_DEADLOCK FALSE
CONSTANTS
  i1 = i1
  i2 = i2
  i3 = i3
  Insts <- MCInsts
  NumStates = 3
  Capacities = {1, 2}
  ScoreValues <- MCScores
INVARIANTS DispatchIsSound RenumberingFaithful
PROPERTIES Termination
