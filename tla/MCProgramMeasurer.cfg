SPECIFICATION Spec
CHECK_DEADLOCK FALSE
CONSTANTS
  dyn = dyn
  stat = stat
  p1 = p1
  p2 = p2
  p3 = p3
  i1 = i1
  i2 = i2
  Keys = {dyn, stat}
  DynKeys = {dyn}
  SearchSpace <- MCSearchSpace
  Insts <- MCInsts
  Fit <- MCFit
  MaxFlops = 2
  MaxNumStates = 2
  BatchSize = 2
  MaxError = 1
  Verbosity = 1
  MaxInputs = 3
INVARIANTS PredictionsNeverDrop NothingBetterWasMeasured BestSetConsistent StaticBestIsFirstFastest
