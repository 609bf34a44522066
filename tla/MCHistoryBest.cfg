CONSTANTS
  c1 = c1  c2 = c2  plain = plain  board = board  w = w  d = d  none = none  failed = failed
  Records <- MCRecords
  MaxBatch = 2
  MaxSaved = 3
  MaxCrashes = 1
  Ctxs = {c1, c2}
  Root = Root
  None = None
  Failed = failed
  Targets = {plain, board}
  ModelOf <- MCModelOf
  KeysOf <- MCKeysOf
  Unknown = none
  Workloads = {w, d}
  DynTaskOf <- MCDynTaskOf
  Limits = {1, 3}
  MaxLoaded = 2
SPECIFICATION Spec
SYMMETRY Alike
INVARIANTS CrashCostsOneRecord AnswerIsBest NearestContextAnswers
CHECK_DEADLOCK FALSE
