SPECIFICATION Spec
CONSTANTS
  MaxStages = 3
  MaxIters = 4
  OpIters = {0, 2}
INVARIANTS MapsAgree AttachPointsExist KindMatchesMap AttachFollowsIterator
