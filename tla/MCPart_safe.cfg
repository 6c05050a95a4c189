SPECIFICATION Spec
CONSTANTS
  Producers = {p1, p2}
  Consumers = {c1, c2}
  Started = {{c1}, {c2}, {c1, c2}}
  CAPACITY = 2
  MaxSeq = 4
  MaxBatch = 2
  MaxTryBatch = 1
  MaxPeek = 2
  ReadModes = {"peek", "take", "tryTake"}
  ThrowOutcomes = {"leave", "back"}
SYMMETRY ThreadSymmetry
CONSTRAINT Undisturbed
INVARIANTS
  NothingLost
  NoneTwice
  SlotsExclusive
  PartInv
CHECK_DEADLOCK FALSE
