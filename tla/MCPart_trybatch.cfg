SPECIFICATION Spec
CONSTANTS
  Producers = {p1}
  Consumers = {c1, c2}
  Started = {{c1, c2}}
  CAPACITY = 2
  MaxSeq = 4
  MaxBatch = 0
  MaxTryBatch = 2
  MaxPeek = 1
  ReadModes = {"peek"}
  ThrowOutcomes = {}
SYMMETRY ThreadSymmetry
INVARIANT NothingLost
