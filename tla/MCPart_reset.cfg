SPECIFICATION Spec
CONSTANTS
  Producers = {p1}
  Consumers = {c1, c2}
  Started = {{c1, c2}}
  CAPACITY = 2
  MaxSeq = 4
  MaxBatch = 1
  MaxTryBatch = 0
  MaxPeek = 1
  ReadModes = {"peek"}
  ThrowOutcomes = {"leave"}
SYMMETRY ThreadSymmetry
INVARIANT OneAndOnlyOne
