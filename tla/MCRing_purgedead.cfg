SPECIFICATION Spec
CONSTANTS
  Producers = {p1}
  PARALLEL_CONSUMER_COUNT = 1
  CAPACITY = 2
  SEQ_MAX = 2000
  MaxSeq = 2
  MaxBatch = 1
  MaxPeek = 1
  InitReaders = {0}
  Joiners = {}
  Modes = {"claim"}
  HasPurger = TRUE
PROPERTY DeadUntilReset
CHECK_DEADLOCK FALSE
