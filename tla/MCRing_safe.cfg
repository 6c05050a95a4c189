SPECIFICATION ThreadsSpec
CONSTANTS
  Producers = {p1, p2}
  PARALLEL_CONSUMER_COUNT = 2
  CAPACITY = 2
  SEQ_MAX = 2000
  MaxSeq = 3
  MaxBatch = 2
  MaxPeek = 1
  InitReaders = {0}
  Joiners = {1}
  Modes = {"claim", "try", "kill"}
  HasPurger = FALSE
SYMMETRY ProducerSymmetry
INVARIANTS
  TypeOK
  RingInv
  NothingLost
  NoDataRace
PROPERTY ImplementsBroadcastLog
CHECK_DEADLOCK FALSE
