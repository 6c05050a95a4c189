SPECIFICATION Spec
CONSTANTS
  PoThreads = {0, 1}
  PoSlots = {0, 1, 2}
  PoConsumers = {"c1", "c2"}
  PoTasks = {"m1"}
  PoSettings <- PoInstances
  PoMayThrow = {"c2", "m1"}
  PoQueueCap = 2
  PoRingCap = 2
  PoMaxSeq = 2
  PoMaxResume = 1
  OvWriters = {w1, w2}
  OvReaders = {r1}
  OvCapacity = 2
  OvMaxSeq = 4
  OvOversized = {0}
  TmTimers = {"o", "e", "d"}
  TmMaxTime = 6
  TmDay = 3
  TmSettings <- TmInstances
  RaDrop = 2
  RaBurst = 2
  RaSizes = {1, 2}
  RaMaxTimes = {0, 10}
  RaMaxForced = 1
  EpFds = {"f", "g"}
  EpPollers = {"p", "q"}
  EpMaxIn = 2
  EpOpenings = {{}, {"f", "g"}}
  SaSettings <- SaInstances
  HiSamples = {0, 1, 2, 4, 8}
  HiPercentages <- HiAsked
  HiMaxAdded = 4
  HiSettings <- HiInstances
  BgMaxRec = 3
  BgMaxPlay = 4
  BgMaxLate = 1
  BgSettings <- BgInstances
  PpMaxPings = 3
  PpMaxProcs = 3
  PpSettings <- PpInstances
  IoPipe = 2
  IoSettings <- IoInstances
INVARIANTS
  PoSafety
  OvSafety
  TmSafety
  RaSafety
  EpSafety
  SaSafety
  HiSafety
  BgSafety
  PpSafety
  IoSafety
PROPERTY ServiceGuarantees
CHECK_DEADLOCK FALSE
