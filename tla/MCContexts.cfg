SPECIFICATION Spec
CONSTANTS
  c1 = c1
  c2 = c2
  CxContexts = {"A", "B"}
  CxClients = {"a", "b", "c"}
  CxNumbers = {0, 1}
  CxRingCap = 2
  CxMaxLog = 4
  CxSettings <- CxInstances
  RtSenders = {s1}
  RtClients = {c1, c2}
  RtQueues = {1, 2}
  RtDeployments <- RtInstances
  RtTypes = {"a", "b", "n"}
  RtTrivial = {"a", "b"}
  RtInterests <- RtListed
  RtPred <- RtMatched
  RtFits <- RtMatched
  RtCapacity <- RtRooms
  RtWord = 16
  RtBatches = {1}
  RtMaxMsg = 2
  RtMayFail = {c1}
  DiSegSize = 2
  DiCapacity = 4
  DiSettings <- DiInstances
INVARIANTS
  CxSafety
  RtSafety
  DiSafety
PROPERTY ContextGuarantees
CHECK_DEADLOCK FALSE
