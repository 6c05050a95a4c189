SPECIFICATION Spec
CONSTANTS
  TcReceivers = {"r1", "r2"}
  TcTags = {"a", "b"}
  TcSettings <- TcInstances
  TcAttached = {"b"}
  TcRing = 2
  TcBatchMax = 2
  TcSocket = 1
  TcMaxMsg = 3
  TcMaxConn = 2
  UdEndpoints = {"a", "b"}
  UdCap = 3
  UdBatch = 3
  UdMtu = 3
  UdSettings <- UdInstances
  TiProcs = {1, 2, 3}
  TiNodes = {1, 2, 3}
  TiTags = {0, 1}
  TiSettings <- TiInstances
  TiRing = 2
  TiQueue = 1
  TiMaxMsg = 3
  TiMaxPumps = 2
  ShSettings <- ShInstances
INVARIANTS
  TcSafety
  UdSafety
  TiSafety
  ShSafety
PROPERTY TransportGuarantees
CHECK_DEADLOCK FALSE
