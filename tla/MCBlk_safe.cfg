SPECIFICATION Spec
CONSTANTS
  c1 = c1
  c2 = c2
  Senders = {p1, p2}
  Clients = {c1, c2}
  Queues = {1, 2}
  Deployments <- OwnOrShare
  Routes = {{1, 2}}
  capacity = 2
  SIZE_MAX = 15
  MaxSeq = 3
  Lengths = {2}
  Throwers = {c1}
  MayStop = TRUE
SYMMETRY SenderSymmetry
INVARIANTS
  QueueInv
  OneAndOnlyOne
  NobodySleepsInVain
  BlockingInv
CHECK_DEADLOCK FALSE
