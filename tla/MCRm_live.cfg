SPECIFICATION FairSpec
CONSTANTS
  r1 = r1
  Receivers = {r1}
  MayHang = {r1}
  Conns = {1}
  MayBreak = {1}
  Owner <- OwnerOnce
  Subs <- SubsOnce
  Tags = {"a"}
  Script <- AnyTag
  AttTags = {"a"}
  Cap = 1
  MaxSeq = 1
  SEQ_MAX = 9
  MaxSendBatch = 1
  ReplyBatch = 1
  ReplayHistory = 0
  MinRecvToStart = 1
  WaitForSlow = {TRUE, FALSE}
  UpCap = 1
INVARIANT GapInv
PROPERTY CatchUpAndRoom
