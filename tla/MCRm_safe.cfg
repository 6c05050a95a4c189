SPECIFICATION Spec
CONSTANTS
  r1 = r1
  Receivers = {r1}
  MayHang = {}
  Conns = {1, 2}
  MayBreak = {1}
  Owner <- OwnerAgain
  Subs <- SubsFewer
  Tags = {"a", "b"}
  Script <- Scripted
  AttTags = {"b"}
  Cap = 2
  MaxSeq = 3
  SEQ_MAX = 9
  MaxSendBatch = 2
  ReplyBatch = 2
  ReplayHistory = 1
  MinRecvToStart = 1
  WaitForSlow = {TRUE}
  UpCap = 1
INVARIANTS
  InOrderOnce
  NeverBadData
  Recoverable
  AttachmentKept
