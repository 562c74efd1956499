SPECIFICATION Spec
CONSTANTS
  s1 = s1  s2 = s2  r1 = r1  r2 = r2
  m1 = m1  m2 = m2  m3 = m3  m4 = m4
  Sender = {s1, s2}
  Receiver = {r1, r2}
  Msg = {m1, m2, m3, m4}
  Origin <- MCOrigin
  SendPriority <- MCSendPriority
  Size <- MCSize
  BufSize <- MCSmallBuf
  MaxMsgSize = 2
  Capacity = 2
  NoMsg = NoMsg
  NoThread = NoThread
INVARIANTS TypeOK SlotsDescribed Conservation
PROPERTY ImplementsPriorityMailbox
