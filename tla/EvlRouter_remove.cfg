SPECIFICATION LiveSpec
CONSTANTS
  k1 = k1  e1 = e1  u1 = u1  x1 = x1  x2 = x2  m1 = m1  m2 = m2
  d1 = d1  d2 = d2  d3 = d3  d4 = d4  None = None
  Conn = {k1}
  Uplink = {}
  Xbuf = {x1, x2}
  Mailbox = {m1, m2}
  Data = {d2}
  Evl = {m2}
  Traffic <- MCOneMessage
  Links = {}
  Outbound = {}
  Remote = {}
  Src <- MCSrc
  Dest <- MCDest
  Route <- MCRoute
  Big = {}
  RingSize = 1
PROPERTY RemoveReturns
CHECK_DEADLOCK FALSE
