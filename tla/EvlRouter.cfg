SPECIFICATION Spec
CONSTANTS
  k1 = k1  e1 = e1  u1 = u1  x1 = x1  x2 = x2  m1 = m1  m2 = m2
  d1 = d1  d2 = d2  d3 = d3  d4 = d4  None = None
  Conn = {k1, e1}
  Uplink = {u1}
  Xbuf = {x1, x2}
  Mailbox = {m1, m2}
  Data = {d1, d2, d3, d4}
  Evl = {m1, m2}
  Traffic <- MCTraffic
  Links = {e1}
  Outbound = {e1}
  Remote = {m1, m2}
  Src <- MCSrc
  Dest <- MCDest
  Route <- MCRoute
  Big = {d4}
  RingSize = 1
INVARIANTS XbufAlive NoLeakedReader NoDanglingRoute OneCopy PeersTold
CHECK_DEADLOCK FALSE
