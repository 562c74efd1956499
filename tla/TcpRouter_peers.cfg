SPECIFICATION LiveSpec
CONSTANTS
  r1 = r1  r2 = r2  k1 = k1  k2 = k2  e1 = e1  e2 = e2  u1 = u1
  m1 = m1  m2 = m2  m3 = m3  d1 = d1  d2 = d2  d3 = d3  None = None
  Router = {r1, r2}
  Client = {k1, k2}
  End = {e1, e2}
  Outbound = {e1}
  Uplink = {}
  Mailbox = {m1, m2, m3}
  Data = {d2}
  Big = {d2}
  Raw = {k1, k2}
  Hasty = {}
  At <- MCAt
  Id <- MCId
  Far <- MCFar
  Route <- MCRoute
  Src <- MCSrc
  Dest <- MCDest
INVARIANT NoDanglingRoute
PROPERTIES OwnEntryKept  
CHECK_DEADLOCK FALSE
