CONSTANTS
  a = a  b = b  c = c  l1 = l1  l2 = l2  l3 = l3  n1 = n1  n2 = n2
  p1 = p1  p2 = p2  p3 = p3  h1 = h1  h2 = h2  g1 = g1  g2 = g2  g3 = g3
  m1 = m1  m2 = m2  m3 = m3  m4 = m4  m5 = m5  m6 = m6  m7 = m7  m8 = m8
  None = None
  Box <- MCBox
  Deployment <- MCDeployment
  Proc <- MCProc
  Id <- MCId
  ProcOf <- MCProcOf
  IdOf <- MCIdOf
  ModeOf <- MCModeOf
  kRegistryCapacity = 5
  registry_hash <- MCHash
  Segment <- MCSegment
  max_remote_handles = 1
  kSlots = 1
  Host <- MCHost
  HostOf <- MCHostOf
  Routes <- MCRoutes
  Msg <- MCMsg
  Src <- MCSrc
  Dest <- MCDest
  Prio <- MCPrio
  Racing = FALSE
  MaxInits = 5
SPECIFICATION Spec
INVARIANTS TypeOK  HandlesCurrent RightMailbox
PROPERTIES Deposited CleanRestart
CHECK_DEADLOCK FALSE
