CONSTANTS
  None = None
  Registries <- MCRegistries
  Size <- MCSize
  max_msg_size = 2
  MaxRx = 2
  MaxControl = 2
SPECIFICATION LiveSpec
INVARIANTS VisitedAsSent  
PROPERTY ReceiveReturns
