CONSTANTS
  None = None
  Registries <- MCRegistries
  Size <- MCSize
  max_msg_size = 2
  MaxRx = 2
  MaxControl = 1
SPECIFICATION Spec
INVARIANT TimeoutMeans
