CONSTANTS
  s1 = s1
  s2 = s2
  s3 = s3
  x1 = x1
  x2 = x2
  x3 = x3
  INVALID_SOCKET = INVALID_SOCKET
  NoSlot = NoSlot
  Slots <- MCSlots
  Sockets <- MCSockets
SPECIFICATION FairSpec
PROPERTY
  CloneCompletes
