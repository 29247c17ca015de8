CONSTANTS
  Mps = 2
  Cap = 4
  RxCap = 4
  BufSize = 3
  OneCore = FALSE
  Limits <- MCLimits
SPECIFICATION FairSpec
CHECK_DEADLOCK FALSE
INVARIANTS ReadHasRoom HostBytesInOrder UartBytesAccounted
PROPERTIES HostBytesDrain ReceptionResumes
