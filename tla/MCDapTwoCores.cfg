CONSTANTS
  Count = 1
  Wrap = 2
  Window = 1
  OneCore = FALSE
  MaxPackets = 3
  MaxAborts = 0
  MaxResets = 0
SPECIFICATION FairSpec
CHECK_DEADLOCK FALSE
PROPERTIES ReceptionResumes
