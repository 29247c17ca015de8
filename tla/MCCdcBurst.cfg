CONSTANTS
  Mps = 2
  Cap = 4
  RxCap = 4
  BufSize = 3
  OneCore = TRUE
  Limits <- MCLimits
SPECIFICATION Spec
CHECK_DEADLOCK FALSE
INVARIANTS HostReadsWhatWasReceived
