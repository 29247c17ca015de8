CONSTANTS
  Overlap = FALSE
  EarlyHttp = TRUE
  Requests = {"reset_target", "sreset_config", "la_configure", "portd_output", "portd_freq"}
  UsesGdb = TRUE
  Chains <- MCChains
  JtagWords <- MCJtagWords
  SwdWords <- MCSwdWords
  Configs <- MCConfigs
  Scripts <- MCScripts
  Lines <- MCLines
  IdleCycles = {0, 2}
  MaxCommands = 2
  MaxTransfers = 2
SPECIFICATION MCSpec
CHECK_DEADLOCK FALSE
INVARIANTS SerialAsAsked PortsStayConnected ChainExact SwdExact PacketExact
