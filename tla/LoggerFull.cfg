CONSTANTS
  Loggers = {t1}
  Run = run
  Handlers = {console}
  FATAL = 2
  Kinds = {TRUE}
  Places = 2
  Setup = {"level_first"}
  AllocFails = FALSE
  MaxLogs = 2
SPECIFICATION LiveSpec
PROPERTY DestroyReturns
CHECK_DEADLOCK FALSE
