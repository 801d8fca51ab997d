CONSTANTS
  Loggers = {t1, t2}
  Run = run
  Handlers = {console, file}
  FATAL = 1
  Kinds = {TRUE, FALSE}
  Places = 2
  Setup = {"level_first"}
  AllocFails = TRUE
  MaxLogs = 3
  MaxLines = 4
  MaxCrashes = 1
  FirstTime = 20
  MaxTime = 26
  MaxStarts = 2
SPECIFICATION PartsSpec
SYMMETRY Symmetry
INVARIANTS
  LinesWhole
  Delivered
  RotationKeeps
  
PROPERTIES
  FilesFollowTime
CHECK_DEADLOCK FALSE
