CONSTANTS
  capacity = 3
  timeout_ms <- Forever
  Workers = {w1}
  FirstConns = 0
  AcceptFails = TRUE
  WaitFails = TRUE
  SetupFails = TRUE
  Callbacks = {"nothing", "close", "close_other", "send", "exit"}
  MaxConns = 3
SPECIFICATION Spec
INVARIANTS
  WatchedIsActive
  EventsAreActive

  
  
CHECK_DEADLOCK FALSE
