CONSTANTS
  Writers = {w1, w2}
  Readers = {r1, r2}
  Capacity = 4
  CursorMod = 8
  Flags = {{}, {"WRITE_FUTEX"}}
  WeakCas = FALSE
  MaxCalls = 3
  OrderCalls = 0
SPECIFICATION LiveSpec
PROPERTIES
  
  WrittenIsRead
CHECK_DEADLOCK FALSE
