CONSTANTS
  SowrCapacity = 8
  IdxMod = 16
  MaxLag = 2
  TsThreads = {t1, t2}
  TsCapacity = 2
  CursorMod = 8
  TsWeakCas = FALSE
  TsMaxCalls = 3
  InitCapacity = 2
  MaxCapacity = 4
  UIntMod = 64
  GrowEmpty = FALSE
  Allocated = 4
  SlotCapacity = 4
  IndexMod = 8
  Data = {d1, d2}
  NULL = NULL
  HeadNode = HeadNode
  TailNode = TailNode
  ByteCapacity = 5
  MaxWrite = 4
  UtilCalls = 3
  Run = run
  Handlers = {console}
  EvConns = 2
  Ev = ev
  Workers = {w1, w2}
  capacity = 1
  WeakCas = FALSE
  MaxConns = 1
  MaxSends = 2
SPECIFICATION PartsLiveSpec
PROPERTIES
  CallsReturn
  EventsServed
CHECK_DEADLOCK FALSE
