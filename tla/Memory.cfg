CONSTANTS
  SowrCapacity = 8
  IdxMod = 16
  MaxLag = 3
  TsThreads = {t1, t2, t3}
  TsCapacity = 2
  CursorMod = 8
  TsWeakCas = FALSE
  TsMaxCalls = 4
  InitCapacity = 2
  MaxCapacity = 4
  UIntMod = 64
  GrowEmpty = FALSE
  Allocated = 4
  SlotCapacity = 4
  IndexMod = 8
  Data = {d1, d2}
  NULL = NULL
  HeadNode = HeadNode
  TailNode = TailNode
  ByteCapacity = 5
  MaxWrite = 4
  UtilCalls = 3
  Run = run
  Handlers = {console}
  EvConns = 2
  Ev = ev
  Workers = {w1, w2}
  capacity = 1
  WeakCas = TRUE
  MaxConns = 2
  MaxSends = 3
SPECIFICATION PartsSpec
SYMMETRY Symmetry
INVARIANTS
  PoolIsSafe
  OneOwner
  SlotsMatch
  
  PeersCounted
  NodesConserved
  ClosedWhenReleased
  SocketsReady
PROPERTIES
  NullOnlyWhenEmpty
  PoolKeeps
CHECK_DEADLOCK FALSE
