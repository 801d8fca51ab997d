------------------------------ MODULE MCService ------------------------------
(***************************************************************************)
(* What the threads of a service use, for TLC: the pools, the slots and    *)
(* the byte buffer of muggle/c/memory, the peers of an event loop and the  *)
(* functions that make sockets; and the progress of the pools, the         *)
(* loggers, the event loops and the peers.  In each behaviour 'part' names *)
(* the one that is used.                                                   *)
(***************************************************************************)
EXTENDS
  SowrMemoryPool, TsMemoryPool, MemoryPool, PointerSlot, SocketPeer, TLC

CONSTANTS
  ByteCapacity, MaxWrite,  \* of the byte buffer
  UtilCalls,
  Run, Handlers,
  EvConns                  \* of the event loops

VARIABLES
  part,
  w, r, t, buffer, bytes_written, content,
  u_sock, u_pc, op, todo, u_fd, u_list, src, u_peer, ret, leaked, u_calls, text,
  async, handlers, lowest_log_level, level, need_mutex, mtx, out, channel, heap, log_pc,
  msg, log_i, main, wanted, lvl, before, log_calls, returned, dropped, log_accepted,
  written,
  ev_pool, ev_active, ev_recycle, ev_fd, status, ev_ref_cnt, ev, hold, sock, backlog,
  data, fin, shut, ev_pc, cur, ev_exit, elapsed, destroyed, told, refused,
  p_nodes, fds, revents, cnt_fd, i, n,
  interest, edge, batch, ep_cnt_fd,
  allset, rset, nfds, sel_node, sel_n

bytesVars == <<w, r, t, buffer, bytes_written, content>>
utilVars == <<u_sock, u_pc, op, todo, u_fd, u_list, src, u_peer, ret, leaked, u_calls, text>>
memoryVars == <<sowrVars, tsVars, mpVars, slotVars, bytesVars, utilVars>>
logVars == <<async, handlers, lowest_log_level, level, need_mutex, mtx, out, channel, heap,
             log_pc, msg, log_i, main, wanted, lvl, before, log_calls, returned,
             dropped, log_accepted, written>>
evVars == <<ev_pool, ev_active, ev_recycle, ev_fd, status, ev_ref_cnt, ev, hold, sock,
            backlog, data, fin, shut, ev_pc, cur, ev_exit, elapsed, destroyed, told,
            refused>>
pollVars == <<p_nodes, fds, revents, cnt_fd, i, n>>
epollVars == <<interest, edge, batch, ep_cnt_fd>>
selectVars == <<allset, rset, nfds, sel_node, sel_n>>
loopVars == <<evVars, pollVars, epollVars, selectVars>>

Bytes == INSTANCE BytesBuffer WITH
  c <- ByteCapacity, ByteMod <- ByteCapacity + 1, Readers <- {"read", "fc"},
  PartialMove <- FALSE, written <- bytes_written

\* The byte buffer written and read byte by byte.
SingleBytes == INSTANCE BytesBuffer WITH
  c <- ByteCapacity, ByteMod <- ByteCapacity + 1, Readers <- {"read", "fc"},
  PartialMove <- FALSE, MaxWrite <- 1, written <- bytes_written

\* Lookups with no answer, with one address and with one of another family before it;
\* sizes around what "255.255.255.255:65535" needs.
Utils == INSTANCE SocketUtils WITH
  Threads <- Workers, Lists <- {<<>>, <<"a">>, <<"o", "a">>}, Odd <- {"o"},
  MaxFd <- 3, MaxCalls <- UtilCalls, HostLens <- {2, 15},
  BufSizes <- {0, 3, 8, 16, 21, 22, 23}, sock <- u_sock, pc <- u_pc, fd <- u_fd,
  list <- u_list, peer <- u_peer, calls <- u_calls

\* The channel has a place for every message and for the end.
Log == INSTANCE Logger WITH
  Loggers <- TsThreads, FATAL <- 1, Kinds <- BOOLEAN, Places <- 3,
  Setup <- {"level_first"}, AllocFails <- FALSE, MaxLogs <- 2, pc <- log_pc,
  i <- log_i, calls <- log_calls, accepted <- log_accepted

Poll == INSTANCE EventPoll WITH
  capacity <- 3, timeout_ms <- 1, Workers <- {}, FirstConns <- 0,
  AcceptFails <- FALSE, WaitFails <- FALSE, SetupFails <- FALSE,
  Callbacks <- {"nothing", "close"},
  MaxConns <- EvConns, peer_pool <- ev_pool, active <- ev_active, recycle <- ev_recycle,
  fd <- ev_fd, ref_cnt <- ev_ref_cnt, pc <- ev_pc, to_exit <- ev_exit

Epoll == INSTANCE EventEpoll WITH
  capacity <- 3, timeout_ms <- 1, Workers <- {}, FirstConns <- 0,
  AcceptFails <- FALSE, WaitFails <- FALSE, SetupFails <- FALSE,
  Callbacks <- {"nothing", "close"}, CtlFails <- FALSE, Garbage <- {0},
  cnt_fd <- ep_cnt_fd,
  MaxConns <- EvConns, peer_pool <- ev_pool, active <- ev_active, recycle <- ev_recycle,
  fd <- ev_fd, ref_cnt <- ev_ref_cnt, pc <- ev_pc, to_exit <- ev_exit

Select == INSTANCE EventSelect WITH
  capacity <- 3, timeout_ms <- 1, Workers <- {}, FirstConns <- 0,
  AcceptFails <- FALSE, WaitFails <- FALSE, SetupFails <- FALSE,
  Callbacks <- {"nothing", "close"}, n <- sel_n,
  node <- sel_node,
  MaxConns <- EvConns, peer_pool <- ev_pool, active <- ev_active, recycle <- ev_recycle,
  fd <- ev_fd, ref_cnt <- ev_ref_cnt, pc <- ev_pc, to_exit <- ev_exit

ASSUME PoolsAssumption == TsAssumption /\ PoolAssumption /\ SlotAssumption
ASSUME PartsAssumption == Bytes!BufferAssumption /\ PeerAssumption

AllInit ==
  /\ SowrInit /\ TsInit /\ MpInit /\ SlotInit /\ Bytes!Init /\ Utils!Init
  /\ Log!Init /\ Poll!Init /\ Epoll!Init /\ Select!Init /\ Init
  /\ part = "logger" \/ (~async /\ wanted = [h \in Handlers |-> 0])

PoolStep ==
  /\ \/ part = "sowr" /\ SowrNext /\ UNCHANGED tsVars
     \/ part = "ts" /\ TsNext /\ UNCHANGED sowrVars
  /\ UNCHANGED <<part, mpVars, slotVars, bytesVars, utilVars, logVars, loopVars, vars>>
CallStep ==
  /\ \/ part = "pool" /\ MpNext /\ UNCHANGED <<slotVars, bytesVars, utilVars>>
     \/ part = "slot" /\ SlotNext /\ UNCHANGED <<mpVars, bytesVars, utilVars>>
     \/ part = "bytes" /\ Bytes!Next /\ UNCHANGED <<mpVars, slotVars, utilVars>>
     \/ part = "single bytes" /\ SingleBytes!Next /\ UNCHANGED <<mpVars, slotVars, utilVars>>
     \/ part = "utils" /\ Utils!Next /\ UNCHANGED <<mpVars, slotVars, bytesVars>>
  /\ UNCHANGED <<part, sowrVars, tsVars, logVars, loopVars, vars>>
LoggerStep == part = "logger" /\ Log!Next /\ UNCHANGED <<part, memoryVars, loopVars, vars>>
EventStep ==
  /\ \/ part = "poll" /\ Poll!Next /\ UNCHANGED <<epollVars, selectVars>>
     \/ part = "epoll" /\ Epoll!Next /\ UNCHANGED <<pollVars, selectVars>>
     \/ part = "select" /\ Select!Next /\ UNCHANGED <<pollVars, epollVars>>
  /\ UNCHANGED <<part, memoryVars, logVars, vars>>
PeerStep ==
  part = "peer" /\ Next /\ UNCHANGED <<part, memoryVars, logVars, loopVars>>

PartsInit ==
  /\ part \in {"sowr", "ts", "pool", "slot", "bytes", "single bytes", "utils", "peer"}
  /\ AllInit

PartsSpec ==
  /\ PartsInit
  /\ [][PoolStep \/ CallStep \/ PeerStep]_<<part, memoryVars, logVars, loopVars, vars>>

\* Threads and workers are interchangeable.
Symmetry == Permutations(TsThreads) \cup Permutations(Workers)

-----------------------------------------------------------------------------
\* The fairness of the components.
PartsFairness ==
  /\ \A x \in TsThreads :
       /\ WF_tsVars(part = "ts" /\ TsStep(x))
       /\ SF_tsVars(part = "ts" /\ FreeLock(x))
       /\ WF_logVars(part = "logger" /\ Log!Step(x))
       /\ SF_logVars(part = "logger" /\ Log!Lock(x))
  /\ WF_sowrVars(part = "sowr" /\ AllocFast)
  /\ SF_sowrVars(part = "sowr" /\ ReadsLast)
  /\ WF_sowrVars(part = "sowr" /\ \E k \in SowrBlocks : SowrFree(k))
  /\ WF_logVars(part = "logger" /\ Log!RunStep)
  /\ WF_logVars(part = "logger" /\ Log!Join)
  /\ WF_loopVars(part = "poll" /\ Poll!Loop /\ UNCHANGED <<epollVars, selectVars>>)
  /\ WF_loopVars(part = "epoll" /\ Epoll!Loop /\ UNCHANGED <<pollVars, selectVars>>)
  /\ WF_loopVars(part = "select" /\ Select!Loop /\ UNCHANGED <<pollVars, epollVars>>)
  /\ WF_evVars(part \in {"poll", "epoll", "select"} /\ Poll!Tick)
  /\ \A x \in Workers : WF_vars(part = "peer" /\ WorkerRelease(x))
  /\ \A x \in Workers \cup {Ev} : WF_vars(part = "peer" /\ Step(x))
  /\ WF_vars(part = "peer" /\ Destroy)

PartsLiveInit ==
  part \in {"ts", "sowr", "logger", "poll", "epoll", "select", "peer"} /\ AllInit

PartsLiveSpec ==
  /\ PartsLiveInit
  /\ [][PoolStep \/ LoggerStep \/ EventStep \/ PeerStep]_<<
       part, memoryVars, logVars, loopVars, vars>>
  /\ PartsFairness

-----------------------------------------------------------------------------

\* The functions of socket_utils.c: every open socket is accounted for, none is closed
\* under another thread, and no list of addresses outlives its call; a socket that is
\* returned is ready, whatever failed or timed out before, and the text of an address
\* fits into its buffer.
SocketsReady == Utils!SocketsAccounted /\ Utils!ReturnedIsReady /\ Utils!TextFits

\* The calls of the thread-safe pool and of the loggers return, also destroy with a
\* place for its last message; a thread that keeps trying gets a recycled block; the
\* event loop returns after muggle_socket_event_loop_exit, and the memory manager is
\* destroyed once the workers have released their peers.
CallsReturn ==
  /\ TsCallsReturn /\ (part = "sowr" => FreedIsAllocatable)
  /\ Log!LogReturns /\ Log!DestroyReturns
  /\ Poll!ExitReturns /\ DestroyReturns

\* Event loops: a connection in the backlog is accepted or refused, bytes that have
\* come are received, the end of a stream closes its peer, and on_timer is called
\* when its time is over, busy or not, unless the loop ends.
EventsServed == Poll!Accepted /\ Poll!Served /\ Poll!TimerFires
=============================================================================
