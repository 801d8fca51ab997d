------------------------------- MODULE Logger -------------------------------
(***************************************************************************)
(* The loggers of muggle/c/log: threads log messages through the           *)
(* synchronous logger (log_sync_logger.c), in which the caller itself goes *)
(* through the handlers, or through the asynchronous one                   *)
(* (log_async_logger.c), in which it passes the message through a channel  *)
(* to a thread that does.  Channel is proved to be a FIFO that refuses     *)
(* when its places are taken, and is that FIFO here.                       *)
(*                                                                         *)
(* A message is its number.  A handler writes it in two pieces, as the     *)
(* console handler does with a coloured line.                              *)
(***************************************************************************)
EXTENDS Integers, Sequences, Functions

CONSTANTS
  Loggers,      \* the threads that call log
  Run,          \* the thread of muggle_async_logger_run
  Handlers,
  FATAL,        \* MUGGLE_LOG_LEVEL_FATAL, the highest level
  Kinds,        \* is the logger a muggle_async_logger_t? (or may it be either)
  Places,       \* what its channel holds: capacity - 2
  Setup,        \* how the handlers are added: a set of ways, see AddHandler
  AllocFails,   \* may p_alloc return NULL?
  MaxLogs       \* bound on the messages

ASSUME LoggerAssumption ==
  /\ Run \notin Loggers
  /\ FATAL \in Nat
  /\ Kinds \subseteq BOOLEAN /\ AllocFails \in BOOLEAN
  /\ Places \in Nat /\ MaxLogs \in Nat
  /\ Setup \subseteq {"level_first", "level_later", "simple_init"}

Msgs == 1 .. MaxLogs
EndMsg == 0                                \* the NULL that destroy writes
Levels == 0 .. FATAL
DefaultLevel == FATAL \div 2               \* INFO, among the model's levels
Threads == Loggers \cup {Run}

VARIABLES
  async,                         \* which of the two the logger is
  handlers, lowest_log_level,    \* its fields
  level, need_mutex, mtx,        \* of each handler
  out,                           \* what each handler has written
  channel, heap,                 \* messages in the channel, messages allocated
  pc, msg, i,                    \* of each thread; i is muggle_logger_write's
  main,                          \* where the thread is that owns the logger
  wanted,                        \* history: the level asked for each handler
  lvl, before,                   \* history: of each message, its level and the
                                 \* messages whose calls had returned before
  calls, returned, dropped, accepted, written

logger == <<async, handlers, lowest_log_level, level, need_mutex, wanted>>
locals == <<pc, msg, i>>
history == <<lvl, before, calls, returned, dropped, accepted, written>>
vars == <<logger, mtx, out, channel, heap, locals, main, history>>

Goto(x, l) == pc' = [pc EXCEPT ![x] = l]

Init ==
  /\ async \in Kinds
  /\ handlers = <<>>
  /\ lowest_log_level = FATAL
  /\ level = [h \in Handlers |-> DefaultLevel]
  /\ need_mutex = [h \in Handlers |-> TRUE]
  /\ mtx = [h \in Handlers |-> {}]
  /\ out = [h \in Handlers |-> <<>>]
  /\ channel = <<>> /\ heap = {}
  /\ pc = [x \in Threads |-> IF x = Run THEN "read" ELSE "idle"]
  /\ msg = [x \in Threads |-> EndMsg]
  /\ i = [x \in Threads |-> 0]
  /\ main = "setup"
  /\ wanted \in [Handlers -> Levels]
  /\ lvl = [m \in Msgs |-> 0]
  /\ before = [m \in Msgs |-> {}]
  /\ calls = 0
  /\ returned = {} /\ dropped = {} /\ written = {}
  /\ accepted = <<>>

-----------------------------------------------------------------------------
Min2(a, b) == IF a < b THEN a ELSE b

\* The level of a handler when add_handler is called: set before, still the
\* default, or, in muggle_log_simple_init, set for the console handler, which
\* comes first, and left alone for the file handler.
LevelWhenAdded(h, way) ==
  CASE way = "level_first" -> wanted[h]
    [] way = "level_later" -> DefaultLevel
    [] way = "simple_init" -> IF handlers = <<>> THEN wanted[h] ELSE level[h]

\* muggle_sync_logger_add_handler, muggle_async_logger_add_handler
AddHandler(h, way) ==
  /\ main = "setup"
  /\ h \notin Range(handlers)
  /\ handlers' = Append(handlers, h)
  /\ lowest_log_level' = Min2(lowest_log_level, LevelWhenAdded(h, way))
  /\ need_mutex' = [need_mutex EXCEPT ![h] = ~async]
  /\ level' = [level EXCEPT ![h] = IF way = "level_later" THEN wanted[h]
                                   ELSE LevelWhenAdded(h, way)]
  /\ UNCHANGED <<async, wanted, mtx, out, channel, heap, locals, main, history>>

\* The logger is used.
Start ==
  /\ main = "setup" /\ Range(handlers) = Handlers
  /\ main' = "started"
  /\ UNCHANGED <<logger, mtx, out, channel, heap, locals, history>>

-----------------------------------------------------------------------------
\* A call of log; it returns at once when no handler wants the level.
LogCall(x, l) ==
  /\ pc[x] = "idle" /\ main = "started"
  /\ calls < MaxLogs
  /\ calls' = calls + 1
  /\ lvl' = [lvl EXCEPT ![calls + 1] = l]
  /\ before' = [before EXCEPT ![calls + 1] = returned]
  /\ \/ /\ lowest_log_level > l
        /\ returned' = returned \cup {calls + 1}
        /\ UNCHANGED <<msg, pc>>
     \/ /\ lowest_log_level <= l
        /\ msg' = [msg EXCEPT ![x] = calls + 1]
        /\ Goto(x, IF async THEN "alloc" ELSE "make")
        /\ UNCHANGED returned
  /\ UNCHANGED <<logger, mtx, out, channel, heap, i, main, dropped,
                 accepted, written>>

\* muggle_sync_logger_log puts the message on its stack and calls
\* muggle_logger_write.
Make(x) ==
  /\ pc[x] = "make"
  /\ i' = [i EXCEPT ![x] = 1]
  /\ Goto(x, "handler")
  /\ UNCHANGED <<logger, mtx, out, channel, heap, msg, main, history>>

\* muggle_async_logger_log allocates it,
Alloc(x) ==
  /\ pc[x] = "alloc"
  /\ \/ heap' = heap \cup {msg[x]} /\ Goto(x, "send")
        /\ UNCHANGED <<returned, dropped>>
     \/ AllocFails /\ Goto(x, "idle") /\ UNCHANGED heap
        /\ returned' = returned \cup {msg[x]}
        /\ dropped' = dropped \cup {msg[x]}
  /\ UNCHANGED <<logger, mtx, out, channel, msg, i, main, lvl, before, calls,
                 accepted, written>>

\* and calls muggle_channel_write, whose result it does not look at.
Send(x) ==
  /\ pc[x] = "send"
  /\ Goto(x, "idle")
  /\ returned' = returned \cup {msg[x]}
  /\ \/ Len(channel) < Places
        /\ channel' = Append(channel, msg[x])
        /\ accepted' = Append(accepted, msg[x])
        /\ UNCHANGED dropped
     \/ Len(channel) >= Places
        /\ dropped' = dropped \cup {msg[x]}
        /\ UNCHANGED <<channel, accepted>>
  /\ UNCHANGED <<logger, mtx, out, heap, msg, i, main, lvl, before, calls, written>>

\* muggle_async_logger_run takes the next message, or ends.
ReadMsg ==
  /\ async /\ pc[Run] = "read"
  /\ channel # <<>>
  /\ channel' = Tail(channel)
  /\ msg' = [msg EXCEPT ![Run] = Head(channel)]
  /\ i' = [i EXCEPT ![Run] = 1]
  /\ Goto(Run, IF Head(channel) = EndMsg THEN "ended" ELSE "handler")
  /\ UNCHANGED <<logger, mtx, out, heap, main, history>>

-----------------------------------------------------------------------------
\* The handler muggle_logger_write is at.
At(x) == handlers[i[x]]

\* muggle_log_handler_should_write
Handler(x) ==
  /\ pc[x] = "handler" /\ i[x] <= Len(handlers)
  /\ \/ lvl[msg[x]] < level[At(x)]
        /\ i' = [i EXCEPT ![x] = @ + 1] /\ UNCHANGED pc
     \/ lvl[msg[x]] >= level[At(x)]
        /\ Goto(x, IF need_mutex[At(x)] THEN "lock" ELSE "write")
        /\ UNCHANGED i
  /\ UNCHANGED <<logger, mtx, out, channel, heap, msg, main, history>>

\* Mutant: the mutex is not waited for.
LockFree(x) ==
  /\ pc[x] = "lock"
  /\ mtx' = [mtx EXCEPT ![At(x)] = {x}]
  /\ Goto(x, "write")
  /\ UNCHANGED <<logger, out, channel, heap, msg, i, main, history>>

\* handler->write: muggle_mutex_lock,
Lock(x) ==
  /\ pc[x] = "lock"
  /\ mtx[At(x)] = {}
  /\ mtx' = [mtx EXCEPT ![At(x)] = {x}]
  /\ Goto(x, "write")
  /\ UNCHANGED <<logger, out, channel, heap, msg, i, main, history>>

\* one fwrite,
Write(x) ==
  /\ pc[x] = "write"
  /\ out' = [out EXCEPT ![At(x)] = Append(@, msg[x])]
  /\ Goto(x, "write2")
  /\ UNCHANGED <<logger, mtx, channel, heap, msg, i, main, history>>

\* and another, then muggle_mutex_unlock and on to the next handler.
Write2(x) ==
  /\ pc[x] = "write2"
  /\ out' = [out EXCEPT ![At(x)] = Append(@, msg[x])]
  /\ mtx' = IF need_mutex[At(x)] THEN [mtx EXCEPT ![At(x)] = {}] ELSE mtx
  /\ i' = [i EXCEPT ![x] = @ + 1]
  /\ Goto(x, "handler")
  /\ UNCHANGED <<logger, channel, heap, msg, main, history>>

\* All handlers are done: the caller returns,
SyncReturn(x) ==
  /\ x # Run /\ pc[x] = "handler" /\ i[x] > Len(handlers)
  /\ returned' = returned \cup {msg[x]}
  /\ written' = written \cup {msg[x]}
  /\ Goto(x, "idle")
  /\ UNCHANGED <<logger, mtx, out, channel, heap, msg, i, main, lvl, before,
                 calls, dropped, accepted>>

\* or the run thread frees the message and reads the next one.
FreeMsg ==
  /\ pc[Run] = "handler" /\ i[Run] > Len(handlers)
  /\ heap' = heap \ {msg[Run]}
  /\ written' = written \cup {msg[Run]}
  /\ Goto(Run, "read")
  /\ UNCHANGED <<logger, mtx, out, channel, msg, i, main, lvl, before, calls,
                 returned, dropped, accepted>>

-----------------------------------------------------------------------------
\* Mutant: the channel is destroyed without a join.
DestroyNow ==
  /\ main = "started" /\ \A x \in Loggers : pc[x] = "idle"
  /\ main' = "destroyed"
  /\ channel' = IF async /\ Len(channel) < Places THEN Append(channel, EndMsg)
                ELSE channel
  /\ UNCHANGED <<logger, mtx, out, heap, locals, history>>

\* Mutant: nothing is written into the channel.
DestroySilent ==
  /\ main = "started" /\ \A x \in Loggers : pc[x] = "idle"
  /\ main' = IF async THEN "join" ELSE "destroyed"
  /\ UNCHANGED <<logger, mtx, out, channel, heap, locals, history>>

\* The logger is destroyed when the threads are done with it.  The asynchronous
\* one writes NULL into the channel, like a message,
Destroy ==
  /\ main = "started" /\ \A x \in Loggers : pc[x] = "idle"
  /\ main' = IF async THEN "join" ELSE "destroyed"
  /\ channel' = IF async /\ Len(channel) < Places THEN Append(channel, EndMsg)
                ELSE channel
  /\ UNCHANGED <<logger, mtx, out, heap, locals, history>>

\* and joins the thread.
Join ==
  /\ main = "join" /\ pc[Run] = "ended"
  /\ main' = "destroyed"
  /\ UNCHANGED <<logger, mtx, out, channel, heap, locals, history>>

Finished == main = "destroyed" /\ UNCHANGED vars

Step(x) ==
  \/ Make(x) \/ Alloc(x) \/ Send(x)
  \/ Handler(x) \/ Lock(x) \/ Write(x) \/ Write2(x) \/ SyncReturn(x)
RunStep == ReadMsg \/ Step(Run) \/ FreeMsg

Next ==
  \/ \E h \in Handlers, way \in Setup : AddHandler(h, way)
  \/ Start
  \/ \E x \in Loggers, l \in Levels : LogCall(x, l)
  \/ \E x \in Loggers : Step(x)
  \/ RunStep
  \/ Destroy \/ Join \/ Finished

Spec == Init /\ [][Next]_vars

\* A thread inside a call goes on; the handlers' mutexes are not held for ever, so
\* that a thread at a mutex gets it (strong fairness).
Fairness ==
  /\ \A x \in Loggers : WF_vars(Step(x)) /\ SF_vars(Lock(x))
  /\ WF_vars(RunStep) /\ WF_vars(Join)
LiveSpec == Spec /\ Fairness

-----------------------------------------------------------------------------
Labels == {"idle", "alloc", "make", "send", "read", "handler", "lock", "write", "write2",
           "ended"}

TypeOK ==
  /\ async \in BOOLEAN
  /\ handlers \in Seq(Handlers) /\ lowest_log_level \in Levels
  /\ level \in [Handlers -> Levels] /\ need_mutex \in [Handlers -> BOOLEAN]
  /\ mtx \in [Handlers -> {{}} \cup {{x} : x \in Threads}]
  /\ out \in [Handlers -> Seq(Msgs)]
  /\ channel \in Seq(Msgs \cup {EndMsg}) /\ Len(channel) <= Places
  /\ heap \subseteq Msgs
  /\ pc \in [Threads -> Labels]
  /\ msg \in [Threads -> Msgs \cup {EndMsg}]
  /\ i \in [Threads -> Nat]
  /\ main \in {"setup", "started", "join", "destroyed"}
  /\ wanted \in [Handlers -> Levels]
  /\ lvl \in [Msgs -> Levels] /\ before \in [Msgs -> SUBSET Msgs]
  /\ calls \in 0 .. MaxLogs
  /\ returned \subseteq Msgs /\ dropped \subseteq Msgs /\ written \subseteq Msgs
  /\ accepted \in Seq(Msgs)

\* The pieces of a line stay together, whichever threads write at the same time:
\* under the handler's mutex, or, without it, because one thread writes.
LinesWhole ==
  \A h \in Handlers : \A k \in 1 .. Len(out[h]) \div 2 :
    out[h][2 * k - 1] = out[h][2 * k]

\* A message logged after the call for another one had returned comes after it in
\* every handler.
OrderKept ==
  \A h \in Handlers : \A k, n \in 1 .. Len(out[h]) :
    k < n => out[h][n] \notin before[out[h][k]]

\* A handler writes exactly the messages at or above the level asked for it: of
\* those the logger is done with, all, and never another.
GetsWanted ==
  \A h \in Handlers, m \in Msgs :
    /\ m \in Range(out[h]) => lvl[m] >= wanted[h]
    /\ m \in returned /\ lvl[m] >= wanted[h] =>
         \/ m \in Range(out[h])
         \/ async /\ m \in (Range(accepted) \ written) \cup dropped

\* When muggle_async_logger_destroy has returned, every message accepted by the
\* channel has been written and every message allocated has been freed, except
\* those a full channel refused.
DestroyFlushes ==
  main = "destroyed" => Range(accepted) \subseteq written /\ heap \subseteq dropped

\* A handler writes exactly the messages at or above the level asked for it, each
\* thread's in the order it logged them, and all of them before destroy returns.
Delivered == TypeOK /\ OrderKept /\ GetsWanted /\ DestroyFlushes

\* destroy returns.
DestroyReturns == main = "join" ~> main = "destroyed"

\* A call of log returns, although its thread waits for handlers' mutexes.
LogReturns == \A x \in Loggers : []<>(pc[x] = "idle")
=============================================================================
