---------------------------- MODULE LoggerProofs ----------------------------
(***************************************************************************)
(* Proofs about Logger, for every number of threads, handlers, messages    *)
(* and places in the channel, and for both kinds of logger: lines stay     *)
(* whole, and the handlers get the messages asked for, in order, all of    *)
(* them before destroy returns.                                            *)
(***************************************************************************)
EXTENDS Logger, TLAPS

-----------------------------------------------------------------------------
(* The inductive invariant.                                                *)

\* A thread inside muggle_logger_write, and one between the two pieces of a line
\* or about to write the first.
Active == {"handler", "lock", "write", "write2"}
Writing == {"write", "write2"}

\* Who writes: in an asynchronous logger the run thread and nobody takes a mutex, in
\* a synchronous one the callers, every handler has its mutex and no channel is used.
KindInv ==
  /\ async =>
       /\ \A x \in Loggers : pc[x] \in {"idle", "alloc", "send"}
       /\ pc[Run] \in {"read", "handler", "write", "write2", "ended"}
  /\ ~async =>
       /\ \A x \in Loggers : pc[x] \in {"idle", "make"} \cup Active
       /\ pc[Run] = "read"
       /\ accepted = <<>> /\ channel = <<>> /\ heap = {}
  /\ \A k \in 1 .. Len(handlers) : need_mutex[handlers[k]] = ~async

\* Each call has a message of its own, which is not among the returned ones; no
\* record is of a message that was not logged; the handlers are complete when
\* the logger is used, and no thread uses it when it is destroyed.
NumberInv ==
  /\ \A x \in Loggers : pc[x] # "idle" => msg[x] \in (1 .. calls) \ returned
  /\ \A x, y \in Loggers :
       pc[x] # "idle" /\ pc[y] # "idle" /\ msg[x] = msg[y] => x = y
  /\ returned \subseteq 1 .. calls /\ dropped \subseteq 1 .. calls
  /\ written \subseteq 1 .. calls /\ heap \subseteq 1 .. calls
  /\ \A k \in 1 .. Len(accepted) : accepted[k] \in 1 .. calls
  /\ \A h \in Handlers : \A k \in 1 .. Len(out[h]) : out[h][k] \in 1 .. calls
  /\ \A m \in Msgs : before[m] \subseteq returned
  /\ main = "setup" => calls = 0
  /\ main # "setup" => Range(handlers) = Handlers
  /\ main \in {"join", "destroyed"} => \A x \in Loggers : pc[x] = "idle"

\* A thread in muggle_logger_write is at one of the handlers, one that wants its
\* message when it writes, and the handlers before it that want it have it.
WalkInv ==
  \A x \in Threads :
    /\ pc[x] \in Active =>
         /\ i[x] \in 1 .. Len(handlers) + 1 /\ msg[x] \in 1 .. calls
         /\ \A k \in 1 .. Len(handlers) :
              k < i[x] /\ lvl[msg[x]] >= level[handlers[k]] =>
                msg[x] \in Range(out[handlers[k]])
    /\ pc[x] \in Active \ {"handler"} =>
         i[x] <= Len(handlers) /\ lvl[msg[x]] >= level[At(x)]

\* Under its mutex, or alone, the one thread that writes to a handler has written
\* the first piece of a line when an odd number of pieces is there.
PieceInv ==
  /\ ~async => \A x \in Loggers : pc[x] \in Writing => mtx[At(x)] = {x}
  /\ \A h \in Handlers : Len(out[h]) % 2 = 1 =>
       \E x \in Threads : pc[x] = "write2" /\ At(x) = h
  /\ \A x \in Threads : pc[x] = "write2" =>
       /\ Len(out[At(x)]) % 2 = 1
       /\ out[At(x)][Len(out[At(x)])] = msg[x]
  /\ LinesWhole

\* Is destroy's NULL in the channel?  The messages that are, and those taken out.
HasEnd == channel # <<>> /\ channel[Len(channel)] = EndMsg
Queued == IF HasEnd THEN Len(channel) - 1 ELSE Len(channel)
Taken == Len(accepted) - Queued

\* The channel holds the last of the accepted messages, then perhaps the NULL; of the
\* others the last may be with the run thread, the rest are written.  The handlers
\* have only messages that were taken out, and no message was accepted after one whose
\* call began when its own had returned.
QueueInv ==
  /\ Taken >= 0
  /\ \A k \in 1 .. Queued : channel[k] = accepted[Taken + k]
  /\ HasEnd => main = "join"
  /\ pc[Run] = "ended" => channel = <<>> /\ main \in {"join", "destroyed"}
  /\ main = "destroyed" => ~async \/ pc[Run] = "ended"
  /\ pc[Run] \in Active => Taken >= 1 /\ msg[Run] = accepted[Taken]
  /\ \A k \in 1 .. Taken : (pc[Run] \in Active /\ k = Taken) \/ accepted[k] \in written
  /\ \A p, q \in 1 .. Len(accepted) : p <= q => accepted[q] \notin before[accepted[p]]
  /\ async => \A h \in Handlers : \A k \in 1 .. Len(out[h]) :
       \E j \in 1 .. Taken : out[h][k] = accepted[j]

\* A message that is allocated was refused, waits in the channel, is with the run
\* thread or is about to be sent.
Held(m) ==
  \/ m \in dropped
  \/ \E k \in 1 .. Len(channel) : channel[k] = m
  \/ pc[Run] \in Active /\ msg[Run] = m
  \/ \E x \in Loggers : pc[x] = "send" /\ msg[x] = m
HeapInv == \A m \in heap : Held(m)

\* What is written is with every handler that wants it.  When the levels are set before
\* the handlers are added, they are the levels asked for and the lowest is a bound.
LevelInv ==
  /\ \A m \in written, h \in Handlers : lvl[m] >= level[h] => m \in Range(out[h])
  /\ Setup \subseteq {"level_first"} =>
       /\ \A k \in 1 .. Len(handlers) :
            /\ level[handlers[k]] = wanted[handlers[k]]
            /\ lowest_log_level <= level[handlers[k]]
       /\ GetsWanted

IInv == /\ TypeOK /\ KindInv /\ NumberInv /\ WalkInv /\ PieceInv
        /\ QueueInv /\ HeapInv /\ LevelInv /\ OrderKept

-----------------------------------------------------------------------------
(* The steps.                                                              *)

\* The steps, one per call that changes state.
LEMMA Steps ==
  ASSUME [Next]_vars
  PROVE  \/ \E h \in Handlers, way \in Setup : AddHandler(h, way)
         \/ \E x \in Loggers, l \in Levels : LogCall(x, l)
         \/ \E x \in Threads :
              \/ Make(x) \/ Alloc(x) \/ Send(x) \/ Handler(x) \/ Lock(x)
              \/ Write(x) \/ Write2(x) \/ SyncReturn(x)
         \/ Start \/ ReadMsg \/ FreeMsg \/ Destroy \/ Join
         \/ UNCHANGED vars
BY DEF Next, Step, RunStep, Finished, Threads

\* Whose steps they are: a thread that logs never reads from the channel, the run
\* thread neither calls log nor takes a mutex.
LEMMA WhoSteps ==
  ASSUME LoggerAssumption, TypeOK, KindInv, NEW x \in Threads
  PROVE  /\ Make(x) \/ Lock(x) => x \in Loggers /\ ~async
         /\ Alloc(x) \/ Send(x) => x \in Loggers /\ async
         /\ SyncReturn(x) => x \in Loggers /\ ~async
         /\ pc[x] \in Active => (async <=> x = Run) /\ (~async <=> x \in Loggers)
BY DEF KindInv, Threads, Active, Make, Lock, Alloc, Send, SyncReturn, LoggerAssumption

\* The elements of a sequence with one more.
LEMMA RangeAppend ==
  ASSUME NEW S, NEW s \in Seq(S), NEW e \in S
  PROVE  /\ Append(s, e) \in Seq(S) /\ Len(Append(s, e)) = Len(s) + 1
         /\ \A k \in 1 .. Len(s) : Append(s, e)[k] = s[k]
         /\ Append(s, e)[Len(s) + 1] = e
         /\ Range(Append(s, e)) = Range(s) \cup {e}
  <1>1. /\ Append(s, e) \in Seq(S) /\ Len(Append(s, e)) = Len(s) + 1
        /\ \A k \in 1 .. Len(s) : Append(s, e)[k] = s[k]
        /\ Append(s, e)[Len(s) + 1] = e
    OBVIOUS
  <1>2. DOMAIN s = 1 .. Len(s) /\ DOMAIN Append(s, e) = 1 .. Len(s) + 1 /\ Len(s) \in Nat
    OBVIOUS
  <1>3. Range(Append(s, e)) \subseteq Range(s) \cup {e}
    BY <1>1, <1>2 DEF Range
  <1>4. Range(s) \cup {e} \subseteq Range(Append(s, e))
    <2>1. \A k \in 1 .. Len(s) : k \in 1 .. Len(s) + 1
      BY <1>2
    <2>2. Len(s) + 1 \in 1 .. Len(s) + 1
      BY <1>2
    <2> QED
      BY Zenon, <1>1, <1>2, <2>1, <2>2 DEF Range
  <1> QED
    BY <1>1, <1>3, <1>4

\* The members of a sequence's range are its elements.
LEMMA RangeIs ==
  ASSUME NEW S, NEW s \in Seq(S)
  PROVE  /\ Range(s) \subseteq S
         /\ \A e : e \in Range(s) <=> \E k \in 1 .. Len(s) : s[k] = e
BY DEF Range

\* An empty sequence has none.
LEMMA EmptyRange == Range(<<>>) = {}
BY DEF Range

\* The messages logged so far are among those there may be.
LEMMA LoggedAreMsgs ==
  ASSUME LoggerAssumption, TypeOK
  PROVE  /\ calls \in Nat /\ 1 .. calls \subseteq Msgs
         /\ NumberInv => \A x \in Loggers : pc[x] # "idle" => msg[x] \in Msgs
  <1>1. calls \in Nat /\ 1 .. calls \subseteq Msgs
    BY DEF LoggerAssumption, TypeOK, Msgs
  <1> QED
    BY <1>1 DEF NumberInv

\* The handler a thread is at.
LEMMA AtHandler ==
  ASSUME LoggerAssumption, TypeOK, WalkInv,
         NEW x \in Threads, pc[x] \in Active, i[x] <= Len(handlers)
  PROVE  /\ i[x] \in 1 .. Len(handlers) /\ At(x) \in Handlers /\ At(x) = handlers[i[x]]
         /\ msg[x] \in Msgs /\ msg[x] \in 1 .. calls
  <1>1. i[x] \in 1 .. Len(handlers) + 1 /\ msg[x] \in 1 .. calls
    BY DEF WalkInv
  <1>2. i[x] \in 1 .. Len(handlers) /\ handlers[i[x]] \in Handlers
    BY <1>1 DEF TypeOK
  <1> QED
    BY <1>1, <1>2, LoggedAreMsgs DEF At

-----------------------------------------------------------------------------
(* The fields have their types.                                            *)

\* Every step keeps the types.
LEMMA TypeStep ==
  ASSUME LoggerAssumption, IInv, [Next]_vars
  PROVE  TypeOK'
  <1>0. TypeOK /\ KindInv /\ NumberInv /\ WalkInv
    BY DEF IInv
  <1>1. ASSUME NEW h \in Handlers, NEW way \in Setup, AddHandler(h, way)
        PROVE  TypeOK'
    <2>1. DefaultLevel \in Levels
      BY DEF DefaultLevel, Levels, LoggerAssumption
    <2>2. LevelWhenAdded(h, way) \in Levels
      BY Zenon, <1>0, <2>1 DEF LevelWhenAdded, TypeOK, LoggerAssumption
    <2>3. lowest_log_level' \in Levels
      BY <1>0, <1>1, <2>2 DEF AddHandler, Min2, TypeOK
    <2>4. level' \in [Handlers -> Levels] /\ need_mutex' \in [Handlers -> BOOLEAN]
      BY <1>0, <1>1, <2>2 DEF AddHandler, TypeOK
    <2>5. handlers' \in Seq(Handlers)
      BY <1>0, <1>1 DEF AddHandler, TypeOK
    <2> QED
      BY Zenon, <1>0, <1>1, <2>3, <2>4, <2>5 DEF AddHandler, TypeOK, locals, history
  <1>2. ASSUME NEW x \in Loggers, NEW l \in Levels, LogCall(x, l)
        PROVE  TypeOK'
    <2>1. calls + 1 \in Msgs /\ calls' \in 0 .. MaxLogs
      BY <1>0, <1>2 DEF LogCall, TypeOK, Msgs, LoggerAssumption
    <2>2. lvl' \in [Msgs -> Levels] /\ before' \in [Msgs -> SUBSET Msgs]
      BY <1>0, <1>2, <2>1 DEF LogCall, TypeOK
    <2>3. returned' \subseteq Msgs
      BY <1>0, <1>2, <2>1 DEF LogCall, TypeOK
    <2>4. msg' \in [Threads -> Msgs \cup {EndMsg}]
      BY Zenon, <1>0, <1>2, <2>1 DEF LogCall, TypeOK, Threads
    <2>5. pc' \in [Threads -> Labels]
      BY Zenon, <1>0, <1>2 DEF LogCall, TypeOK, Goto, Labels, Threads
    <2> QED
      BY Zenon, <1>0, <1>2, <2>1, <2>2, <2>3, <2>4, <2>5 DEF LogCall, TypeOK, logger
  <1>3. ASSUME NEW x \in Threads, Make(x)
        PROVE  TypeOK'
    BY Zenon, <1>0, <1>3 DEF Make, TypeOK, Goto, Labels, logger, history
  <1>4. ASSUME NEW x \in Threads, Alloc(x)
        PROVE  TypeOK'
    <2>1. msg[x] \in Msgs
      BY <1>0, <1>4, WhoSteps, LoggedAreMsgs DEF Alloc
    <2> QED
      BY Zenon, <1>0, <1>4, <2>1 DEF Alloc, TypeOK, Goto, Labels, logger
  <1>5. ASSUME NEW x \in Threads, Send(x)
        PROVE  TypeOK'
    <2>1. msg[x] \in Msgs
      BY <1>0, <1>5, WhoSteps, LoggedAreMsgs DEF Send
    <2>2. /\ channel' \in Seq(Msgs \cup {EndMsg}) /\ Len(channel') <= Places
          /\ accepted' \in Seq(Msgs)
      <3> DEFINE E == Msgs \cup {EndMsg}
      <3>1. channel \in Seq(E) /\ Len(channel) <= Places /\ accepted \in Seq(Msgs)
        BY <1>0 DEF TypeOK
      <3>4. Places \in Nat
        BY DEF LoggerAssumption
      <3>2. msg[x] \in E
        BY <2>1
      <3> HIDE DEF E
      <3>3. /\ Append(channel, msg[x]) \in Seq(E) /\ Append(accepted, msg[x]) \in Seq(Msgs)
            /\ Len(channel) < Places => Len(Append(channel, msg[x])) <= Places
        BY <2>1, <3>1, <3>2, <3>4
      <3> QED
        BY Zenon, <1>5, <3>1, <3>3 DEF Send, E
    <2>3. pc' \in [Threads -> Labels]
      BY <1>0, <1>5 DEF Send, TypeOK, Goto, Labels
    <2>4. returned' \subseteq Msgs /\ dropped' \subseteq Msgs
      BY <1>0, <1>5, <2>1 DEF Send, TypeOK
    <2> QED
      BY Zenon, <1>0, <1>5, <2>2, <2>3, <2>4 DEF Send, TypeOK, logger
  <1>6. ASSUME NEW x \in Threads, Handler(x)
        PROVE  TypeOK'
    <2>1. i' \in [Threads -> Nat]
      <3>1. i \in [Threads -> Nat]
        BY <1>0 DEF TypeOK
      <3> QED
        BY <1>6, <3>1 DEF Handler
    <2>2. pc' \in [Threads -> Labels]
      BY Zenon, <1>0, <1>6 DEF Handler, TypeOK, Goto, Labels
    <2> QED
      BY Zenon, <1>0, <1>6, <2>1, <2>2 DEF Handler, TypeOK, logger, history
  <1>7. ASSUME NEW x \in Threads, Lock(x)
        PROVE  TypeOK'
    BY Zenon, <1>0, <1>7 DEF Lock, TypeOK, Goto, Labels, logger, history
  <1>8. ASSUME NEW x \in Threads, Write(x)
        PROVE  TypeOK'
    <2>1. At(x) \in Handlers /\ msg[x] \in Msgs
      BY <1>0, <1>8, AtHandler DEF Write, WalkInv, Active
    <2>2. out' \in [Handlers -> Seq(Msgs)]
      BY <1>0, <1>8, <2>1 DEF Write, TypeOK
    <2> QED
      BY Zenon, <1>0, <1>8, <2>2 DEF Write, TypeOK, Goto, Labels, logger, history
  <1>9. ASSUME NEW x \in Threads, Write2(x)
        PROVE  TypeOK'
    <2>1. At(x) \in Handlers /\ msg[x] \in Msgs
      BY <1>0, <1>9, AtHandler DEF Write2, WalkInv, Active
    <2>2. out' \in [Handlers -> Seq(Msgs)]
      BY <1>0, <1>9, <2>1 DEF Write2, TypeOK
    <2>3. mtx' \in [Handlers -> {{}} \cup {{y} : y \in Threads}]
      BY Zenon, <1>0, <1>9, <2>1 DEF Write2, TypeOK
    <2>4. i' \in [Threads -> Nat] /\ pc' \in [Threads -> Labels]
      BY <1>0, <1>9 DEF Write2, TypeOK, Goto, Labels
    <2> QED
      BY Zenon, <1>0, <1>9, <2>2, <2>3, <2>4 DEF Write2, TypeOK, logger, history
  <1>10. ASSUME NEW x \in Threads, SyncReturn(x)
         PROVE  TypeOK'
    <2>1. msg[x] \in Msgs
      BY <1>0, <1>10, WhoSteps, LoggedAreMsgs DEF SyncReturn
    <2> QED
      BY Zenon, <1>0, <1>10, <2>1 DEF SyncReturn, TypeOK, Goto, Labels, logger
  <1>11. CASE Start
    BY Zenon, <1>0, <1>11 DEF Start, TypeOK, logger, locals, history
  <1>12. CASE ReadMsg
    <2>1. Head(channel) \in Msgs \cup {EndMsg} /\ Tail(channel) \in Seq(Msgs \cup {EndMsg})
      BY <1>0, <1>12 DEF ReadMsg, TypeOK
    <2>2. Len(Tail(channel)) <= Places
      BY <1>0, <1>12 DEF ReadMsg, TypeOK, LoggerAssumption
    <2> QED
      BY Zenon, <1>0, <1>12, <2>1, <2>2 DEF ReadMsg, TypeOK, Goto, Labels, logger, history
  <1>13. CASE FreeMsg
    <2>1. msg[Run] \in Msgs
      BY <1>0, <1>13, LoggedAreMsgs DEF FreeMsg, WalkInv, Active, Threads
    <2> QED
      BY Zenon, <1>0, <1>13, <2>1 DEF FreeMsg, TypeOK, Goto, Labels, logger, Threads
  <1>14. CASE Destroy
    <2>1. channel' \in Seq(Msgs \cup {EndMsg}) /\ Len(channel') <= Places
      BY <1>0, <1>14 DEF Destroy, TypeOK, LoggerAssumption
    <2> QED
      BY Zenon, <1>0, <1>14, <2>1 DEF Destroy, TypeOK, logger, locals, history
  <1>15. CASE Join
    BY Zenon, <1>0, <1>15 DEF Join, TypeOK, logger, locals, history
  <1>16. CASE UNCHANGED vars
    BY Zenon, <1>0, <1>16 DEF TypeOK, vars, logger, locals, history
  <1> QED
    BY Zenon, <1>1, <1>2, <1>3, <1>4, <1>5, <1>6, <1>7, <1>8, <1>9, <1>10, <1>11, <1>12,
       <1>13, <1>14, <1>15, <1>16, Steps

-----------------------------------------------------------------------------
(* Who writes, and which messages there are.                               *)

\* Every step keeps which threads there are: the callers write in the synchronous logger,
\* the run thread in the asynchronous one.
LEMMA KindStep ==
  ASSUME LoggerAssumption, IInv, [Next]_vars
  PROVE  KindInv'
  <1>0. TypeOK /\ KindInv /\ NumberInv /\ WalkInv
    BY DEF IInv
  <1> USE DEF Threads
  <1>1. ASSUME NEW h \in Handlers, NEW way \in Setup, AddHandler(h, way)
        PROVE  KindInv'
    <2>1. \A k \in 1 .. Len(handlers') : need_mutex'[handlers'[k]] = ~async
      <3>1. handlers \in Seq(Handlers) /\ need_mutex \in [Handlers -> BOOLEAN]
        BY <1>0 DEF TypeOK
      <3>2. handlers' = Append(handlers, h) /\ need_mutex' = [need_mutex EXCEPT ![h] = ~async]
        BY <1>1 DEF AddHandler
      <3>3. need_mutex'[h] = ~async
        BY Zenon, <3>1, <3>2
      <3>4. \A g \in Handlers : g # h => need_mutex'[g] = need_mutex[g]
        BY Zenon, <3>1, <3>2
      <3>5. ASSUME NEW k \in 1 .. Len(handlers')
            PROVE  need_mutex'[handlers'[k]] = ~async
        <4>1. handlers'[k] = h \/ (k \in 1 .. Len(handlers) /\ handlers'[k] = handlers[k]
                                   /\ handlers[k] \in Handlers)
          BY <3>1, <3>2, <3>5
        <4> QED
          <5>1. CASE handlers'[k] = h
            BY Zenon, <3>3, <5>1
          <5>2. CASE handlers'[k] # h
            <6>1. need_mutex[handlers[k]] = ~async
              BY Zenon, <1>0, <4>1, <5>2 DEF KindInv
            <6> QED
              BY Zenon, <3>4, <4>1, <5>2, <6>1
          <5> QED
            BY Zenon, <5>1, <5>2
      <3> QED
        BY <3>5
    <2>2. async' = async /\ UNCHANGED <<channel, heap, locals, history>>
      BY <1>1 DEF AddHandler
    <2> QED
      BY Zenon, <1>0, <2>1, <2>2 DEF KindInv, locals, history
  <1>2. ASSUME NEW x \in Loggers, NEW l \in Levels, LogCall(x, l)
        PROVE  KindInv'
    BY Zenon, <1>0, <1>2
       DEF LogCall, KindInv, TypeOK, Goto, Active, logger, LoggerAssumption
  <1>3. ASSUME NEW x \in Loggers, ~async, Make(x)
        PROVE  KindInv'
    BY Zenon, <1>0, <1>3
       DEF Make, KindInv, TypeOK, Goto, Active, logger, history, LoggerAssumption
  <1>4. ASSUME NEW x \in Loggers, async, Alloc(x)
        PROVE  KindInv'
    BY Zenon, <1>0, <1>4 DEF Alloc, KindInv, TypeOK, Goto, logger, LoggerAssumption
  <1>5. ASSUME NEW x \in Loggers, async, Send(x)
        PROVE  KindInv'
    BY Zenon, <1>0, <1>5 DEF Send, KindInv, TypeOK, Goto, logger, LoggerAssumption
  <1>6. ASSUME NEW x \in Threads, Handler(x)
        PROVE  KindInv'
    <2>0. i[x] \in 1 .. Len(handlers) /\ At(x) = handlers[i[x]]
      BY <1>0, <1>6, AtHandler DEF Handler, Active
    <2>1. need_mutex[At(x)] = ~async
      BY Zenon, <1>0, <2>0 DEF KindInv
    <2> QED
      BY Zenon, <1>0, <1>6, <2>1
         DEF Handler, KindInv, TypeOK, Goto, Active, logger, history, LoggerAssumption
  <1>7. ASSUME NEW x \in Loggers, ~async, Lock(x)
        PROVE  KindInv'
    BY Zenon, <1>0, <1>7
       DEF Lock, KindInv, TypeOK, Goto, Active, logger, history, LoggerAssumption
  <1>8. ASSUME NEW x \in Threads, Write(x)
        PROVE  KindInv'
    BY Zenon, <1>0, <1>8
       DEF Write, KindInv, TypeOK, Goto, Active, logger, history, LoggerAssumption
  <1>9. ASSUME NEW x \in Threads, Write2(x)
        PROVE  KindInv'
    BY Zenon, <1>0, <1>9
       DEF Write2, KindInv, TypeOK, Goto, Active, logger, history, LoggerAssumption
  <1>10. ASSUME NEW x \in Loggers, ~async, SyncReturn(x)
         PROVE  KindInv'
    BY Zenon, <1>0, <1>10
       DEF SyncReturn, KindInv, TypeOK, Goto, Active, logger, LoggerAssumption
  <1>11. CASE Start
    BY Zenon, <1>0, <1>11 DEF Start, KindInv, logger, locals, history
  <1>12. CASE ReadMsg
    BY Zenon, <1>0, <1>12
       DEF ReadMsg, KindInv, TypeOK, Goto, logger, history, LoggerAssumption
  <1>13. CASE FreeMsg
    BY Zenon, <1>0, <1>13 DEF FreeMsg, KindInv, TypeOK, Goto, logger, LoggerAssumption
  <1>14. CASE Destroy
    BY Zenon, <1>0, <1>14 DEF Destroy, KindInv, logger, locals, history
  <1>15. CASE Join
    BY Zenon, <1>0, <1>15 DEF Join, KindInv, logger, locals, history
  <1>16. CASE UNCHANGED vars
    BY Zenon, <1>0, <1>16 DEF KindInv, vars, logger, locals, history
  <1> QED
    BY Zenon, <1>0, <1>1, <1>2, <1>3, <1>4, <1>5, <1>6, <1>7, <1>8, <1>9, <1>10, <1>11, <1>12,
       <1>13, <1>14, <1>15, <1>16, Steps, WhoSteps

\* Every step keeps the numbering of the messages and what each thread knows of its own.
LEMMA NumberStep ==
  ASSUME LoggerAssumption, IInv, [Next]_vars
  PROVE  NumberInv'
  <1>0. TypeOK /\ KindInv /\ NumberInv /\ WalkInv
    BY DEF IInv
  <1>1. ASSUME NEW h \in Handlers, NEW way \in Setup, AddHandler(h, way)
        PROVE  NumberInv'
    BY Zenon, <1>0, <1>1 DEF AddHandler, NumberInv, locals, history
  <1>2. ASSUME NEW x \in Loggers, NEW l \in Levels, LogCall(x, l)
        PROVE  NumberInv'
    <2>1. /\ calls \in Nat /\ calls' = calls + 1 /\ calls + 1 \notin 1 .. calls
          /\ calls + 1 \in 1 .. calls' /\ 1 .. calls \subseteq 1 .. calls'
      BY <1>0, <1>2, LoggedAreMsgs DEF LogCall
    <2>2. \A m \in 1 .. calls : m # calls + 1
      BY <2>1
    <2>3. returned \subseteq returned' /\ returned' \subseteq returned \cup {calls + 1}
      BY <1>2 DEF LogCall
    <2>4. \/ UNCHANGED <<msg, pc>>
          \/ /\ msg' = [msg EXCEPT ![x] = calls + 1]
             /\ UNCHANGED returned
             /\ \E a \in Labels : pc' = [pc EXCEPT ![x] = a]
      BY Zenon, <1>2 DEF LogCall, Goto, Labels
    <2>5. /\ msg \in [Threads -> Msgs \cup {EndMsg}] /\ pc \in [Threads -> Labels]
          /\ before \in [Msgs -> SUBSET Msgs] /\ Loggers \subseteq Threads
      BY <1>0 DEF TypeOK, Threads
    <2>6. \A y \in Loggers : pc'[y] # "idle" => msg'[y] \in (1 .. calls') \ returned'
      <3>1. CASE UNCHANGED <<msg, pc>>
        BY Zenon, <1>0, <2>1, <2>2, <2>3, <3>1 DEF NumberInv
      <3>2. CASE /\ msg' = [msg EXCEPT ![x] = calls + 1]
                 /\ UNCHANGED returned
                 /\ \E a \in Labels : pc' = [pc EXCEPT ![x] = a]
        BY Zenon, <1>0, <2>1, <2>5, <3>2 DEF NumberInv
      <3> QED
        BY Zenon, <2>4, <3>1, <3>2
    <2>7. \A y, z \in Loggers :
            pc'[y] # "idle" /\ pc'[z] # "idle" /\ msg'[y] = msg'[z] => y = z
      <3>1. CASE UNCHANGED <<msg, pc>>
        BY Zenon, <1>0, <3>1 DEF NumberInv
      <3>2. CASE /\ msg' = [msg EXCEPT ![x] = calls + 1]
                 /\ UNCHANGED returned
                 /\ \E a \in Labels : pc' = [pc EXCEPT ![x] = a]
        <4>1. msg'[x] = calls + 1
          BY Zenon, <2>5, <3>2
        <4>2. \A y \in Loggers : y # x => msg'[y] = msg[y] /\ pc'[y] = pc[y]
          BY Zenon, <2>5, <3>2
        <4>3. \A y \in Loggers : y # x /\ pc'[y] # "idle" => msg'[y] # calls + 1
          BY Zenon, <1>0, <2>2, <4>2 DEF NumberInv
        <4> QED
          BY Zenon, <1>0, <4>1, <4>2, <4>3 DEF NumberInv
      <3> QED
        BY Zenon, <2>4, <3>1, <3>2
    <2>8. \A m \in Msgs : before'[m] \subseteq returned'
      BY Zenon, <1>0, <1>2, <2>3, <2>5 DEF LogCall, NumberInv
    <2>9. main = "started" /\ UNCHANGED <<main, handlers>>
      BY <1>2 DEF LogCall, logger
    <2> QED
      BY Zenon, <1>0, <1>2, <2>1, <2>3, <2>6, <2>7, <2>8, <2>9 DEF LogCall, NumberInv
  <1>3. ASSUME NEW x \in Loggers, ~async, Make(x)
        PROVE  NumberInv'
    BY Zenon, <1>0, <1>3 DEF Make, NumberInv, TypeOK, Goto, Threads, logger, history
  <1>4. ASSUME NEW x \in Loggers, async, Alloc(x)
        PROVE  NumberInv'
    <2>1. msg[x] \in 1 .. calls
      BY Zenon, <1>0, <1>4 DEF Alloc, NumberInv
    <2>2. /\ heap' \subseteq heap \cup {msg[x]}
          /\ dropped' \subseteq dropped \cup {msg[x]}
          /\ returned' = returned \/ (returned' = returned \cup {msg[x]} /\ pc'[x] = "idle")
      BY Zenon, <1>0, <1>4 DEF Alloc, Goto, TypeOK, Threads
    <2>3. \A y \in Loggers : y # x => pc'[y] = pc[y]
      BY Zenon, <1>0, <1>4 DEF Alloc, Goto, TypeOK, Threads
    <2>4. /\ pc[x] # "idle" /\ main \notin {"join", "destroyed"}
          /\ UNCHANGED <<out, handlers, msg, main, before, calls, accepted, written>>
      BY Zenon, <1>0, <1>4 DEF Alloc, logger, NumberInv
    <2>5. \A y \in Loggers : pc'[y] # "idle" => msg[y] \in (1 .. calls) \ returned'
      BY Zenon, <1>0, <2>2, <2>3, <2>4 DEF NumberInv
    <2>6. \A y \in Loggers : pc'[y] # "idle" => pc[y] # "idle"
      BY Zenon, <2>3, <2>4
    <2>7. heap' \subseteq 1 .. calls /\ dropped' \subseteq 1 .. calls
          /\ returned' \subseteq 1 .. calls /\ returned \subseteq returned'
      BY Zenon, <1>0, <2>1, <2>2 DEF NumberInv
    <2>8. \A y, z \in Loggers :
            pc'[y] # "idle" /\ pc'[z] # "idle" /\ msg[y] = msg[z] => y = z
      BY Zenon, <1>0, <2>6 DEF NumberInv
    <2>9. \A m \in Msgs : before[m] \subseteq returned'
      BY Zenon, <1>0, <2>7 DEF NumberInv
    <2> QED
      BY Zenon, <1>0, <2>4, <2>5, <2>7, <2>8, <2>9 DEF NumberInv
  <1>5. ASSUME NEW x \in Loggers, async, Send(x)
        PROVE  NumberInv'
    <2>1. msg[x] \in Msgs /\ msg[x] \in 1 .. calls
      BY Zenon, <1>0, <1>5, LoggedAreMsgs DEF Send, NumberInv
    <2>2. \A k \in 1 .. Len(accepted') : accepted'[k] \in 1 .. calls
      <3>1. accepted \in Seq(Msgs)
        BY <1>0 DEF TypeOK
      <3>2. \A k \in 1 .. Len(accepted) : accepted[k] \in 1 .. calls
        BY Zenon, <1>0 DEF NumberInv
      <3>3. accepted' = accepted \/ accepted' = Append(accepted, msg[x])
        BY Zenon, <1>5 DEF Send
      <3> QED
        BY <2>1, <3>1, <3>2, <3>3
    <2> QED
      BY Zenon, <1>0, <1>5, <2>1, <2>2 DEF Send, NumberInv, TypeOK, Goto, Threads, logger
  <1>6. ASSUME NEW x \in Threads, Handler(x)
        PROVE  NumberInv'
    BY Zenon, <1>0, <1>6 DEF Handler, NumberInv, TypeOK, Goto, Threads, logger, history
  <1>7. ASSUME NEW x \in Loggers, ~async, Lock(x)
        PROVE  NumberInv'
    BY Zenon, <1>0, <1>7 DEF Lock, NumberInv, TypeOK, Goto, Threads, logger, history
  <1>8. ASSUME NEW x \in Threads, Write(x) \/ Write2(x)
        PROVE  NumberInv'
    <2>1. At(x) \in Handlers /\ msg[x] \in 1 .. calls /\ msg[x] \in Msgs
      BY <1>0, <1>8, AtHandler DEF Write, Write2, WalkInv, Active
    <2>2. \A h \in Handlers : \A k \in 1 .. Len(out'[h]) : out'[h][k] \in 1 .. calls
      <3>1. out \in [Handlers -> Seq(Msgs)]
        BY <1>0 DEF TypeOK
      <3>2. \A h \in Handlers : \A k \in 1 .. Len(out[h]) : out[h][k] \in 1 .. calls
        BY Zenon, <1>0 DEF NumberInv
      <3>3. out' = [out EXCEPT ![At(x)] = Append(@, msg[x])]
        BY Zenon, <1>8 DEF Write, Write2
      <3> QED
        BY <2>1, <3>1, <3>2, <3>3
    <2>3. UNCHANGED <<handlers, heap, msg, main, history>> /\ pc[x] # "idle"
      BY <1>8 DEF Write, Write2, logger
    <2>4. pc' = [pc EXCEPT ![x] = "write2"] \/ pc' = [pc EXCEPT ![x] = "handler"]
      BY <1>8 DEF Write, Write2, Goto
    <2>5. \A y \in Loggers : pc'[y] # "idle" <=> pc[y] # "idle"
      BY Zenon, <1>0, <2>3, <2>4 DEF TypeOK, Threads
    <2> QED
      BY Zenon, <1>0, <2>2, <2>3, <2>5 DEF NumberInv, history
  <1>10. ASSUME NEW x \in Loggers, ~async, SyncReturn(x)
         PROVE  NumberInv'
    <2>1. /\ pc[x] # "idle" /\ pc'[x] = "idle"
          /\ \A y \in Loggers : y # x => pc'[y] = pc[y]
      BY Zenon, <1>0, <1>10 DEF SyncReturn, Goto, TypeOK, Threads
    <2>2. /\ UNCHANGED <<handlers, out, heap, msg, main, before, calls, dropped, accepted>>
          /\ returned' = returned \cup {msg[x]} /\ written' = written \cup {msg[x]}
      BY <1>10 DEF SyncReturn, logger
    <2>3. msg[x] \in 1 .. calls
      BY Zenon, <1>0, <2>1 DEF NumberInv
    <2>4. \A y \in Loggers : pc'[y] # "idle" => msg[y] \in (1 .. calls) \ returned'
      BY Zenon, <1>0, <2>1, <2>2 DEF NumberInv
    <2>5. \A y, z \in Loggers :
            pc'[y] # "idle" /\ pc'[z] # "idle" /\ msg[y] = msg[z] => y = z
      BY Zenon, <1>0, <2>1 DEF NumberInv
    <2>6. /\ returned' \subseteq 1 .. calls /\ written' \subseteq 1 .. calls
          /\ \A m \in Msgs : before[m] \subseteq returned'
      BY Zenon, <1>0, <2>2, <2>3 DEF NumberInv
    <2>7. main \notin {"join", "destroyed"}
      BY Zenon, <1>0, <2>1 DEF NumberInv
    <2> QED
      BY Zenon, <1>0, <2>2, <2>4, <2>5, <2>6, <2>7 DEF NumberInv
  <1>11. CASE Start
    BY Zenon, <1>0, <1>11 DEF Start, NumberInv, logger, locals, history
  <1>12. CASE ReadMsg
    <2>1. \A y \in Loggers : pc'[y] = pc[y] /\ msg'[y] = msg[y]
      BY Zenon, <1>0, <1>12 DEF ReadMsg, Goto, TypeOK, Threads, LoggerAssumption
    <2> QED
      BY Zenon, <1>0, <1>12, <2>1 DEF ReadMsg, NumberInv, logger, history
  <1>13. CASE FreeMsg
    <2>1. \A y \in Loggers : pc'[y] = pc[y]
      BY Zenon, <1>0, <1>13 DEF FreeMsg, Goto, TypeOK, Threads, LoggerAssumption
    <2>2. msg[Run] \in 1 .. calls
      BY Zenon, <1>0, <1>13 DEF FreeMsg, WalkInv, Active, Threads
    <2> QED
      BY Zenon, <1>0, <1>13, <2>1, <2>2 DEF FreeMsg, NumberInv, logger
  <1>14. CASE Destroy
    BY Zenon, <1>0, <1>14 DEF Destroy, NumberInv, logger, locals, history
  <1>15. CASE Join
    BY Zenon, <1>0, <1>15 DEF Join, NumberInv, logger, locals, history
  <1>16. CASE UNCHANGED vars
    BY Zenon, <1>0, <1>16 DEF NumberInv, vars, logger, locals, history
  <1> QED
    BY Zenon, <1>0, <1>1, <1>2, <1>3, <1>4, <1>5, <1>6, <1>7, <1>8, <1>10, <1>11, <1>12,
       <1>13, <1>14, <1>15, <1>16, Steps, WhoSteps

-----------------------------------------------------------------------------
(* The channel.                                                            *)

\* How many messages are in the channel and how many were taken out.
LEMMA QueueNumbers ==
  ASSUME TypeOK, Taken >= 0
  PROVE  /\ Len(channel) \in Nat /\ Len(accepted) \in Nat
         /\ Queued \in Nat /\ Taken \in Nat /\ Taken + Queued = Len(accepted)
         /\ HasEnd => Len(channel) = Queued + 1 /\ channel[Queued + 1] = EndMsg
         /\ ~HasEnd => Len(channel) = Queued
  <1>1. Len(channel) \in Nat /\ Len(accepted) \in Nat /\ (channel # <<>> => Len(channel) > 0)
    BY DEF TypeOK
  <1> QED
    BY <1>1 DEF Queued, Taken, HasEnd

\* The message at the head of the channel is the first that was not taken out.
LEMMA HeadAccepted ==
  ASSUME TypeOK, NumberInv, QueueInv, channel # <<>>
  PROVE  /\ Head(channel) = channel[1]
         /\ Head(channel) # EndMsg =>
              /\ Queued >= 1 /\ Taken + 1 \in 1 .. Len(accepted)
              /\ Head(channel) = accepted[Taken + 1] /\ Head(channel) \in 1 .. calls
  <1>1. Head(channel) = channel[1] /\ Len(channel) >= 1
    BY DEF TypeOK
  <1>2. Taken >= 0
    BY DEF QueueInv
  <1>3. ASSUME Head(channel) # EndMsg
        PROVE  Queued >= 1
    BY <1>1, <1>2, <1>3, QueueNumbers
  <1>4. ASSUME Queued >= 1
        PROVE  Taken + 1 \in 1 .. Len(accepted) /\ channel[1] = accepted[Taken + 1]
    <2>1. 1 \in 1 .. Queued /\ Taken + 1 \in 1 .. Len(accepted)
      BY <1>2, <1>4, QueueNumbers
    <2> QED
      BY <2>1 DEF QueueInv
  <1> QED
    BY <1>1, <1>3, <1>4 DEF NumberInv

-----------------------------------------------------------------------------
(* Going through the handlers.                                             *)

\* Before the logger is started no thread is in a call.
LEMMA NobodyInSetup ==
  ASSUME LoggerAssumption, TypeOK, KindInv, NumberInv, WalkInv, main = "setup"
  PROVE  /\ \A x \in Loggers : pc[x] = "idle"
         /\ \A x \in Threads : pc[x] \notin Active
         /\ written = {} /\ accepted = <<>>
  <1>1. calls = 0 /\ 1 .. calls = {}
    BY DEF NumberInv
  <1>2. Len(accepted) = 0
    BY <1>1 DEF NumberInv, TypeOK
  <1> QED
    BY <1>1, <1>2 DEF NumberInv, WalkInv, TypeOK

\* Every step keeps where the walk over the handlers stands, and what it has written.
LEMMA WalkStep ==
  ASSUME LoggerAssumption, IInv, [Next]_vars
  PROVE  WalkInv'
  <1>0. TypeOK /\ KindInv /\ NumberInv /\ WalkInv
    BY DEF IInv
  <1> DEFINE W(x) ==
        /\ pc[x] \in Active =>
             /\ i[x] \in 1 .. Len(handlers) + 1 /\ msg[x] \in 1 .. calls
             /\ \A k \in 1 .. Len(handlers) :
                  k < i[x] /\ lvl[msg[x]] >= level[handlers[k]] =>
                    msg[x] \in Range(out[handlers[k]])
        /\ pc[x] \in Active \ {"handler"} =>
             i[x] <= Len(handlers) /\ lvl[msg[x]] >= level[At(x)]
  <1>a. \A x \in Threads : W(x)
    BY Zenon, <1>0 DEF WalkInv
  <1>b. (\A x \in Threads : W(x)') => WalkInv'
    BY Zenon DEF WalkInv
  <1>c. \* a thread that does not move
        ASSUME NEW x \in Threads, UNCHANGED <<pc[x], msg[x], i[x], handlers, level>>,
               1 .. calls \subseteq 1 .. calls',
               \A m \in 1 .. calls : lvl'[m] = lvl[m],
               \A h \in Handlers : Range(out[h]) \subseteq Range(out'[h])
        PROVE  W(x)'
    <2>1. \A k \in 1 .. Len(handlers) : handlers[k] \in Handlers
      BY <1>0 DEF TypeOK
    <2>2. At(x)' = At(x)
      BY <1>c DEF At
    <2>3. pc[x] \in Active => lvl'[msg[x]] = lvl[msg[x]]
      BY Zenon, <1>a, <1>c
    <2> QED
      BY Zenon, <1>a, <1>c, <2>1, <2>2, <2>3 DEF Active
  <1>d. ASSUME NEW h \in Handlers, NEW x \in Threads, Write(x) \/ Write2(x)
        PROVE  /\ Range(out[h]) \subseteq Range(out'[h])
               /\ At(x) \in Handlers /\ msg[x] \in Range(out'[At(x)])
    <2>1. At(x) \in Handlers /\ msg[x] \in Msgs
      BY <1>0, <1>d, AtHandler DEF Write, Write2, WalkInv, Active
    <2>2. out \in [Handlers -> Seq(Msgs)]
      BY <1>0 DEF TypeOK
    <2>3. out' = [out EXCEPT ![At(x)] = Append(@, msg[x])]
      BY Zenon, <1>d DEF Write, Write2
    <2>4. out'[At(x)] = Append(out[At(x)], msg[x]) /\ out[At(x)] \in Seq(Msgs)
      BY Zenon, <2>1, <2>2, <2>3
    <2>5. Range(out'[At(x)]) = Range(out[At(x)]) \cup {msg[x]}
      BY <2>1, <2>4, RangeAppend
    <2>6. h # At(x) => out'[h] = out[h]
      BY Zenon, <2>1, <2>2, <2>3
    <2> QED
      BY Zenon, <2>1, <2>5, <2>6
  <1>e. Len(handlers) \in Nat /\ \A k \in 1 .. Len(handlers) : handlers[k] \in Handlers
    BY <1>0 DEF TypeOK
  <1> HIDE DEF W
  <1>1. ASSUME NEW h \in Handlers, NEW way \in Setup, AddHandler(h, way)
        PROVE  WalkInv'
    <2>1. \A x \in Threads : pc'[x] \notin Active
      BY Zenon, <1>0, <1>1, NobodyInSetup DEF AddHandler, locals
    <2> QED
      BY Zenon, <2>1 DEF WalkInv
  <1>2. ASSUME NEW x \in Loggers, NEW l \in Levels, LogCall(x, l)
        PROVE  WalkInv'
    <2>1. 1 .. calls \subseteq 1 .. calls' /\ \A m \in 1 .. calls : lvl'[m] = lvl[m]
      <3>1. calls \in Nat /\ calls' = calls + 1 /\ calls + 1 \notin 1 .. calls
            /\ 1 .. calls \subseteq Msgs
        BY <1>0, <1>2, LoggedAreMsgs DEF LogCall
      <3>2. lvl \in [Msgs -> Levels] /\ lvl' = [lvl EXCEPT ![calls + 1] = l]
        BY <1>0, <1>2 DEF TypeOK, LogCall
      <3>3. 1 .. calls \subseteq 1 .. calls'
        BY <3>1
      <3> QED
        BY Zenon, <3>1, <3>2, <3>3
    <2>2. pc'[x] \notin Active
      BY Zenon, <1>0, <1>2 DEF LogCall, Goto, TypeOK, Threads, Active
    <2>3. \A y \in Threads : y # x => pc'[y] = pc[y] /\ msg'[y] = msg[y]
      BY Zenon, <1>0, <1>2 DEF LogCall, Goto, TypeOK, Threads
    <2>4. UNCHANGED <<handlers, level, out, i>>
      BY <1>2 DEF LogCall, logger
    <2>5. W(x)'
      BY Zenon, <2>2 DEF W
    <2>6. \A y \in Threads : y # x => W(y)'
      BY Zenon, <1>c, <2>1, <2>3, <2>4
    <2> QED
      BY Zenon, <1>b, <2>5, <2>6
  <1>3. ASSUME NEW x \in Loggers, ~async, Make(x)
        PROVE  WalkInv'
    <2>1. pc'[x] = "handler" /\ i'[x] = 1
      BY Zenon, <1>0, <1>3 DEF Make, Goto, TypeOK, Threads
    <2>2. \A y \in Threads : y # x => pc'[y] = pc[y] /\ i'[y] = i[y]
      BY Zenon, <1>0, <1>3 DEF Make, Goto, TypeOK, Threads
    <2>3. UNCHANGED <<handlers, level, out, msg, calls, lvl>>
      BY <1>3 DEF Make, logger, history
    <2>4. msg[x] \in 1 .. calls
      BY Zenon, <1>0, <1>3 DEF Make, NumberInv
    <2>5. W(x)'
      <3>1. 1 \in 1 .. Len(handlers) + 1 /\ \A k \in 1 .. Len(handlers) : ~ (k < 1)
        BY <1>0 DEF TypeOK
      <3> QED
        BY Zenon, <2>1, <2>3, <2>4, <3>1 DEF W
    <2>6. \A y \in Threads : y # x => W(y)'
      BY Zenon, <1>c, <2>2, <2>3
    <2> QED
      BY Zenon, <1>b, <2>5, <2>6
  <1>4. ASSUME NEW x \in Loggers, async, Alloc(x) \/ Send(x)
        PROVE  WalkInv'
    <2>1. pc'[x] \notin Active
      BY Zenon, <1>0, <1>4 DEF Alloc, Send, Goto, TypeOK, Threads, Active
    <2>2. \A y \in Threads : y # x => pc'[y] = pc[y]
      BY Zenon, <1>0, <1>4 DEF Alloc, Send, Goto, TypeOK, Threads
    <2>3. UNCHANGED <<handlers, level, out, msg, i, calls, lvl>>
      BY Zenon, <1>4 DEF Alloc, Send, logger
    <2>5. W(x)'
      BY Zenon, <2>1 DEF W
    <2>6. \A y \in Threads : y # x => W(y)'
      BY Zenon, <1>c, <2>2, <2>3
    <2> QED
      BY Zenon, <1>b, <2>5, <2>6
  <1>6. ASSUME NEW x \in Threads, Handler(x)
        PROVE  WalkInv'
    <2>1. UNCHANGED <<handlers, level, out, msg, calls, lvl>> /\ pc[x] = "handler"
      BY <1>6 DEF Handler, logger, history
    <2>2. \A y \in Threads : y # x => pc'[y] = pc[y] /\ i'[y] = i[y]
      BY Zenon, <1>0, <1>6 DEF Handler, Goto, TypeOK
    <2>3. i[x] \in 1 .. Len(handlers) /\ At(x) = handlers[i[x]] /\ msg[x] \in 1 .. calls
      BY <1>0, <1>6, AtHandler DEF Handler, Active
    <2>4. \A k \in 1 .. Len(handlers) : k < i[x] /\ lvl[msg[x]] >= level[handlers[k]] =>
            msg[x] \in Range(out[handlers[k]])
      BY Zenon, <1>a, <2>1 DEF W, Active
    <2>5. ASSUME lvl[msg[x]] < level[At(x)], i' = [i EXCEPT ![x] = @ + 1], UNCHANGED pc
          PROVE  W(x)'
      <3>1. i'[x] = i[x] + 1 /\ pc'[x] = "handler"
        BY Zenon, <1>0, <2>1, <2>5 DEF TypeOK
      <3>2. i[x] + 1 \in 1 .. Len(handlers) + 1
            /\ \A k \in 1 .. Len(handlers) : k < i[x] + 1 => k < i[x] \/ k = i[x]
        BY <1>e, <2>3
      <3>3. ~ (lvl[msg[x]] >= level[handlers[i[x]]])
        <4>1. lvl \in [Msgs -> Levels] /\ level \in [Handlers -> Levels]
              /\ msg[x] \in Msgs /\ At(x) \in Handlers
          BY Zenon, <1>0, <1>e, <2>3, LoggedAreMsgs DEF TypeOK
        <4>2. lvl[msg[x]] \in Int /\ level[At(x)] \in Int
          BY <4>1 DEF Levels
        <4> QED
          BY <2>3, <2>5, <4>2
      <3>4. \A k \in 1 .. Len(handlers) :
              k < i[x] + 1 /\ lvl[msg[x]] >= level[handlers[k]] =>
                msg[x] \in Range(out[handlers[k]])
        BY Zenon, <2>4, <3>2, <3>3
      <3> QED
        BY Zenon, <2>1, <2>3, <3>1, <3>2, <3>4 DEF W
    <2>6. ASSUME lvl[msg[x]] >= level[At(x)], UNCHANGED i
          PROVE  W(x)'
      <3>1. i[x] \in 1 .. Len(handlers) + 1 /\ i[x] <= Len(handlers)
        BY <1>e, <2>3
      <3>2. At(x)' = At(x) /\ i'[x] = i[x]
        BY <2>1, <2>6 DEF At
      <3>3. lvl'[msg'[x]] >= level'[At(x)']
        BY Zenon, <2>1, <2>6, <3>2
      <3> QED
        BY Zenon, <2>1, <2>3, <2>4, <3>1, <3>2, <3>3 DEF W
    <2>7. W(x)'
      BY <1>6, <2>5, <2>6 DEF Handler
    <2>8. \A y \in Threads : y # x => W(y)'
      BY Zenon, <1>c, <2>1, <2>2
    <2> QED
      BY Zenon, <1>b, <2>7, <2>8
  <1>7. ASSUME NEW x \in Threads, Lock(x) \/ Write(x)
        PROVE  WalkInv'
    <2>1. pc[x] \in Active \ {"handler"} /\ pc'[x] \in Active \ {"handler"}
      BY Zenon, <1>0, <1>7 DEF Lock, Write, Goto, TypeOK, Active
    <2>2. \A y \in Threads : y # x => pc'[y] = pc[y]
      BY Zenon, <1>0, <1>7 DEF Lock, Write, Goto, TypeOK
    <2>3. UNCHANGED <<handlers, level, msg, i, calls, lvl>> /\ UNCHANGED At(x)
      BY <1>7 DEF Lock, Write, logger, history, At
    <2>4. \A h \in Handlers : Range(out[h]) \subseteq Range(out'[h])
      BY Zenon, <1>7, <1>d DEF Lock
    <2>5. W(x)'
      <3>1. \A k \in 1 .. Len(handlers) : handlers[k] \in Handlers
        BY <1>0 DEF TypeOK
      <3> QED
        BY Zenon, <1>a, <2>1, <2>3, <2>4, <3>1 DEF W
    <2>6. \A y \in Threads : y # x => W(y)'
      BY Zenon, <1>c, <2>2, <2>3, <2>4
    <2> QED
      BY Zenon, <1>b, <2>5, <2>6
  <1>9. ASSUME NEW x \in Threads, Write2(x)
        PROVE  WalkInv'
    <2>1. UNCHANGED <<handlers, level, msg, calls, lvl>> /\ pc[x] = "write2"
      BY <1>9 DEF Write2, logger, history
    <2>2. \A y \in Threads : y # x => pc'[y] = pc[y] /\ i'[y] = i[y]
      BY Zenon, <1>0, <1>9 DEF Write2, Goto, TypeOK
    <2>3. pc'[x] = "handler" /\ i'[x] = i[x] + 1
      BY Zenon, <1>0, <1>9 DEF Write2, Goto, TypeOK
    <2>4. \A h \in Handlers : Range(out[h]) \subseteq Range(out'[h])
      BY Zenon, <1>9, <1>d
    <2>5. i[x] \in 1 .. Len(handlers) /\ At(x) = handlers[i[x]] /\ msg[x] \in 1 .. calls
      BY <1>0, <2>1, AtHandler DEF WalkInv, Active
    <2>6. msg[x] \in Range(out'[handlers[i[x]]])
      BY Zenon, <1>9, <1>d, <1>e, <2>5
    <2>7. W(x)'
      <3>1. \A k \in 1 .. Len(handlers) : handlers[k] \in Handlers
        BY <1>0 DEF TypeOK
      <3>2. i[x] + 1 \in 1 .. Len(handlers) + 1
            /\ \A k \in 1 .. Len(handlers) : k < i[x] + 1 => k < i[x] \/ k = i[x]
        BY <1>e, <2>5
      <3>3. \A k \in 1 .. Len(handlers) : k < i[x] /\ lvl[msg[x]] >= level[handlers[k]] =>
              msg[x] \in Range(out'[handlers[k]])
        BY Zenon, <1>a, <2>1, <2>4, <3>1 DEF W, Active
      <3> QED
        BY Zenon, <2>1, <2>3, <2>5, <2>6, <3>2, <3>3 DEF W
    <2>8. \A y \in Threads : y # x => W(y)'
      BY Zenon, <1>c, <2>1, <2>2, <2>4
    <2> QED
      BY Zenon, <1>b, <2>7, <2>8
  <1>10. ASSUME NEW x \in Threads,
                SyncReturn(x) \/ (x = Run /\ FreeMsg)
         PROVE  WalkInv'
    <2>1. pc'[x] \notin Active
      BY Zenon, <1>0, <1>10 DEF SyncReturn, FreeMsg, Goto, TypeOK, Active
    <2>2. \A y \in Threads : y # x => pc'[y] = pc[y]
      BY Zenon, <1>0, <1>10 DEF SyncReturn, FreeMsg, Goto, TypeOK
    <2>3. UNCHANGED <<handlers, level, out, msg, i, calls, lvl>>
      BY <1>10 DEF SyncReturn, FreeMsg, logger
    <2>5. W(x)'
      BY Zenon, <2>1 DEF W
    <2>6. \A y \in Threads : y # x => W(y)'
      BY Zenon, <1>c, <2>2, <2>3
    <2> QED
      BY Zenon, <1>b, <2>5, <2>6
  <1>11. CASE UNCHANGED <<handlers, level, out, locals, calls, lvl>>
    BY Zenon, <1>b, <1>c, <1>11 DEF locals
  <1>12. CASE ReadMsg
    <2>1. Run \in Threads /\ i'[Run] = 1 /\ msg'[Run] = Head(channel)
          /\ pc'[Run] = IF Head(channel) = EndMsg THEN "ended" ELSE "handler"
      BY Zenon, <1>0, <1>12 DEF ReadMsg, Goto, TypeOK, Threads
    <2>2. \A y \in Threads : y # Run => pc'[y] = pc[y] /\ i'[y] = i[y] /\ msg'[y] = msg[y]
      BY Zenon, <1>0, <1>12 DEF ReadMsg, Goto, TypeOK
    <2>3. UNCHANGED <<handlers, level, out, calls, lvl>>
      BY <1>12 DEF ReadMsg, logger, history
    <2>4. Head(channel) # EndMsg => Head(channel) \in 1 .. calls
      BY <1>12, HeadAccepted DEF IInv, ReadMsg
    <2>5. W(Run)'
      <3>1. 1 \in 1 .. Len(handlers) + 1 /\ \A k \in 1 .. Len(handlers) : ~ (k < 1)
        BY <1>0 DEF TypeOK
      <3> QED
        BY Zenon, <2>1, <2>3, <2>4, <3>1 DEF W, Active
    <2>6. \A y \in Threads : y # Run => W(y)'
      BY Zenon, <1>c, <2>2, <2>3
    <2> QED
      BY Zenon, <1>b, <2>5, <2>6
  <1>13. Start \/ Destroy \/ Join \/ UNCHANGED vars => WalkInv'
    BY Zenon, <1>11 DEF Start, Destroy, Join, vars, logger, history
  <1> QED
    BY Zenon, <1>0, <1>1, <1>2, <1>3, <1>4, <1>6, <1>7, <1>9, <1>10, <1>12, <1>13,
       Steps, WhoSteps DEF Threads

-----------------------------------------------------------------------------
(* The pieces of a line.                                                   *)

\* Two threads do not write to one handler at the same time.
LEMMA OneWriter ==
  ASSUME LoggerAssumption, TypeOK, KindInv, PieceInv,
         NEW x \in Threads, NEW y \in Threads,
         pc[x] \in Writing, pc[y] \in Writing, At(x) = At(y)
  PROVE  x = y
  <1>1. pc[x] \in Active /\ pc[y] \in Active
    BY DEF Active, Writing
  <1>2. CASE async
    BY Zenon, <1>1, <1>2, WhoSteps
  <1>3. CASE ~async
    <2>1. x \in Loggers /\ y \in Loggers
      BY Zenon, <1>1, <1>3, WhoSteps
    <2>2. mtx[At(x)] = {x} /\ mtx[At(y)] = {y}
      BY Zenon, <1>3, <2>1 DEF PieceInv
    <2> QED
      BY <2>2
  <1> QED
    BY Zenon, <1>2, <1>3

\* Lines of two pieces.
LEMMA Halves ==
  ASSUME NEW n \in Nat
  PROVE  /\ n % 2 = 0 \/ n % 2 = 1
         /\ n % 2 = 0 => (n + 1) % 2 = 1 /\ (n + 1) \div 2 = n \div 2
         /\ n % 2 = 1 => /\ (n + 1) % 2 = 0 /\ (n + 1) \div 2 = n \div 2 + 1
                         /\ 2 * (n \div 2 + 1) = n + 1
         /\ \A k \in 1 .. n \div 2 : 2 * k \in 1 .. n /\ 2 * k - 1 \in 1 .. n
OBVIOUS

\* A first piece is there only while its writer is between the two pieces.
LEMMA EvenBefore ==
  ASSUME LoggerAssumption, TypeOK, KindInv, WalkInv, PieceInv,
         NEW x \in Threads, pc[x] = "write"
  PROVE  Len(out[At(x)]) % 2 = 0
  <1>1. At(x) \in Handlers
    BY AtHandler DEF WalkInv, Active
  <1>2. Len(out[At(x)]) \in Nat
    BY <1>1 DEF TypeOK
  <1>3. Len(out[At(x)]) % 2 # 1
    BY Zenon, <1>1, OneWriter DEF PieceInv, Writing
  <1> QED
    BY Zenon, <1>2, <1>3, Halves

\* Every step keeps the pieces of a line together: one writer at a time at a handler.
LEMMA PieceStep ==
  ASSUME LoggerAssumption, IInv, [Next]_vars
  PROVE  PieceInv'
  <1>0. TypeOK /\ KindInv /\ NumberInv /\ WalkInv /\ PieceInv
    BY DEF IInv
  <1>p1. ~async => \A x \in Loggers : pc[x] \in Writing => mtx[At(x)] = {x}
    BY Zenon, <1>0 DEF PieceInv
  <1>p2. \A h \in Handlers : Len(out[h]) % 2 = 1 =>
           \E x \in Threads : pc[x] = "write2" /\ At(x) = h
    BY Zenon, <1>0 DEF PieceInv
  <1>p3. \A x \in Threads : pc[x] = "write2" =>
           /\ Len(out[At(x)]) % 2 = 1
           /\ out[At(x)][Len(out[At(x)])] = msg[x]
    BY Zenon, <1>0 DEF PieceInv
  <1>p4. \A h \in Handlers : \A k \in 1 .. Len(out[h]) \div 2 :
           out[h][2 * k - 1] = out[h][2 * k]
    BY Zenon, <1>0 DEF PieceInv, LinesWhole
  <1>t. out \in [Handlers -> Seq(Msgs)]
    BY <1>0 DEF TypeOK
  <1>a. \* no thread writes, or begins to under a mutex
        ASSUME UNCHANGED <<out, mtx, async>>,
               \A x \in Threads :
                 /\ pc'[x] = "write2" <=> pc[x] = "write2"
                 /\ pc'[x] \in Writing =>
                      UNCHANGED <<At(x), msg[x]>> /\ (async \/ pc[x] \in Writing)
        PROVE  PieceInv'
    <2>1. ~async' => \A x \in Loggers : pc'[x] \in Writing => mtx'[At(x)'] = {x}
      BY Zenon, <1>p1, <1>a DEF Threads
    <2>2. \A h \in Handlers : Len(out'[h]) % 2 = 1 =>
            \E x \in Threads : pc'[x] = "write2" /\ At(x)' = h
      BY Zenon, <1>p2, <1>a DEF Writing
    <2>3. \A x \in Threads : pc'[x] = "write2" =>
            /\ Len(out'[At(x)']) % 2 = 1
            /\ out'[At(x)'][Len(out'[At(x)'])] = msg'[x]
      BY Zenon, <1>p3, <1>a DEF Writing
    <2>4. LinesWhole'
      BY Zenon, <1>0, <1>a DEF PieceInv, LinesWhole
    <2> QED
      BY Zenon, <2>1, <2>2, <2>3, <2>4 DEF PieceInv
  <1>b. ASSUME NEW x \in Threads, UNCHANGED <<out, mtx, async, handlers>>,
               pc[x] \notin Writing, pc'[x] \notin Writing,
               \A y \in Threads : y # x =>
                 pc'[y] = pc[y] /\ i'[y] = i[y] /\ msg'[y] = msg[y]
        PROVE  PieceInv'
    BY Zenon, <1>a, <1>b DEF At, Writing
  <1>1. ASSUME NEW h \in Handlers, NEW way \in Setup, AddHandler(h, way)
        PROVE  PieceInv'
    <2>1. \A x \in Threads : pc[x] \notin Active /\ pc'[x] = pc[x]
      BY Zenon, <1>0, <1>1, NobodyInSetup DEF AddHandler, locals
    <2>2. UNCHANGED <<out, mtx, async>>
      BY <1>1 DEF AddHandler
    <2> QED
      BY Zenon, <1>a, <2>1, <2>2 DEF Active, Writing
  <1>2. ASSUME NEW x \in Loggers, NEW l \in Levels, LogCall(x, l)
        PROVE  PieceInv'
    <2>1. /\ x \in Threads /\ pc[x] \notin Writing /\ pc'[x] \notin Writing
          /\ \A y \in Threads : y # x => pc'[y] = pc[y] /\ msg'[y] = msg[y]
      BY Zenon, <1>0, <1>2 DEF LogCall, Goto, TypeOK, Threads, Writing
    <2> QED
      BY Zenon, <1>2, <1>b, <2>1 DEF LogCall, logger
  <1>3. ASSUME NEW x \in Threads, Make(x)
        PROVE  PieceInv'
    <2>1. /\ pc[x] \notin Writing /\ pc'[x] \notin Writing
          /\ \A y \in Threads : y # x => pc'[y] = pc[y] /\ i'[y] = i[y]
      BY Zenon, <1>0, <1>3 DEF Make, Goto, TypeOK, Threads, Writing
    <2> QED
      BY Zenon, <1>3, <1>b, <2>1 DEF Make, logger
  <1>4. ASSUME NEW x \in Threads, Alloc(x) \/ Send(x) \/ SyncReturn(x) \/ (x = Run /\ FreeMsg)
        PROVE  PieceInv'
    <2>1. /\ pc[x] \notin Writing /\ pc'[x] \notin Writing
          /\ \A y \in Threads : y # x => pc'[y] = pc[y]
      BY Zenon, <1>0, <1>4
         DEF Alloc, Send, SyncReturn, FreeMsg, Goto, TypeOK, Threads, Writing
    <2>2. UNCHANGED <<out, mtx, async, handlers, i, msg>>
      BY <1>4 DEF Alloc, Send, SyncReturn, FreeMsg, logger
    <2> QED
      BY Zenon, <1>b, <2>1, <2>2
  <1>6. ASSUME NEW x \in Threads, Handler(x)
        PROVE  PieceInv'
    <2>1. /\ pc[x] = "handler" /\ pc'[x] # "write2"
          /\ \A y \in Threads : y # x => pc'[y] = pc[y] /\ i'[y] = i[y]
      BY Zenon, <1>0, <1>6 DEF Handler, Goto, TypeOK
    <2>2. UNCHANGED <<out, mtx, async, handlers, msg>>
      BY <1>6 DEF Handler, logger
    <2>3. \A y \in Threads : y # x => At(y)' = At(y)
      BY <2>1, <2>2 DEF At
    <2>4. pc'[x] \in Writing => At(x)' = At(x) /\ async
      <3>0. i[x] \in 1 .. Len(handlers) /\ At(x) = handlers[i[x]]
        BY <1>0, <1>6, AtHandler DEF Handler, Active
      <3>1. need_mutex[At(x)] = ~async
        BY Zenon, <1>0, <3>0 DEF KindInv
      <3>2. pc'[x] \in Writing => UNCHANGED i /\ ~need_mutex[At(x)]
        BY Zenon, <1>0, <1>6 DEF Handler, Goto, TypeOK, Writing
      <3> QED
        BY Zenon, <2>2, <3>1, <3>2 DEF At
    <2> QED
      BY Zenon, <1>a, <2>1, <2>2, <2>3, <2>4 DEF Writing
  <1>7. ASSUME NEW x \in Loggers, ~async, Lock(x)
        PROVE  PieceInv'
    <2>1. /\ x \in Threads /\ pc[x] = "lock" /\ pc'[x] = "write"
          /\ \A y \in Threads : y # x => pc'[y] = pc[y]
      BY Zenon, <1>0, <1>7 DEF Lock, Goto, TypeOK, Threads
    <2>2. UNCHANGED <<out, async, handlers, i, msg>>
      BY <1>7 DEF Lock, logger
    <2>3. \A y \in Threads : At(y)' = At(y)
      BY <2>2 DEF At
    <2>4. At(x) \in Handlers
      BY <1>0, <2>1, AtHandler DEF WalkInv, Active
    <2>5. \A y \in Loggers : pc'[y] \in Writing => mtx'[At(y)] = {y}
      <3>1. mtx'[At(x)] = {x} /\ \A h \in Handlers : h # At(x) => mtx'[h] = mtx[h]
        BY Zenon, <1>0, <1>7, <2>4 DEF Lock, TypeOK
      <3>2. ASSUME NEW y \in Loggers, y # x, pc'[y] \in Writing
            PROVE  mtx'[At(y)] = {y}
        <4>1. pc[y] \in Writing /\ mtx[At(y)] = {y} /\ y \in Threads
          BY Zenon, <1>0, <1>7, <2>1, <3>2 DEF PieceInv, Threads
        <4>2. At(y) \in Handlers
          BY <1>0, <4>1, AtHandler DEF WalkInv, Active, Writing
        <4>3. At(y) # At(x)
          BY <1>7, <4>1 DEF Lock
        <4> QED
          BY Zenon, <3>1, <4>1, <4>2, <4>3
      <3> QED
        BY Zenon, <3>1, <3>2
    <2>6. \A h \in Handlers : Len(out'[h]) % 2 = 1 =>
            \E y \in Threads : pc'[y] = "write2" /\ At(y)' = h
      BY Zenon, <1>p2, <2>1, <2>2, <2>3
    <2>7. \A y \in Threads : pc'[y] = "write2" =>
            /\ Len(out'[At(y)']) % 2 = 1
            /\ out'[At(y)'][Len(out'[At(y)'])] = msg'[y]
      BY Zenon, <1>p3, <2>1, <2>2, <2>3
    <2>8. LinesWhole'
      BY Zenon, <1>0, <2>2 DEF PieceInv, LinesWhole
    <2> QED
      BY Zenon, <2>3, <2>5, <2>6, <2>7, <2>8 DEF PieceInv, Threads
  <1>8. ASSUME NEW x \in Threads, Write(x)
        PROVE  PieceInv'
    <2> DEFINE h == At(x)
               n == Len(out[h])
    <2>1. /\ pc[x] = "write" /\ pc'[x] = "write2"
          /\ \A y \in Threads : y # x => pc'[y] = pc[y]
      BY Zenon, <1>0, <1>8 DEF Write, Goto, TypeOK
    <2>2. UNCHANGED <<mtx, async, handlers, i, msg>>
      BY <1>8 DEF Write, logger
    <2>3. \A y \in Threads : At(y)' = At(y)
      BY <2>2 DEF At
    <2>4. h \in Handlers /\ msg[x] \in Msgs
      BY <1>0, <2>1, AtHandler DEF WalkInv, Active
    <2>5. n \in Nat /\ n % 2 = 0 /\ out[h] \in Seq(Msgs)
      <3>1. out[h] \in Seq(Msgs)
        BY <1>t, <2>4
      <3>2. n % 2 = 0
        BY Zenon, <1>0, <2>1, EvenBefore
      <3>3. n \in Nat
        BY <3>1
      <3> QED
        BY Zenon, <3>1, <3>2, <3>3
    <2>6. out'[h] = Append(out[h], msg[x]) /\ \A g \in Handlers : g # h => out'[g] = out[g]
      BY Zenon, <1>0, <1>8, <2>4 DEF Write, TypeOK
    <2>7. Len(out'[h]) = n + 1 /\ out'[h][n + 1] = msg[x]
          /\ \A k \in 1 .. n : out'[h][k] = out[h][k]
      BY <2>4, <2>5, <2>6
    <2>8. \A y \in Threads : pc[y] = "write2" => At(y) # h /\ At(y) \in Handlers
      BY Zenon, <1>0, <2>1, OneWriter, AtHandler DEF WalkInv, Active, Writing
    <2> HIDE DEF h, n
    <2>9. ~async' => \A y \in Loggers : pc'[y] \in Writing => mtx'[At(y)'] = {y}
      BY Zenon, <1>p1, <2>1, <2>2, <2>3 DEF Writing, Threads
    <2>10. \A g \in Handlers : Len(out'[g]) % 2 = 1 =>
             \E y \in Threads : pc'[y] = "write2" /\ At(y)' = g
      <3>1. At(x)' = h
        BY <2>3 DEF h
      <3>2. ASSUME NEW g \in Handlers, g # h, Len(out'[g]) % 2 = 1
            PROVE  \E y \in Threads : pc'[y] = "write2" /\ At(y)' = g
        <4>1. PICK y \in Threads : pc[y] = "write2" /\ At(y) = g
          BY Zenon, <1>p2, <2>6, <3>2
        <4>2. pc'[y] = "write2" /\ At(y)' = g
          BY Zenon, <2>1, <2>3, <4>1
        <4> QED
          BY Zenon, <4>2
      <3> QED
        BY Zenon, <2>1, <3>1, <3>2
    <2>11. \A y \in Threads : pc'[y] = "write2" =>
             /\ Len(out'[At(y)']) % 2 = 1
             /\ out'[At(y)'][Len(out'[At(y)'])] = msg'[y]
      <3>1. Len(out'[h]) % 2 = 1 /\ out'[h][Len(out'[h])] = msg[x]
        BY <2>5, <2>7, Halves
      <3>2. At(x)' = h
        BY <2>3 DEF h
      <3>3. ASSUME NEW y \in Threads, y # x, pc'[y] = "write2"
            PROVE  /\ Len(out'[At(y)']) % 2 = 1
                   /\ out'[At(y)'][Len(out'[At(y)'])] = msg'[y]
        <4>1. pc[y] = "write2" /\ At(y)' = At(y) /\ out'[At(y)] = out[At(y)] /\ msg'[y] = msg[y]
          BY Zenon, <2>1, <2>2, <2>3, <2>6, <2>8, <3>3
        <4> QED
          BY Zenon, <1>p3, <4>1
      <3> QED
        BY Zenon, <2>2, <3>1, <3>2, <3>3
    <2>12. LinesWhole'
      <3>1. \A k \in 1 .. n \div 2 : out[h][2 * k - 1] = out[h][2 * k]
        BY Zenon, <1>0, <2>4 DEF PieceInv, LinesWhole, h, n
      <3>2. (n + 1) \div 2 = n \div 2
            /\ \A k \in 1 .. n \div 2 : 2 * k \in 1 .. n /\ 2 * k - 1 \in 1 .. n
        BY <2>5, Halves
      <3>3. \A k \in 1 .. Len(out'[h]) \div 2 : out'[h][2 * k - 1] = out'[h][2 * k]
        BY Zenon, <2>7, <3>1, <3>2
      <3> QED
        BY Zenon, <1>p4, <2>6, <3>3 DEF LinesWhole
    <2> QED
      BY Zenon, <2>9, <2>10, <2>11, <2>12 DEF PieceInv
  <1>9. ASSUME NEW x \in Threads, Write2(x)
        PROVE  PieceInv'
    <2> DEFINE h == At(x)
               n == Len(out[h])
    <2>1. /\ pc[x] = "write2" /\ pc'[x] = "handler"
          /\ \A y \in Threads : y # x => pc'[y] = pc[y] /\ i'[y] = i[y]
      BY Zenon, <1>0, <1>9 DEF Write2, Goto, TypeOK
    <2>2. UNCHANGED <<async, handlers, msg>>
      BY <1>9 DEF Write2, logger
    <2>3. \A y \in Threads : y # x => At(y)' = At(y)
      BY <2>1, <2>2 DEF At
    <2>4. h \in Handlers /\ msg[x] \in Msgs
      BY <1>0, <2>1, AtHandler DEF WalkInv, Active
    <2>5. n \in Nat /\ n % 2 = 1 /\ out[h][n] = msg[x] /\ out[h] \in Seq(Msgs)
      <3>1. out[h] \in Seq(Msgs)
        BY <1>t, <2>4
      <3>2. n % 2 = 1 /\ out[h][n] = msg[x]
        BY Zenon, <1>p3, <2>1
      <3>3. n \in Nat
        BY <3>1
      <3> QED
        BY Zenon, <3>1, <3>2, <3>3
    <2>6. out'[h] = Append(out[h], msg[x]) /\ \A g \in Handlers : g # h => out'[g] = out[g]
      BY Zenon, <1>0, <1>9, <2>4 DEF Write2, TypeOK
    <2>7. Len(out'[h]) = n + 1 /\ out'[h][n + 1] = msg[x]
          /\ \A k \in 1 .. n : out'[h][k] = out[h][k]
      BY <2>4, <2>5, <2>6
    <2>8. \A y \in Threads : y # x /\ pc[y] \in Writing => At(y) # h /\ At(y) \in Handlers
      BY Zenon, <1>0, <2>1, OneWriter, AtHandler DEF WalkInv, Active, Writing
    <2>9. \A g \in Handlers : g # h => mtx'[g] = mtx[g]
      BY Zenon, <1>0, <1>9, <2>4 DEF Write2, TypeOK
    <2>10. (n + 1) % 2 = 0 /\ (n + 1) \div 2 = n \div 2 + 1 /\ 2 * (n \div 2 + 1) = n + 1
           /\ \A k \in 1 .. n \div 2 : 2 * k \in 1 .. n /\ 2 * k - 1 \in 1 .. n
      BY Zenon, <2>5, Halves
    <2> HIDE DEF h, n
    <2>11. ~async' => \A y \in Loggers : pc'[y] \in Writing => mtx'[At(y)'] = {y}
      <3>1. ASSUME NEW y \in Loggers, ~async, pc'[y] \in Writing
            PROVE  mtx'[At(y)'] = {y}
        <4>1. y \in Threads /\ y # x /\ pc[y] \in Writing
          BY Zenon, <2>1, <3>1 DEF Writing, Threads
        <4>2. At(y)' = At(y) /\ mtx'[At(y)] = mtx[At(y)]
          BY Zenon, <2>3, <2>8, <2>9, <4>1
        <4> QED
          BY Zenon, <1>p1, <3>1, <4>1, <4>2
      <3> QED
        BY Zenon, <2>2, <3>1
    <2>12. \A g \in Handlers : Len(out'[g]) % 2 = 1 =>
             \E y \in Threads : pc'[y] = "write2" /\ At(y)' = g
      <3>1. Len(out'[h]) % 2 # 1
        BY <2>7, <2>10
      <3>2. ASSUME NEW g \in Handlers, g # h, Len(out'[g]) % 2 = 1
            PROVE  \E y \in Threads : pc'[y] = "write2" /\ At(y)' = g
        <4>1. PICK y \in Threads : pc[y] = "write2" /\ At(y) = g
          BY Zenon, <1>p2, <2>6, <3>2
        <4>2. y # x
          BY <3>2, <4>1 DEF h
        <4>3. pc'[y] = "write2" /\ At(y)' = g
          BY Zenon, <2>1, <2>3, <4>1, <4>2
        <4> QED
          BY Zenon, <4>3
      <3> QED
        BY Zenon, <3>1, <3>2
    <2>13. \A y \in Threads : pc'[y] = "write2" =>
             /\ Len(out'[At(y)']) % 2 = 1
             /\ out'[At(y)'][Len(out'[At(y)'])] = msg'[y]
      <3>1. ASSUME NEW y \in Threads, pc'[y] = "write2"
            PROVE  /\ Len(out'[At(y)']) % 2 = 1
                   /\ out'[At(y)'][Len(out'[At(y)'])] = msg'[y]
        <4>1. y # x /\ pc[y] = "write2"
          BY Zenon, <2>1, <3>1
        <4>2. At(y)' = At(y) /\ out'[At(y)] = out[At(y)] /\ msg'[y] = msg[y]
          BY Zenon, <2>2, <2>3, <2>6, <2>8, <4>1 DEF Writing
        <4> QED
          BY Zenon, <1>p3, <4>1, <4>2
      <3> QED
        BY Zenon, <3>1
    <2>14. LinesWhole'
      <3>1. \A k \in 1 .. n \div 2 : out[h][2 * k - 1] = out[h][2 * k]
        BY Zenon, <1>0, <2>4 DEF PieceInv, LinesWhole, h, n
      <3>2. \A k \in 1 .. Len(out'[h]) \div 2 : out'[h][2 * k - 1] = out'[h][2 * k]
        <4>1. \A k \in 1 .. n \div 2 : out'[h][2 * k - 1] = out'[h][2 * k]
          BY Zenon, <2>7, <2>10, <3>1
        <4>2. out'[h][n] = msg[x] /\ out'[h][n + 1] = msg[x] /\ n \div 2 \in Nat
          BY <2>5, <2>7
        <4>3. \A k \in 1 .. (n \div 2) + 1 : k \in 1 .. n \div 2 \/ (2 * k = n + 1 /\ 2 * k - 1 = n)
          BY <2>5, <2>10, <4>2
        <4> QED
          BY Zenon, <2>7, <2>10, <4>1, <4>2, <4>3
      <3> QED
        BY Zenon, <1>p4, <2>6, <3>2 DEF LinesWhole
    <2> QED
      BY Zenon, <2>11, <2>12, <2>13, <2>14 DEF PieceInv
  <1>12. CASE ReadMsg
    <2>1. /\ Run \in Threads /\ pc[Run] \notin Writing /\ pc'[Run] \notin Writing
          /\ \A y \in Threads : y # Run => pc'[y] = pc[y] /\ i'[y] = i[y] /\ msg'[y] = msg[y]
      BY Zenon, <1>0, <1>12 DEF ReadMsg, Goto, TypeOK, Threads, Writing
    <2> QED
      BY Zenon, <1>12, <1>b, <2>1 DEF ReadMsg, logger
  <1>13. Start \/ Destroy \/ Join \/ UNCHANGED vars => PieceInv'
    <2>1. Start \/ Destroy \/ Join \/ UNCHANGED vars =>
            UNCHANGED <<out, mtx, async, handlers, pc, i, msg>>
      BY DEF Start, Destroy, Join, vars, logger, locals
    <2> QED
      BY Zenon, <1>a, <2>1 DEF At
  <1> QED
    BY Zenon, <1>0, <1>1, <1>2, <1>3, <1>4, <1>6, <1>7, <1>8, <1>9, <1>12, <1>13,
       Steps, WhoSteps DEF Threads

\* Every step keeps the channel the part of the accepted messages not taken out yet.
LEMMA QueueStep ==
  ASSUME LoggerAssumption, IInv, [Next]_vars
  PROVE  QueueInv'
  <1>0. TypeOK /\ KindInv /\ NumberInv /\ WalkInv /\ QueueInv
    BY DEF IInv
  <1>q1. Taken >= 0
    BY <1>0 DEF QueueInv
  <1>q2. \A k \in 1 .. Queued : channel[k] = accepted[Taken + k]
    BY Zenon, <1>0 DEF QueueInv
  <1>q3. /\ HasEnd => main = "join"
         /\ pc[Run] = "ended" => channel = <<>> /\ main \in {"join", "destroyed"}
         /\ main = "destroyed" => ~async \/ pc[Run] = "ended"
    BY Zenon, <1>0 DEF QueueInv
  <1>q4. pc[Run] \in Active => Taken >= 1 /\ msg[Run] = accepted[Taken]
    BY Zenon, <1>0 DEF QueueInv
  <1>q5. \A k \in 1 .. Taken : (pc[Run] \in Active /\ k = Taken) \/ accepted[k] \in written
    BY Zenon, <1>0 DEF QueueInv
  <1>q6. \A p, q \in 1 .. Len(accepted) : p <= q => accepted[q] \notin before[accepted[p]]
    BY Zenon, <1>0 DEF QueueInv
  <1>q7. async => \A h \in Handlers : \A k \in 1 .. Len(out[h]) :
           \E j \in 1 .. Taken : out[h][k] = accepted[j]
    BY Zenon, <1>0 DEF QueueInv
  <1>n. /\ Len(channel) \in Nat /\ Len(accepted) \in Nat /\ Queued \in Nat /\ Taken \in Nat
        /\ Taken + Queued = Len(accepted)
        /\ HasEnd => Len(channel) = Queued + 1 /\ channel[Queued + 1] = EndMsg
        /\ ~HasEnd => Len(channel) = Queued
    BY <1>0, <1>q1, QueueNumbers
  <1>t. channel \in Seq(Msgs \cup {EndMsg}) /\ accepted \in Seq(Msgs) /\ EndMsg \notin Msgs
    BY <1>0 DEF TypeOK, Msgs, EndMsg
  <1>r. Run \in Threads /\ Run \notin Loggers /\ Loggers \subseteq Threads
    BY DEF Threads, LoggerAssumption
  <1>a. \* the channel is left alone
        ASSUME UNCHANGED <<channel, accepted, msg[Run], async, main>>,
               pc'[Run] \in Active <=> pc[Run] \in Active,
               pc'[Run] = "ended" <=> pc[Run] = "ended",
               written \subseteq written',
               \A m \in 1 .. calls : before'[m] = before[m],
               async => \A h \in Handlers : \A k \in 1 .. Len(out'[h]) :
                 \/ k \in 1 .. Len(out[h]) /\ out'[h][k] = out[h][k]
                 \/ pc[Run] \in Active /\ out'[h][k] = msg[Run]
        PROVE  QueueInv'
    <2>1. HasEnd' = HasEnd /\ Queued' = Queued /\ Taken' = Taken
      BY <1>a DEF HasEnd, Queued, Taken
    <2>2. Taken' >= 0 /\ \A k \in 1 .. Queued' : channel'[k] = accepted'[Taken' + k]
      BY <1>q1, <1>q2, <1>a, <2>1
    <2>3. /\ HasEnd' => main' = "join"
          /\ pc'[Run] = "ended" => channel' = <<>> /\ main' \in {"join", "destroyed"}
          /\ main' = "destroyed" => ~async' \/ pc'[Run] = "ended"
      BY Zenon, <1>q3, <1>a, <2>1
    <2>4. pc'[Run] \in Active => Taken' >= 1 /\ msg'[Run] = accepted'[Taken']
      BY Zenon, <1>q4, <1>a, <2>1
    <2>5. \A k \in 1 .. Taken' : (pc'[Run] \in Active /\ k = Taken') \/ accepted'[k] \in written'
      BY Zenon, <1>q5, <1>a, <2>1
    <2>6. \A p, q \in 1 .. Len(accepted') : p <= q => accepted'[q] \notin before'[accepted'[p]]
      BY Zenon, <1>0, <1>q6, <1>a DEF NumberInv
    <2>7. async' => \A h \in Handlers : \A k \in 1 .. Len(out'[h]) :
            \E j \in 1 .. Taken' : out'[h][k] = accepted'[j]
      <3>1. pc[Run] \in Active => Taken \in 1 .. Taken /\ msg[Run] = accepted[Taken]
        BY <1>n, <1>q4
      <3>2. ASSUME async, NEW h \in Handlers, NEW k \in 1 .. Len(out'[h])
            PROVE  \E j \in 1 .. Taken : out'[h][k] = accepted[j]
        <4>1. CASE k \in 1 .. Len(out[h]) /\ out'[h][k] = out[h][k]
          BY Zenon, <1>q7, <3>2, <4>1
        <4>2. CASE pc[Run] \in Active /\ out'[h][k] = msg[Run]
          BY Zenon, <3>1, <4>2
        <4> QED
          BY Zenon, <1>a, <3>2, <4>1, <4>2
      <3> QED
        BY Zenon, <1>a, <2>1, <3>2
    <2> QED
      BY Zenon, <2>2, <2>3, <2>4, <2>5, <2>6, <2>7 DEF QueueInv
  <1>1. ASSUME NEW h \in Handlers, NEW way \in Setup, AddHandler(h, way)
        PROVE  QueueInv'
    BY Zenon, <1>1, <1>a DEF AddHandler, locals, history
  <1>2. ASSUME NEW x \in Loggers, NEW l \in Levels, LogCall(x, l)
        PROVE  QueueInv'
    <2>1. pc'[Run] = pc[Run] /\ msg'[Run] = msg[Run]
      BY Zenon, <1>0, <1>2, <1>r DEF LogCall, Goto, TypeOK
    <2>2. \A m \in 1 .. calls : before'[m] = before[m]
      <3>1. calls + 1 \notin 1 .. calls /\ 1 .. calls \subseteq Msgs
        BY <1>0, LoggedAreMsgs
      <3> QED
        BY Zenon, <1>0, <1>2, <3>1 DEF LogCall, TypeOK
    <2> QED
      BY Zenon, <1>2, <1>a, <2>1, <2>2 DEF LogCall, logger
  <1>3. ASSUME NEW x \in Loggers, Make(x) \/ Alloc(x) \/ Lock(x) \/ SyncReturn(x)
        PROVE  QueueInv'
    <2>1. pc'[Run] = pc[Run]
      BY Zenon, <1>0, <1>3, <1>r DEF Make, Alloc, Lock, SyncReturn, Goto, TypeOK
    <2>2. UNCHANGED <<channel, accepted, msg, async, main, before, out>>
      BY <1>3 DEF Make, Alloc, Lock, SyncReturn, logger, history
    <2>3. written \subseteq written'
      BY Zenon, <1>3 DEF Make, Alloc, Lock, SyncReturn, history
    <2> QED
      BY Zenon, <1>a, <2>1, <2>2, <2>3
  <1>4. ASSUME NEW x \in Threads, Handler(x) \/ Write(x) \/ Write2(x)
        PROVE  QueueInv'
    <2>1. pc'[Run] \in Active <=> pc[Run] \in Active
      BY Zenon, <1>0, <1>4, <1>r DEF Handler, Write, Write2, Goto, TypeOK, Active
    <2>2. pc'[Run] = "ended" <=> pc[Run] = "ended"
      BY Zenon, <1>0, <1>4, <1>r DEF Handler, Write, Write2, Goto, TypeOK
    <2>3. UNCHANGED <<channel, accepted, msg, async, main, before, written>>
      BY <1>4 DEF Handler, Write, Write2, logger, history
    <2>4. ASSUME async, NEW h \in Handlers, NEW k \in 1 .. Len(out'[h])
          PROVE  \/ k \in 1 .. Len(out[h]) /\ out'[h][k] = out[h][k]
                 \/ pc[Run] \in Active /\ out'[h][k] = msg[Run]
      <3>1. CASE Handler(x)
        BY Zenon, <2>4, <3>1 DEF Handler
      <3>2. CASE Write(x) \/ Write2(x)
        <4>1. pc[x] \in Active
          BY <3>2 DEF Write, Write2, Active
        <4>2. x = Run
          BY Zenon, <1>0, <2>4, <4>1, WhoSteps
        <4>3. At(x) \in Handlers /\ msg[x] \in Msgs
          BY <1>0, <3>2, <4>1, AtHandler DEF WalkInv, Write, Write2, Active
        <4>4. out'[h] = IF h = At(x) THEN Append(out[h], msg[x]) ELSE out[h]
          BY Zenon, <1>0, <3>2, <4>3 DEF Write, Write2, TypeOK
        <4>5. out[h] \in Seq(Msgs)
          BY Zenon, <1>0 DEF TypeOK
        <4>6. (k \in 1 .. Len(out[h]) /\ out'[h][k] = out[h][k]) \/ out'[h][k] = msg[x]
          BY <2>4, <4>3, <4>4, <4>5
        <4> QED
          BY Zenon, <4>1, <4>2, <4>6
      <3> QED
        BY Zenon, <1>4, <3>1, <3>2
    <2> QED
      BY Zenon, <1>a, <2>1, <2>2, <2>3, <2>4
  <1>5. ASSUME NEW x \in Loggers, async, Send(x)
        PROVE  QueueInv'
    <2>1. pc'[Run] = pc[Run]
      BY Zenon, <1>0, <1>5, <1>r DEF Send, Goto, TypeOK
    <2>2. UNCHANGED <<msg, async, main, before, out, written>>
      BY <1>5 DEF Send, logger
    <2>3. CASE UNCHANGED <<channel, accepted>>
      BY Zenon, <1>a, <2>1, <2>2, <2>3
    <2>4. CASE channel' = Append(channel, msg[x]) /\ accepted' = Append(accepted, msg[x])
      <3>1. msg[x] \in Msgs /\ msg[x] # EndMsg /\ msg[x] \notin returned
        BY Zenon, <1>0, <1>5, <1>t, LoggedAreMsgs DEF Send, NumberInv
      <3>2. ~HasEnd
        BY Zenon, <1>0, <1>5, <1>q3 DEF Send, NumberInv
      <3>3. /\ Len(channel') = Len(channel) + 1 /\ Len(accepted') = Len(accepted) + 1
            /\ channel'[Len(channel) + 1] = msg[x] /\ accepted'[Len(accepted) + 1] = msg[x]
            /\ \A k \in 1 .. Len(channel) : channel'[k] = channel[k]
            /\ \A k \in 1 .. Len(accepted) : accepted'[k] = accepted[k]
        <4>1. msg[x] \in Msgs \cup {EndMsg}
          BY <3>1
        <4> QED
          BY <1>t, <2>4, <3>1, <4>1, RangeAppend
      <3>4. ~HasEnd'
        BY <1>n, <3>1, <3>3 DEF HasEnd
      <3>5. Queued' = Queued + 1 /\ Taken' = Taken
        <4>1. Queued' = Len(channel') /\ Queued = Len(channel)
          BY Zenon, <3>2, <3>4 DEF Queued
        <4>2. Taken' = Len(accepted') - Queued' /\ Taken = Len(accepted) - Queued
          BY DEF Taken
        <4> QED
          BY <1>n, <3>3, <4>1, <4>2
      <3>6. \A k \in 1 .. Queued' : channel'[k] = accepted'[Taken' + k]
        <4>1. ASSUME NEW k \in 1 .. Queued
              PROVE  channel'[k] = accepted'[Taken + k]
          <5>1. k \in 1 .. Len(channel) /\ Taken + k \in 1 .. Len(accepted)
            BY <1>n, <3>2
          <5> QED
            BY Zenon, <1>q2, <3>3, <5>1
        <4>2. channel'[Queued + 1] = accepted'[Taken + (Queued + 1)]
          BY <1>n, <3>2, <3>3
        <4>3. \A k \in 1 .. Queued' : k \in 1 .. Queued \/ k = Queued + 1
          BY <1>n, <3>5
        <4> QED
          BY Zenon, <3>5, <4>1, <4>2, <4>3
      <3>7. pc'[Run] \in Active => Taken' >= 1 /\ msg'[Run] = accepted'[Taken']
        <4>1. pc[Run] \in Active => Taken \in 1 .. Len(accepted)
          BY <1>n, <1>q4
        <4> QED
          BY Zenon, <1>q4, <2>1, <2>2, <3>3, <3>5, <4>1
      <3>8. \A k \in 1 .. Taken' : (pc'[Run] \in Active /\ k = Taken') \/ accepted'[k] \in written'
        <4>1. \A k \in 1 .. Taken : k \in 1 .. Len(accepted)
          BY <1>n
        <4> QED
          BY Zenon, <1>q5, <2>1, <2>2, <3>3, <3>5, <4>1
      <3>9. \A p, q \in 1 .. Len(accepted') : p <= q => accepted'[q] \notin before'[accepted'[p]]
        <4>1. \A p \in 1 .. Len(accepted') : accepted'[p] \in Msgs
          BY <1>t, <1>n, <3>1, <3>3
        <4>2. \A p \in 1 .. Len(accepted') : msg[x] \notin before[accepted'[p]]
          BY Zenon, <1>0, <3>1, <4>1 DEF NumberInv
        <4>3. \A p \in 1 .. Len(accepted') :
                \/ p \in 1 .. Len(accepted)
                \/ p = Len(accepted) + 1 /\ \A q \in 1 .. Len(accepted) : ~ (p <= q)
          BY <1>n, <3>3
        <4> QED
          BY Zenon, <1>q6, <2>2, <3>3, <4>2, <4>3
      <3>10. \A h \in Handlers : \A k \in 1 .. Len(out'[h]) :
               \E j \in 1 .. Taken' : out'[h][k] = accepted'[j]
        <4>1. \A k \in 1 .. Taken : k \in 1 .. Len(accepted)
          BY <1>n
        <4>2. out' = out /\ Taken' = Taken
          BY <2>2, <3>5
        <4>3. ASSUME NEW h \in Handlers, NEW k \in 1 .. Len(out'[h])
              PROVE  \E j \in 1 .. Taken' : out'[h][k] = accepted'[j]
          <5>1. k \in 1 .. Len(out[h]) /\ out'[h][k] = out[h][k]
            BY <4>2, <4>3
          <5>2. PICK j \in 1 .. Taken : out[h][k] = accepted[j]
            BY Zenon, <1>5, <1>q7, <5>1
          <5>3. j \in 1 .. Taken' /\ out'[h][k] = accepted'[j]
            BY Zenon, <3>3, <4>1, <4>2, <5>1, <5>2
          <5> QED
            BY Zenon, <5>3
        <4> QED
          BY <4>3
      <3>11. /\ HasEnd' => main' = "join"
             /\ pc'[Run] = "ended" => channel' = <<>> /\ main' \in {"join", "destroyed"}
             /\ main' = "destroyed" => ~async' \/ pc'[Run] = "ended"
        BY Zenon, <1>0, <1>5, <1>q3, <2>1, <2>2, <3>4 DEF Send, NumberInv
      <3>12. Taken' >= 0
        BY <1>n, <3>5
      <3> QED
        BY Zenon, <3>6, <3>7, <3>8, <3>9, <3>10, <3>11, <3>12 DEF QueueInv
    <2> QED
      BY Zenon, <1>5, <2>3, <2>4 DEF Send
  <1>6. CASE ReadMsg
    <2>1. UNCHANGED <<async, main, before, out, written, accepted>> /\ channel # <<>>
          /\ channel' = Tail(channel)
      BY <1>6 DEF ReadMsg, logger, history
    <2>2. /\ pc'[Run] = IF Head(channel) = EndMsg THEN "ended" ELSE "handler"
          /\ msg'[Run] = Head(channel) /\ pc[Run] = "read"
      BY Zenon, <1>0, <1>6, <1>r DEF ReadMsg, Goto, TypeOK
    <2>3. \A k \in 1 .. Taken : accepted[k] \in written
      BY Zenon, <1>q5, <2>2 DEF Active
    <2>4. /\ Len(channel) >= 1 /\ Len(channel') = Len(channel) - 1
          /\ \A k \in 1 .. Len(channel') : channel'[k] = channel[k + 1]
          /\ Head(channel) = channel[1] /\ (Len(channel') = 0 <=> channel' = <<>>)
      <3> DEFINE E == Msgs \cup {EndMsg}
      <3>1. channel \in Seq(E) /\ channel # <<>>
        BY <1>t, <2>1
      <3> HIDE DEF E
      <3>2. channel' \in Seq(E) /\ Len(channel) >= 1 /\ Len(channel') = Len(channel) - 1
        BY <2>1, <3>1
      <3>3. \A k \in 1 .. Len(channel') : channel'[k] = channel[k + 1]
        BY <2>1, <3>1, <3>2
      <3>4. Head(channel) = channel[1] /\ (Len(channel') = 0 <=> channel' = <<>>)
        BY <3>1, <3>2
      <3> QED
        BY Zenon, <3>2, <3>3, <3>4
    <2>5. main' = "destroyed" => ~async' \/ pc'[Run] = "ended"
      BY Zenon, <1>6, <1>q3, <2>1, <2>2 DEF ReadMsg
    <2>6. CASE Head(channel) = EndMsg
      <3>1. Queued = 0
        <4>1. Queued >= 1 => 1 \in 1 .. Queued /\ Taken + 1 \in 1 .. Len(accepted)
          BY <1>n
        <4>2. Queued >= 1 => channel[1] \in Msgs
          BY <1>q2, <1>t, <4>1
        <4> QED
          BY <1>n, <1>t, <2>4, <2>6, <4>2
      <3>2. HasEnd /\ Len(channel) = 1 /\ channel' = <<>>
        BY <1>n, <2>4, <3>1
      <3>3. ~HasEnd' /\ Queued' = 0 /\ Taken' = Taken
        BY Zenon, <1>n, <2>1, <3>1, <3>2 DEF HasEnd, Queued, Taken
      <3>4. pc'[Run] = "ended" /\ main = "join"
        BY Zenon, <1>q3, <2>2, <2>6, <3>2
      <3>5. Taken' >= 0 /\ \A k \in 1 .. Queued' : channel'[k] = accepted'[Taken' + k]
        BY <1>q1, <3>3
      <3> QED
        BY Zenon, <1>q6, <1>q7, <2>1, <2>3, <2>5, <3>2, <3>3, <3>4, <3>5
           DEF QueueInv, Active
    <2>7. CASE Head(channel) # EndMsg
      <3>1. Queued >= 1 /\ Taken + 1 \in 1 .. Len(accepted) /\ Head(channel) = accepted[Taken + 1]
        BY Zenon, <1>0, <2>1, <2>7, HeadAccepted
      <3>2. HasEnd' <=> HasEnd
        <4>1. CASE Len(channel) = 1
          BY <1>n, <2>4, <2>7, <3>1, <4>1 DEF HasEnd
        <4>2. CASE Len(channel) > 1
          <5>1. Len(channel') \in 1 .. Len(channel') /\ Len(channel') + 1 = Len(channel)
            BY <1>n, <2>4, <4>2
          <5>2. channel'[Len(channel')] = channel[Len(channel)]
            BY <2>4, <5>1
          <5>3. channel' # <<>> /\ channel # <<>>
            BY <2>1, <2>4, <5>1
          <5> QED
            BY Zenon, <5>2, <5>3 DEF HasEnd
        <4> QED
          BY <1>n, <2>4, <4>1, <4>2
      <3>3. Queued' = Queued - 1 /\ Taken' = Taken + 1
        <4>1. Queued' - Len(channel') = Queued - Len(channel)
          BY <1>n, <2>4, <3>2 DEF Queued
        <4>2. Taken' = Len(accepted') - Queued' /\ Taken = Len(accepted) - Queued
          BY DEF Taken
        <4>3. Queued' \in Int
          BY <1>n, <2>4 DEF Queued
        <4>4. /\ Len(channel) \in Nat /\ Len(channel') = Len(channel) - 1 /\ Queued \in Nat
              /\ Len(accepted) \in Nat /\ Len(accepted') = Len(accepted)
          BY Zenon, <1>n, <2>1, <2>4
        <4>5. Queued' = Queued - 1
          BY <4>1, <4>3, <4>4
        <4> QED
          BY <4>2, <4>4, <4>5
      <3>4. \A k \in 1 .. Queued' : channel'[k] = accepted'[Taken' + k]
        <4>1. ASSUME NEW k \in 1 .. Queued'
              PROVE  channel'[k] = accepted'[Taken' + k]
          <5>1. k + 1 \in 1 .. Queued /\ k \in 1 .. Len(channel') /\ Taken + (k + 1) = Taken' + k
            BY <1>n, <2>4, <3>3
          <5> QED
            BY Zenon, <1>q2, <2>1, <2>4, <5>1
        <4> QED
          BY <4>1
      <3>5. pc'[Run] = "handler" /\ pc'[Run] \in Active /\ pc'[Run] # "ended"
        BY <2>2, <2>7 DEF Active
      <3>6. Taken' >= 1 /\ msg'[Run] = accepted'[Taken'] /\ Taken' >= 0
        BY <1>n, <2>1, <2>2, <3>1, <3>3
      <3>7. \A k \in 1 .. Taken' : k = Taken' \/ accepted'[k] \in written'
        <4>1. \A k \in 1 .. Taken' : k = Taken' \/ k \in 1 .. Taken
          BY <1>n, <3>3
        <4> QED
          BY Zenon, <2>1, <2>3, <4>1
      <3>8. async' => \A h \in Handlers : \A k \in 1 .. Len(out'[h]) :
              \E j \in 1 .. Taken' : out'[h][k] = accepted'[j]
        <4>1. \A j \in 1 .. Taken : j \in 1 .. Taken'
          BY <1>n, <3>3
        <4>2. ASSUME async, NEW h \in Handlers, NEW k \in 1 .. Len(out[h])
              PROVE  \E j \in 1 .. Taken' : out[h][k] = accepted[j]
          BY Zenon, <1>q7, <4>1, <4>2
        <4>3. async' = async /\ out' = out /\ accepted' = accepted
          BY <2>1
        <4> QED
          BY Zenon, <4>2, <4>3
      <3> QED
        BY Zenon, <1>q3, <1>q6, <2>1, <2>5, <3>2, <3>4, <3>5, <3>6, <3>7, <3>8 DEF QueueInv
    <2> QED
      BY Zenon, <2>6, <2>7
  <1>7. CASE FreeMsg
    <2>1. UNCHANGED <<async, main, before, out, accepted, channel, msg>>
          /\ written' = written \cup {msg[Run]}
      BY <1>7 DEF FreeMsg, logger
    <2>2. pc'[Run] = "read" /\ pc[Run] = "handler"
      BY Zenon, <1>0, <1>7, <1>r DEF FreeMsg, Goto, TypeOK
    <2>3. HasEnd' = HasEnd /\ Queued' = Queued /\ Taken' = Taken
      BY <2>1 DEF HasEnd, Queued, Taken
    <2>4. \A k \in 1 .. Taken : accepted[k] \in written'
      BY Zenon, <1>q4, <1>q5, <2>1, <2>2 DEF Active
    <2>5. Taken' >= 0 /\ \A k \in 1 .. Queued' : channel'[k] = accepted'[Taken' + k]
      BY <1>q1, <1>q2, <2>1, <2>3
    <2>6. main' = "destroyed" => ~async' \/ pc'[Run] = "ended"
      BY Zenon, <1>q3, <2>1, <2>2
    <2> QED
      BY Zenon, <1>q3, <1>q6, <1>q7, <2>1, <2>2, <2>3, <2>4, <2>5, <2>6 DEF QueueInv, Active
  <1>8. CASE Destroy
    <2>1. UNCHANGED <<async, before, out, accepted, msg, pc, written>> /\ main = "started"
          /\ main' = IF async THEN "join" ELSE "destroyed"
      BY <1>8 DEF Destroy, logger, locals, history
    <2>2. ~HasEnd
      BY Zenon, <1>q3, <2>1
    <2>3. /\ Taken' = Taken /\ Queued' = Queued
          /\ \A k \in 1 .. Queued : channel'[k] = channel[k]
          /\ HasEnd' => async
      <3>1. CASE UNCHANGED channel
        BY <2>1, <2>2, <3>1 DEF HasEnd, Queued, Taken
      <3>2. CASE async /\ channel' = Append(channel, EndMsg)
        <4>1. /\ Len(channel') = Len(channel) + 1 /\ channel'[Len(channel) + 1] = EndMsg
              /\ \A k \in 1 .. Len(channel) : channel'[k] = channel[k]
          <5>1. EndMsg \in Msgs \cup {EndMsg}
            OBVIOUS
          <5> QED
            BY <1>t, <3>2, <5>1, RangeAppend
        <4>2. HasEnd'
          BY <1>n, <4>1 DEF HasEnd
        <4> QED
          <5>1. Queued' = Len(channel') - 1 /\ Queued = Len(channel)
            BY Zenon, <2>2, <4>2 DEF Queued
          <5>2. Taken' = Len(accepted') - Queued' /\ Taken = Len(accepted) - Queued
            BY DEF Taken
          <5> QED
            BY <1>n, <2>1, <3>2, <4>1, <5>1, <5>2
      <3> QED
        BY Zenon, <1>8, <3>1, <3>2 DEF Destroy
    <2>4. Taken' >= 0 /\ \A k \in 1 .. Queued' : channel'[k] = accepted'[Taken' + k]
      BY <1>q1, <1>q2, <2>1, <2>3
    <2>5. pc[Run] # "ended"
      BY Zenon, <1>q3, <2>1
    <2> QED
      BY Zenon, <1>q4, <1>q5, <1>q6, <1>q7, <2>1, <2>3, <2>4, <2>5 DEF QueueInv
  <1>9. CASE Join
    <2>1. UNCHANGED <<async, before, out, accepted, channel, msg, pc, written>> /\ main = "join"
          /\ main' = "destroyed" /\ pc[Run] = "ended"
      BY <1>9 DEF Join, logger, locals, history
    <2>2. HasEnd' = HasEnd /\ Queued' = Queued /\ Taken' = Taken
      BY <2>1 DEF HasEnd, Queued, Taken
    <2>3. ~HasEnd /\ channel = <<>>
      BY Zenon, <1>q3, <2>1 DEF HasEnd
    <2>4. Taken' >= 0 /\ \A k \in 1 .. Queued' : channel'[k] = accepted'[Taken' + k]
      BY <1>q1, <1>q2, <2>1, <2>2
    <2> QED
      BY Zenon, <1>q4, <1>q5, <1>q6, <1>q7, <2>1, <2>2, <2>3, <2>4 DEF QueueInv
  <1>10. CASE Start
    <2>1. UNCHANGED <<async, before, out, accepted, channel, msg, pc, written>> /\ main = "setup"
          /\ main' = "started"
      BY <1>10 DEF Start, logger, locals, history
    <2>2. HasEnd' = HasEnd /\ Queued' = Queued /\ Taken' = Taken
      BY <2>1 DEF HasEnd, Queued, Taken
    <2>3. ~HasEnd /\ pc[Run] # "ended"
      BY Zenon, <1>q3, <2>1
    <2>4. Taken' >= 0 /\ \A k \in 1 .. Queued' : channel'[k] = accepted'[Taken' + k]
      BY <1>q1, <1>q2, <2>1, <2>2
    <2> QED
      BY Zenon, <1>q4, <1>q5, <1>q6, <1>q7, <2>1, <2>2, <2>3, <2>4 DEF QueueInv
  <1>11. CASE UNCHANGED vars
    BY Zenon, <1>11, <1>a DEF vars, logger, locals, history
  <1> QED
    BY Zenon, <1>0, <1>1, <1>2, <1>3, <1>4, <1>5, <1>6, <1>7, <1>8, <1>9, <1>10, <1>11,
       Steps, WhoSteps

-----------------------------------------------------------------------------
(* What is allocated, what is written, and in which order.                 *)

\* Every step keeps an owner for each message that is allocated.
LEMMA HeapStep ==
  ASSUME LoggerAssumption, IInv, [Next]_vars
  PROVE  HeapInv'
  <1>0. TypeOK /\ KindInv /\ NumberInv /\ WalkInv /\ QueueInv
    BY DEF IInv
  <1>h. \A m \in heap : Held(m)
    BY Zenon DEF IInv, HeapInv
  <1>t. channel \in Seq(Msgs \cup {EndMsg}) /\ EndMsg \notin Msgs /\ Len(channel) \in Nat
    BY <1>0 DEF TypeOK, Msgs, EndMsg
  <1>r. Run \in Threads /\ Run \notin Loggers /\ Loggers \subseteq Threads
    BY DEF Threads, LoggerAssumption
  <1>a. \* a message stays where it is
        ASSUME heap' \subseteq heap, dropped \subseteq dropped',
               \A k \in 1 .. Len(channel) :
                 k \in 1 .. Len(channel') /\ channel'[k] = channel[k],
               pc[Run] \in Active /\ msg[Run] \in heap' =>
                 pc'[Run] \in Active /\ msg'[Run] = msg[Run],
               \A x \in Loggers : pc[x] = "send" => pc'[x] = "send" /\ msg'[x] = msg[x]
        PROVE  HeapInv'
    <2>1. ASSUME NEW m \in heap'
          PROVE  Held(m)'
      <3>1. Held(m)
        BY Zenon, <1>h, <1>a
      <3>2. CASE m \in dropped
        BY Zenon, <1>a, <3>2 DEF Held
      <3>3. CASE \E k \in 1 .. Len(channel) : channel[k] = m
        BY Zenon, <1>a, <3>3 DEF Held
      <3>4. CASE pc[Run] \in Active /\ msg[Run] = m
        BY Zenon, <1>a, <3>4 DEF Held
      <3>5. CASE \E x \in Loggers : pc[x] = "send" /\ msg[x] = m
        BY Zenon, <1>a, <3>5 DEF Held
      <3> QED
        BY Zenon, <3>1, <3>2, <3>3, <3>4, <3>5 DEF Held
    <2> QED
      BY Zenon, <2>1 DEF HeapInv
  <1>1. ASSUME NEW h \in Handlers, NEW way \in Setup, AddHandler(h, way)
        PROVE  HeapInv'
    BY Zenon, <1>1, <1>a DEF AddHandler, locals, history
  <1>2. ASSUME NEW x \in Loggers, NEW l \in Levels, LogCall(x, l)
        PROVE  HeapInv'
    <2>1. \A y \in Threads : y # x => pc'[y] = pc[y] /\ msg'[y] = msg[y]
      BY Zenon, <1>0, <1>2, <1>r DEF LogCall, Goto, TypeOK
    <2> QED
      BY Zenon, <1>2, <1>a, <1>r, <2>1 DEF LogCall
  <1>3. ASSUME NEW x \in Loggers, Make(x) \/ Lock(x) \/ SyncReturn(x)
        PROVE  HeapInv'
    <2>1. \A y \in Threads : y # x => pc'[y] = pc[y]
      BY Zenon, <1>0, <1>3, <1>r DEF Make, Lock, SyncReturn, Goto, TypeOK
    <2>2. UNCHANGED <<heap, dropped, channel, msg>> /\ pc[x] # "send"
      BY <1>3 DEF Make, Lock, SyncReturn, history
    <2> QED
      BY Zenon, <1>a, <1>r, <2>1, <2>2
  <1>4. ASSUME NEW x \in Threads, Handler(x) \/ Write(x) \/ Write2(x)
        PROVE  HeapInv'
    <2>1. \A y \in Threads : y # x => pc'[y] = pc[y]
      BY Zenon, <1>0, <1>4 DEF Handler, Write, Write2, Goto, TypeOK
    <2>2. UNCHANGED <<heap, dropped, channel, msg>> /\ pc[x] # "send"
      BY <1>4 DEF Handler, Write, Write2, history
    <2>3. pc'[x] \in Active
      BY Zenon, <1>0, <1>4 DEF Handler, Write, Write2, Goto, TypeOK, Active
    <2> QED
      BY Zenon, <1>a, <1>r, <2>1, <2>2, <2>3
  <1>5. ASSUME NEW x \in Loggers, Alloc(x)
        PROVE  HeapInv'
    <2>1. /\ pc[x] = "alloc" /\ UNCHANGED <<channel, msg>> /\ dropped \subseteq dropped'
          /\ \A y \in Threads : y # x => pc'[y] = pc[y]
          /\ heap' = heap \/ (heap' = heap \cup {msg[x]} /\ pc'[x] = "send")
      BY Zenon, <1>0, <1>5, <1>r DEF Alloc, Goto, TypeOK
    <2>2. ASSUME NEW m \in heap
          PROVE  Held(m)'
      <3>1. CASE m \in dropped
        BY Zenon, <2>1, <3>1 DEF Held
      <3>2. CASE \E k \in 1 .. Len(channel) : channel[k] = m
        BY Zenon, <2>1, <3>2 DEF Held
      <3>3. CASE pc[Run] \in Active /\ msg[Run] = m
        BY Zenon, <1>r, <2>1, <3>3 DEF Held
      <3>4. CASE \E y \in Loggers : pc[y] = "send" /\ msg[y] = m
        <4>1. PICK y \in Loggers : pc[y] = "send" /\ msg[y] = m
          BY <3>4
        <4>2. pc'[y] = "send" /\ msg'[y] = m
          BY Zenon, <1>r, <2>1, <4>1
        <4> QED
          BY Zenon, <4>2 DEF Held
      <3> QED
        BY Zenon, <1>h, <3>1, <3>2, <3>3, <3>4 DEF Held
    <2>3. msg[x] \in heap' /\ pc'[x] = "send" => Held(msg[x])'
      BY Zenon, <2>1 DEF Held
    <2> QED
      BY Zenon, <2>1, <2>2, <2>3 DEF HeapInv
  <1>6. ASSUME NEW x \in Loggers, Send(x)
        PROVE  HeapInv'
    <2>1. /\ UNCHANGED <<heap, msg>> /\ dropped \subseteq dropped'
          /\ \A y \in Threads : y # x => pc'[y] = pc[y]
          /\ \/ channel' = Append(channel, msg[x])
             \/ UNCHANGED channel /\ msg[x] \in dropped'
      BY Zenon, <1>0, <1>6, <1>r DEF Send, Goto, TypeOK
    <2>2. \A k \in 1 .. Len(channel) : k \in 1 .. Len(channel') /\ channel'[k] = channel[k]
      BY <1>t, <2>1
    <2>3. msg[x] \in dropped' \/ \E k \in 1 .. Len(channel') : channel'[k] = msg[x]
      <3>1. CASE channel' = Append(channel, msg[x])
        <4>1. Len(channel) + 1 \in 1 .. Len(channel') /\ channel'[Len(channel) + 1] = msg[x]
          BY <1>t, <3>1
        <4> QED
          BY Zenon, <4>1
      <3> QED
        BY Zenon, <2>1, <3>1
    <2>4. ASSUME NEW m \in heap
          PROVE  Held(m)'
      <3>1. CASE m \in dropped
        BY Zenon, <2>1, <3>1 DEF Held
      <3>2. CASE \E k \in 1 .. Len(channel) : channel[k] = m
        BY Zenon, <2>2, <3>2 DEF Held
      <3>3. CASE pc[Run] \in Active /\ msg[Run] = m
        BY Zenon, <1>r, <2>1, <3>3 DEF Held
      <3>4. CASE \E y \in Loggers : pc[y] = "send" /\ msg[y] = m
        <4>1. PICK y \in Loggers : pc[y] = "send" /\ msg[y] = m
          BY <3>4
        <4>2. CASE y = x
          BY Zenon, <2>3, <4>1, <4>2 DEF Held
        <4>3. CASE y # x
          <5>1. pc'[y] = "send" /\ msg'[y] = m
            BY Zenon, <1>r, <2>1, <4>1, <4>3
          <5> QED
            BY Zenon, <5>1 DEF Held
        <4> QED
          BY Zenon, <4>2, <4>3
      <3> QED
        BY Zenon, <1>h, <3>1, <3>2, <3>3, <3>4 DEF Held
    <2> QED
      BY Zenon, <2>1, <2>4 DEF HeapInv
  <1>7. CASE ReadMsg
    <2>1. /\ pc'[Run] = (IF Head(channel) = EndMsg THEN "ended" ELSE "handler")
          /\ msg'[Run] = Head(channel) /\ pc[Run] = "read" /\ UNCHANGED <<heap, dropped>>
          /\ channel' = Tail(channel) /\ channel # <<>>
          /\ \A y \in Loggers : pc'[y] = pc[y] /\ msg'[y] = msg[y]
      BY Zenon, <1>0, <1>7, <1>r DEF ReadMsg, Goto, TypeOK, history
    <2>2. /\ Head(channel) = channel[1]
          /\ \A k \in 1 .. Len(channel) :
               k = 1 \/ (k - 1 \in 1 .. Len(channel') /\ channel'[k - 1] = channel[k])
      <3> DEFINE E == Msgs \cup {EndMsg}
      <3>1. channel \in Seq(E)
        BY <1>t
      <3> HIDE DEF E
      <3> QED
        BY <2>1, <3>1
    <2>3. ASSUME NEW m \in heap, NEW k \in 1 .. Len(channel), channel[k] = m
          PROVE  \/ \E j \in 1 .. Len(channel') : channel'[j] = m
                 \/ pc'[Run] \in Active /\ msg'[Run] = m
      <3>1. m # EndMsg
        BY <1>0, <1>t DEF TypeOK
      <3>2. CASE k = 1
        BY Zenon, <2>1, <2>2, <2>3, <3>1, <3>2 DEF Active
      <3>3. CASE k # 1
        BY Zenon, <2>2, <2>3, <3>3
      <3> QED
        BY Zenon, <3>2, <3>3
    <2>4. ASSUME NEW m \in heap
          PROVE  Held(m)'
      <3>1. CASE m \in dropped
        BY Zenon, <2>1, <3>1 DEF Held
      <3>2. CASE \E k \in 1 .. Len(channel) : channel[k] = m
        BY Zenon, <2>3, <3>2 DEF Held
      <3>3. pc[Run] \notin Active
        BY Zenon, <2>1 DEF Active
      <3>4. CASE \E y \in Loggers : pc[y] = "send" /\ msg[y] = m
        BY Zenon, <2>1, <3>4 DEF Held
      <3> QED
        BY Zenon, <1>h, <3>1, <3>2, <3>3, <3>4 DEF Held
    <2> QED
      BY Zenon, <2>1, <2>4 DEF HeapInv
  <1>8. CASE FreeMsg
    <2>1. /\ UNCHANGED <<channel, msg, dropped>> /\ heap' = heap \ {msg[Run]}
          /\ \A y \in Loggers : pc'[y] = pc[y]
      BY Zenon, <1>0, <1>8, <1>r DEF FreeMsg, Goto, TypeOK
    <2> QED
      BY Zenon, <1>a, <2>1
  <1>9. CASE Destroy
    <2>1. /\ UNCHANGED <<heap, dropped, pc, msg>>
          /\ channel' = channel \/ channel' = Append(channel, EndMsg)
      BY <1>9 DEF Destroy, locals, history
    <2>2. \A k \in 1 .. Len(channel) : k \in 1 .. Len(channel') /\ channel'[k] = channel[k]
      BY <1>t, <2>1
    <2> QED
      BY Zenon, <1>a, <2>1, <2>2
  <1>10. Start \/ Join \/ UNCHANGED vars => HeapInv'
    <2>1. Start \/ Join \/ UNCHANGED vars => UNCHANGED <<heap, dropped, pc, msg, channel>>
      BY DEF Start, Join, vars, locals, history
    <2> QED
      BY Zenon, <1>a, <2>1
  <1> QED
    BY Zenon, <1>0, <1>1, <1>2, <1>3, <1>4, <1>5, <1>6, <1>7, <1>8, <1>9, <1>10,
       Steps, WhoSteps

\* Every step keeps the order of the calls in every output.
LEMMA OrderStep ==
  ASSUME LoggerAssumption, IInv, [Next]_vars
  PROVE  OrderKept'
  <1>0. TypeOK /\ KindInv /\ NumberInv /\ WalkInv /\ QueueInv
    BY DEF IInv
  <1>o. \A h \in Handlers : \A k, n \in 1 .. Len(out[h]) :
          k < n => out[h][n] \notin before[out[h][k]]
    BY Zenon DEF IInv, OrderKept
  <1>1. ASSUME NEW x \in Loggers, NEW l \in Levels, LogCall(x, l)
        PROVE  OrderKept'
    <2>1. calls + 1 \notin 1 .. calls /\ 1 .. calls \subseteq Msgs
      BY <1>0, LoggedAreMsgs
    <2>2. \A m \in 1 .. calls : before'[m] = before[m]
      BY Zenon, <1>0, <1>1, <2>1 DEF LogCall, TypeOK
    <2>3. \A h \in Handlers : \A k \in 1 .. Len(out[h]) : out[h][k] \in 1 .. calls
      BY Zenon, <1>0 DEF NumberInv
    <2>4. out' = out
      BY <1>1 DEF LogCall
    <2> QED
      BY Zenon, <1>o, <2>2, <2>3, <2>4 DEF OrderKept
  <1>2. ASSUME NEW x \in Threads, Write(x) \/ Write2(x)
        PROVE  OrderKept'
    <2> DEFINE h == At(x)
    <2>1. pc[x] \in Active \ {"handler"}
      BY <1>2 DEF Write, Write2, Active
    <2>2. h \in Handlers /\ msg[x] \in Msgs /\ before' = before
      BY <1>0, <1>2, <2>1, AtHandler DEF WalkInv, Write, Write2, history
    <2>3. out'[h] = Append(out[h], msg[x]) /\ \A g \in Handlers : g # h => out'[g] = out[g]
      BY Zenon, <1>0, <1>2, <2>2 DEF Write, Write2, TypeOK
    <2>4. out[h] \in Seq(Msgs)
      BY Zenon, <1>0, <2>2 DEF TypeOK
    <2> HIDE DEF h
    <2>5. ASSUME NEW k \in 1 .. Len(out[h])
          PROVE  msg[x] \notin before[out[h][k]]
      <3>1. CASE async
        <4>1. x = Run
          BY Zenon, <1>0, <2>1, <3>1, WhoSteps
        <4>2. PICK j \in 1 .. Taken : out[h][k] = accepted[j]
          BY Zenon, <1>0, <2>2, <3>1 DEF QueueInv
        <4>3. Taken >= 0 /\ msg[x] = accepted[Taken]
          BY Zenon, <1>0, <2>1, <4>1 DEF QueueInv
        <4>4. Taken \in 1 .. Len(accepted) /\ j \in 1 .. Len(accepted) /\ j <= Taken
          BY <1>0, <4>2, <4>3, QueueNumbers
        <4> QED
          BY Zenon, <1>0, <4>2, <4>3, <4>4 DEF QueueInv
      <3>2. CASE ~async
        <4>1. x \in Loggers
          BY Zenon, <1>0, <2>1, <3>2, WhoSteps
        <4>2. msg[x] \notin returned
          BY Zenon, <1>0, <2>1, <4>1 DEF NumberInv, Active
        <4>3. out[h][k] \in Msgs
          BY <2>4
        <4> QED
          BY Zenon, <1>0, <4>2, <4>3 DEF NumberInv
      <3> QED
        BY Zenon, <3>1, <3>2
    <2>6. ASSUME NEW k \in 1 .. Len(out'[h]), NEW n \in 1 .. Len(out'[h]), k < n
          PROVE  out'[h][n] \notin before[out'[h][k]]
      <3>1. /\ k \in 1 .. Len(out[h]) /\ out'[h][k] = out[h][k]
            /\ (n \in 1 .. Len(out[h]) /\ out'[h][n] = out[h][n]) \/ out'[h][n] = msg[x]
        BY <2>2, <2>3, <2>4, <2>6
      <3> QED
        BY Zenon, <1>o, <2>2, <2>5, <2>6, <3>1
    <2> QED
      BY Zenon, <1>o, <2>2, <2>3, <2>6 DEF OrderKept
  <1>3. CASE UNCHANGED <<out, before>>
    BY Zenon, <1>o, <1>3 DEF OrderKept
  <1>4. \/ \E h \in Handlers, way \in Setup : AddHandler(h, way)
        \/ \E x \in Threads : \/ Make(x) \/ Alloc(x) \/ Send(x) \/ Handler(x) \/ Lock(x)
                              \/ SyncReturn(x)
        \/ Start \/ ReadMsg \/ FreeMsg \/ Destroy \/ Join
        \/ UNCHANGED vars
        => UNCHANGED <<out, before>>
    BY Zenon DEF AddHandler, Make, Alloc, Send, Handler, Lock, SyncReturn, Start, ReadMsg,
       FreeMsg, Destroy, Join, vars, history
  <1> QED
    BY Zenon, <1>1, <1>2, <1>3, <1>4, Steps

\* Every step keeps lowest_log_level at or below the levels of the handlers, and what a
\* handler has written to what its level asks for, when the levels are set first.
LEMMA LevelStep ==
  ASSUME LoggerAssumption, IInv, [Next]_vars
  PROVE  LevelInv'
  <1> DEFINE First == Setup \subseteq {"level_first"}
             Set == \A k \in 1 .. Len(handlers) :
                      /\ level[handlers[k]] = wanted[handlers[k]]
                      /\ lowest_log_level <= level[handlers[k]]
             Written == \A m \in written, h \in Handlers :
                          lvl[m] >= level[h] => m \in Range(out[h])
             \* GetsWanted, but for what was written by the run thread
             Only == \A h \in Handlers, m \in Msgs : m \in Range(out[h]) => lvl[m] >= wanted[h]
             All == \A h \in Handlers, m \in Msgs : m \in returned /\ lvl[m] >= wanted[h] =>
                      m \in Range(out[h]) \/ (async /\ m \in Range(accepted) \cup dropped)
  <1>0. TypeOK /\ KindInv /\ NumberInv /\ WalkInv /\ QueueInv
    BY DEF IInv
  <1>1. Written /\ (First => Set /\ Only /\ All)
    BY Zenon DEF IInv, LevelInv, GetsWanted
  <1>2. \A h \in Handlers : main # "setup" => \E k \in 1 .. Len(handlers) : handlers[k] = h
    <2>1. handlers \in Seq(Handlers) /\ (main # "setup" => Range(handlers) = Handlers)
      BY Zenon, <1>0 DEF NumberInv, TypeOK
    <2>2. \A h : h \in Range(handlers) <=> \E k \in 1 .. Len(handlers) : handlers[k] = h
      BY <2>1, RangeIs
    <2> QED
      BY Zenon, <2>1, <2>2
  <1>3. ASSUME Written', First => Set' /\ Only' /\ All', NumberInv'
        PROVE  LevelInv'
    <2>1. ASSUME First PROVE GetsWanted'
      <3>1. ASSUME NEW h \in Handlers, NEW m \in Msgs, m \in returned', lvl'[m] >= wanted'[h]
            PROVE  \/ m \in Range(out'[h])
                   \/ async' /\ m \in (Range(accepted') \ written') \cup dropped'
        <4>1. m \in written' => m \in Range(out'[h])
          <5>1. handlers' \in Seq(Handlers)
            BY TypeStep DEF TypeOK
          <5>2. main' # "setup"
            <6>1. main' = "setup" => calls' = 0
              BY Zenon, <1>3 DEF NumberInv
            <6>2. m \in 1 .. calls'
              BY Zenon, <1>3, <3>1 DEF NumberInv
            <6> QED
              BY <6>1, <6>2
          <5>3. h \in Range(handlers')
            BY Zenon, <1>3, <5>2 DEF NumberInv
          <5>4. PICK k \in 1 .. Len(handlers') : handlers'[k] = h
            BY Zenon, <5>1, <5>3, RangeIs
          <5>5. level'[h] = wanted'[h]
            BY Zenon, <1>3, <2>1, <5>4
          <5> QED
            BY Zenon, <1>3, <3>1, <5>5
        <4> QED
          BY Zenon, <1>3, <2>1, <3>1, <4>1
      <3> QED
        BY Zenon, <1>3, <2>1, <3>1 DEF GetsWanted
    <2> QED
      BY Zenon, <1>3, <2>1 DEF LevelInv
  <1>4. NumberInv'
    BY NumberStep
  <1>t. /\ lvl \in [Msgs -> Levels] /\ level \in [Handlers -> Levels]
        /\ wanted \in [Handlers -> Levels]
        /\ handlers \in Seq(Handlers) /\ lowest_log_level \in Levels /\ accepted \in Seq(Msgs)
        /\ out \in [Handlers -> Seq(Msgs)]
    BY <1>0 DEF TypeOK
  <1>i. \A l \in Levels : l \in Int
    BY DEF Levels
  <1>5. ASSUME NEW h \in Handlers, NEW way \in Setup, AddHandler(h, way)
        PROVE  LevelInv'
    <2>1. /\ UNCHANGED <<async, wanted, out, lvl, returned, dropped, accepted, written>>
          /\ main = "setup" /\ handlers' = Append(handlers, h)
          /\ lowest_log_level' = Min2(lowest_log_level, LevelWhenAdded(h, way))
          /\ level' = [level EXCEPT ![h] = IF way = "level_later" THEN wanted[h]
                                           ELSE LevelWhenAdded(h, way)]
          /\ h \notin Range(handlers)
      BY <1>5 DEF AddHandler, history
    <2>2. Written'
      BY Zenon, <1>0, <2>1, NobodyInSetup
    <2>3. Only' = Only /\ All' = All
      BY <2>1
    <2>4. ASSUME First PROVE Set'
      <3>1. LevelWhenAdded(h, way) = wanted[h] /\ way # "level_later"
        BY Zenon, <2>4 DEF LevelWhenAdded
      <3>2. level'[h] = wanted[h] /\ \A g \in Handlers : g # h => level'[g] = level[g]
        BY Zenon, <1>t, <2>1, <3>1
      <3>3. /\ lowest_log_level' <= wanted[h]
            /\ \A n \in Levels : lowest_log_level <= n => lowest_log_level' <= n
        BY <1>t, <1>i, <2>1, <3>1 DEF Min2
      <3>4. ASSUME NEW k \in 1 .. Len(handlers')
            PROVE  level'[handlers'[k]] = wanted[handlers'[k]]
                   /\ lowest_log_level' <= level'[handlers'[k]]
        <4>1. handlers'[k] = h \/ (k \in 1 .. Len(handlers) /\ handlers'[k] = handlers[k]
                                   /\ handlers[k] \in Handlers)
          BY <1>t, <2>1
        <4>2. k \in 1 .. Len(handlers) => handlers[k] # h
          BY Zenon, <1>t, <2>1, RangeIs
        <4>3. CASE handlers'[k] = h
          BY Zenon, <3>2, <3>3, <4>3
        <4>4. CASE k \in 1 .. Len(handlers) /\ handlers'[k] = handlers[k]
                   /\ handlers[k] \in Handlers
          <5>1. level[handlers[k]] = wanted[handlers[k]] /\ lowest_log_level <= level[handlers[k]]
                /\ level[handlers[k]] \in Levels
            BY Zenon, <1>1, <1>t, <2>4, <4>4
          <5> QED
            BY Zenon, <3>2, <3>3, <4>2, <4>4, <5>1
        <4> QED
          BY Zenon, <4>1, <4>3, <4>4
      <3> QED
        BY Zenon, <2>1, <3>4
    <2> QED
      BY Zenon, <1>1, <1>3, <1>4, <2>2, <2>3, <2>4
  <1>6. ASSUME UNCHANGED <<handlers, level, wanted, lowest_log_level>>
        PROVE  Set' = Set
    BY <1>6
  <1>7. ASSUME NEW x \in Loggers, NEW l \in Levels, LogCall(x, l)
        PROVE  LevelInv'
    <2>1. UNCHANGED <<handlers, level, wanted, lowest_log_level, async, out, dropped, accepted,
                      written>>
          /\ lvl' = [lvl EXCEPT ![calls + 1] = l] /\ main = "started"
          /\ \/ UNCHANGED returned
             \/ lowest_log_level > l /\ returned' = returned \cup {calls + 1}
      BY <1>7 DEF LogCall, logger
    <2>2. calls + 1 \notin 1 .. calls /\ 1 .. calls \subseteq Msgs /\ calls + 1 \in Msgs
      BY <1>0, <1>7, LoggedAreMsgs DEF LogCall, Msgs, LoggerAssumption
    <2>3. lvl'[calls + 1] = l /\ \A m \in 1 .. calls : lvl'[m] = lvl[m]
      BY Zenon, <1>t, <2>1, <2>2
    <2>4. Written'
      BY Zenon, <1>0, <1>1, <2>1, <2>3 DEF NumberInv
    <2>5. \A h \in Handlers : Range(out[h]) \subseteq 1 .. calls
      <3>1. ASSUME NEW h \in Handlers
            PROVE  Range(out[h]) \subseteq 1 .. calls
        <4>1. out[h] \in Seq(Msgs) /\ \A k \in 1 .. Len(out[h]) : out[h][k] \in 1 .. calls
          BY Zenon, <1>0, <1>t DEF NumberInv
        <4>2. \A e : e \in Range(out[h]) <=> \E k \in 1 .. Len(out[h]) : out[h][k] = e
          BY <4>1, RangeIs
        <4> QED
          BY Zenon, <4>1, <4>2
      <3> QED
        BY <3>1
    <2>6. ASSUME First PROVE Only'
      BY Zenon, <1>1, <2>1, <2>3, <2>5, <2>6
    <2>7. ASSUME First PROVE All'
      <3>1. ASSUME NEW h \in Handlers, lowest_log_level > l
            PROVE  ~ (l >= wanted[h])
        <4>1. PICK k \in 1 .. Len(handlers) : handlers[k] = h
          BY Zenon, <1>2, <2>1
        <4>2. level[h] = wanted[h] /\ lowest_log_level <= wanted[h] /\ wanted[h] \in Levels
          BY Zenon, <1>1, <1>t, <2>7, <4>1
        <4> QED
          BY <1>t, <1>i, <3>1, <4>2
      <3>2. ASSUME NEW h \in Handlers, NEW m \in Msgs, m \in returned', lvl'[m] >= wanted[h]
            PROVE  m \in Range(out[h]) \/ (async /\ m \in Range(accepted) \cup dropped)
        <4>1. m \in returned
          BY Zenon, <2>1, <2>3, <3>1, <3>2
        <4>2. lvl'[m] = lvl[m]
          BY Zenon, <1>0, <2>3, <4>1 DEF NumberInv
        <4> QED
          BY Zenon, <1>1, <2>7, <3>2, <4>1, <4>2
      <3> QED
        BY Zenon, <2>1, <3>2
    <2>8. Set' = Set
      BY Zenon, <1>6, <2>1
    <2> QED
      BY Zenon, <1>1, <1>3, <1>4, <2>4, <2>6, <2>7, <2>8
  <1>8. ASSUME NEW x \in Loggers, async, Alloc(x) \/ Send(x)
        PROVE  LevelInv'
    <2>1. /\ UNCHANGED <<handlers, level, wanted, lowest_log_level, async, out, lvl, written>>
          /\ returned' = returned \cup {msg[x]} \/ returned' = returned
      BY Zenon, <1>8 DEF Alloc, Send, logger
    <2>2. msg[x] \in Msgs
      BY Zenon, <1>0, <1>8, LoggedAreMsgs DEF Alloc, Send
    <2>3. dropped \subseteq dropped' /\ Range(accepted) \subseteq Range(accepted')
          /\ \/ returned' = returned
             \/ msg[x] \in Range(accepted') \cup dropped'
      <3>1. Range(Append(accepted, msg[x])) = Range(accepted) \cup {msg[x]}
        BY <1>t, <2>2, RangeAppend
      <3>2. /\ dropped' = dropped \/ dropped' = dropped \cup {msg[x]}
            /\ accepted' = accepted \/ accepted' = Append(accepted, msg[x])
            /\ \/ returned' = returned
               \/ dropped' = dropped \cup {msg[x]}
               \/ accepted' = Append(accepted, msg[x])
        <4>1. CASE Alloc(x)
          BY Zenon, <4>1 DEF Alloc
        <4>2. CASE Send(x)
          BY Zenon, <4>2 DEF Send
        <4> QED BY <1>8, <4>1, <4>2
      <3>3. dropped \subseteq dropped' /\ Range(accepted) \subseteq Range(accepted')
        BY Zenon, <3>1, <3>2
      <3>4. returned' = returned \/ msg[x] \in Range(accepted') \cup dropped'
        BY Zenon, <3>1, <3>2
      <3> QED BY Zenon, <3>3, <3>4
    <2>4. Written' /\ (First => Only')
      BY Zenon, <1>1, <2>1
    <2>5. First => All'
      BY Zenon, <1>1, <1>8, <2>1, <2>3
    <2>6. Set' = Set
      BY Zenon, <1>6, <2>1
    <2> QED
      BY Zenon, <1>1, <1>3, <1>4, <2>4, <2>5, <2>6
  <1>9. ASSUME NEW x \in Threads, Write(x) \/ Write2(x)
        PROVE  LevelInv'
    <2>1. UNCHANGED <<handlers, level, wanted, lowest_log_level, async, lvl, returned, dropped,
                      accepted, written>>
          /\ pc[x] \in Active \ {"handler"}
      BY <1>9 DEF Write, Write2, logger, history, Active
    <2>2. lvl[msg[x]] >= level[At(x)] /\ i[x] <= Len(handlers)
      BY Zenon, <1>0, <2>1 DEF WalkInv
    <2>3. At(x) \in Handlers /\ msg[x] \in Msgs /\ i[x] \in 1 .. Len(handlers)
          /\ At(x) = handlers[i[x]]
      BY <1>0, <2>1, <2>2, AtHandler
    <2>4. out'[At(x)] = Append(out[At(x)], msg[x])
          /\ \A g \in Handlers : g # At(x) => out'[g] = out[g]
      BY Zenon, <1>9, <1>t, <2>3 DEF Write, Write2
    <2>5. Range(out'[At(x)]) = Range(out[At(x)]) \cup {msg[x]}
      <3>1. out[At(x)] \in Seq(Msgs) /\ msg[x] \in Msgs
        BY Zenon, <1>t, <2>3
      <3>2. Range(Append(out[At(x)], msg[x])) = Range(out[At(x)]) \cup {msg[x]}
        BY <3>1, RangeAppend
      <3> QED
        BY Zenon, <2>4, <3>2
    <2>6. \A g \in Handlers : Range(out[g]) \subseteq Range(out'[g])
      BY Zenon, <2>4, <2>5
    <2>7. Written'
      BY Zenon, <1>1, <2>1, <2>6
    <2>8. First => Only'
      <3>1. ASSUME First PROVE Only'
        <4>1. level[At(x)] = wanted[At(x)]
          BY Zenon, <1>1, <2>3, <3>1
        <4>2. ASSUME NEW h \in Handlers, NEW m \in Msgs, m \in Range(out'[h])
              PROVE  lvl[m] >= wanted[h]
          <5>1. m \in Range(out[h]) \/ (h = At(x) /\ m = msg[x])
            BY Zenon, <2>4, <2>5, <4>2
          <5> QED
            BY Zenon, <1>1, <2>2, <3>1, <4>1, <5>1
        <4> QED
          BY Zenon, <2>1, <4>2
      <3> QED
        BY <3>1
    <2>9. First => All'
      BY Zenon, <1>1, <2>1, <2>6
    <2>10. Set' = Set
      BY Zenon, <1>6, <2>1
    <2> QED
      BY Zenon, <1>1, <1>3, <1>4, <2>7, <2>8, <2>9, <2>10
  <1>10. ASSUME NEW x \in Threads, (x \in Loggers /\ SyncReturn(x)) \/ (x = Run /\ FreeMsg)
         PROVE  LevelInv'
    <2>1. /\ UNCHANGED <<handlers, level, wanted, lowest_log_level, async, lvl, out, dropped,
                         accepted>>
          /\ written' = written \cup {msg[x]} /\ returned' \subseteq returned \cup {msg[x]}
          /\ pc[x] = "handler" /\ i[x] > Len(handlers)
          /\ returned' = returned \/ SyncReturn(x)
      BY <1>10 DEF SyncReturn, FreeMsg, logger
    <2>2. ASSUME NEW h \in Handlers, lvl[msg[x]] >= level[h]
          PROVE  msg[x] \in Range(out[h])
      <3>1. main # "setup"
        BY Zenon, <1>0, <2>1, NobodyInSetup DEF Active
      <3>2. PICK k \in 1 .. Len(handlers) : handlers[k] = h
        BY Zenon, <1>2, <3>1
      <3>3. k < i[x]
        <4>1. Len(handlers) \in Nat
          BY <1>t
        <4>2. i[x] \in Nat /\ i[x] > Len(handlers)
          BY Zenon, <1>0, <2>1 DEF TypeOK
        <4> QED
          BY <3>2, <4>1, <4>2
      <3> QED
        BY Zenon, <1>0, <2>1, <2>2, <3>2, <3>3 DEF WalkInv, Active
    <2>3. Written'
      BY Zenon, <1>1, <2>1, <2>2
    <2>4. ASSUME First PROVE All'
      <3>1. ASSUME NEW h \in Handlers, lvl[msg[x]] >= wanted[h], SyncReturn(x)
            PROVE  msg[x] \in Range(out[h])
        <4>1. main # "setup"
          BY Zenon, <1>0, <2>1, NobodyInSetup DEF Active
        <4>2. PICK k \in 1 .. Len(handlers) : handlers[k] = h
          BY Zenon, <1>2, <4>1
        <4>3. level[h] = wanted[h]
          BY Zenon, <1>1, <2>4, <4>2
        <4> QED
          BY Zenon, <2>2, <3>1, <4>3
      <3> QED
        BY Zenon, <1>1, <2>1, <2>4, <3>1
    <2>5. First => Only'
      BY Zenon, <1>1, <2>1
    <2>6. Set' = Set
      BY Zenon, <1>6, <2>1
    <2> QED
      BY Zenon, <1>1, <1>3, <1>4, <2>3, <2>4, <2>5, <2>6
  <1>11. ASSUME UNCHANGED <<logger, out, lvl, returned, dropped, accepted, written>>
         PROVE  LevelInv'
    BY Zenon, <1>1, <1>3, <1>4, <1>11 DEF logger
  <1>12. \/ \E x \in Threads : Make(x) \/ Handler(x) \/ Lock(x)
         \/ Start \/ ReadMsg \/ Destroy \/ Join
         \/ UNCHANGED vars
         => UNCHANGED <<logger, out, lvl, returned, dropped, accepted, written>>
    BY Zenon DEF Make, Handler, Lock, Start, ReadMsg, Destroy, Join, vars, history
  <1>13. FreeMsg => Run \in Threads
    BY DEF Threads
  <1> QED
    BY Zenon, <1>0, <1>5, <1>7, <1>8, <1>9, <1>10, <1>11, <1>12, <1>13, Steps, WhoSteps

-----------------------------------------------------------------------------
(* The theorems.                                                           *)

\* The invariant holds when the logger has been initialised.
LEMMA InitHolds ==
  ASSUME LoggerAssumption, Init
  PROVE  IInv
  <1> USE DEF Init
  <1>1. TypeOK
    <2>1. DefaultLevel \in Levels /\ FATAL \in Levels /\ 0 \in Levels
      BY DEF DefaultLevel, Levels, LoggerAssumption
    <2>2. calls \in 0 .. MaxLogs /\ Len(channel) <= Places
      BY DEF LoggerAssumption
    <2>3. async \in BOOLEAN
      BY Zenon DEF LoggerAssumption
    <2>4. level \in [Handlers -> Levels] /\ need_mutex \in [Handlers -> BOOLEAN]
          /\ mtx \in [Handlers -> {{}} \cup {{x} : x \in Threads}]
          /\ out \in [Handlers -> Seq(Msgs)] /\ lvl \in [Msgs -> Levels]
          /\ before \in [Msgs -> SUBSET Msgs]
      BY <2>1
    <2>5. pc \in [Threads -> Labels] /\ msg \in [Threads -> Msgs \cup {EndMsg}]
          /\ i \in [Threads -> Nat]
      BY DEF Labels
    <2>6. /\ handlers \in Seq(Handlers) /\ channel \in Seq(Msgs \cup {EndMsg})
          /\ accepted \in Seq(Msgs)
      OBVIOUS
    <2> QED
      BY Zenon, <2>1, <2>2, <2>3, <2>4, <2>5, <2>6 DEF TypeOK
  <1>2. /\ Len(handlers) = 0 /\ Len(accepted) = 0 /\ Len(channel) = 0
        /\ \A h \in Handlers : out[h] = <<>> /\ Len(out[h]) = 0
        /\ \A x \in Threads : pc[x] = IF x = Run THEN "read" ELSE "idle"
        /\ \A n \in 1 .. 0 : FALSE
    OBVIOUS
  <1>3. Run \in Threads /\ Loggers \subseteq Threads /\ \A x \in Loggers : x # Run
    BY DEF Threads, LoggerAssumption
  <1>4. KindInv
    BY Zenon, <1>2, <1>3 DEF KindInv
  <1>5. NumberInv
    BY Zenon, <1>2, <1>3 DEF NumberInv
  <1>6. WalkInv
    BY Zenon, <1>2 DEF WalkInv, Active
  <1>7. PieceInv
    <2>1. 0 % 2 = 0 /\ 0 \div 2 = 0
      OBVIOUS
    <2> QED
      <3>1. LinesWhole
        BY Zenon, <1>2, <2>1 DEF LinesWhole
      <3>2. \A x \in Threads : pc[x] \notin Writing /\ pc[x] # "write2"
        BY Zenon, <1>2 DEF Writing
      <3>3. \A h \in Handlers : Len(out[h]) % 2 # 1
        BY <1>2, <2>1
      <3> QED
        BY Zenon, <1>3, <3>1, <3>2, <3>3 DEF PieceInv
  <1>8. QueueInv
    <2>1. ~HasEnd /\ Queued = 0 /\ Taken = 0 /\ Taken >= 0
      BY <1>2 DEF HasEnd, Queued, Taken
    <2> QED
      BY Zenon, <1>2, <1>3, <2>1 DEF QueueInv, Active
  <1>9. HeapInv
    BY DEF HeapInv
  <1>10. LevelInv
    <2>1. \A h \in Handlers : Range(out[h]) = {}
      BY <1>2 DEF Range
    <2> QED
      BY Zenon, <1>2, <2>1 DEF LevelInv, GetsWanted
  <1>11. OrderKept
    BY Zenon, <1>2 DEF OrderKept
  <1> QED
    BY <1>1, <1>4, <1>5, <1>6, <1>7, <1>8, <1>9, <1>10, <1>11 DEF IInv

\* Every step keeps the invariant.
LEMMA StepHolds ==
  ASSUME LoggerAssumption, IInv, [Next]_vars
  PROVE  IInv'
BY TypeStep, KindStep, NumberStep, WalkStep, PieceStep, QueueStep, HeapStep, LevelStep,
   OrderStep DEF IInv

\* The invariant, of the loggers of log_sync_logger.c and log_async_logger.c together.
THEOREM LoggerInvariant == LoggerAssumption => (Spec => []IInv)
  <1> SUFFICES ASSUME LoggerAssumption PROVE Spec => []IInv
    OBVIOUS
  <1>1. Init => IInv
    BY InitHolds
  <1>2. IInv /\ [Next]_vars => IInv'
    BY StepHolds
  <1> QED
    BY <1>1, <1>2, PTL DEF Spec

\* Whatever threads log at the same time, the pieces of a line stay together in the
\* handler's output (log_console_handler.c writes a coloured line in pieces).
THEOREM LinesStayWhole == Spec => []LinesWhole
  <1>1. IInv => LinesWhole
    BY DEF IInv, PieceInv
  <1> QED
    BY <1>1, LoggerInvariant, LoggerAssumption, PTL

\* A message logged after the call for another had returned is written after it, and
\* muggle_async_logger_destroy returns when all that was accepted is written and all
\* that was allocated is freed, but for what a full channel refused; however the
\* handlers are set up.
THEOREM OrderAndFlush == Spec => [](OrderKept /\ DestroyFlushes)
  <1>1. IInv => OrderKept /\ DestroyFlushes
    <2> SUFFICES ASSUME IInv, main = "destroyed"
                 PROVE  Range(accepted) \subseteq written /\ heap \subseteq dropped
      BY Zenon DEF DestroyFlushes, IInv
    <2>0. TypeOK /\ KindInv /\ NumberInv /\ QueueInv /\ HeapInv
      BY DEF IInv
    <2>1. CASE ~async
      BY Zenon, <2>0, <2>1, EmptyRange DEF KindInv
    <2>2. CASE async
      <3>1. pc[Run] = "ended" /\ channel = <<>> /\ \A x \in Loggers : pc[x] = "idle"
        BY Zenon, <2>0, <2>2 DEF QueueInv, NumberInv
      <3>2. pc[Run] \notin Active
        BY <3>1 DEF Active
      <3>3. Len(channel) = 0 /\ Taken = Len(accepted)
        BY <2>0, <3>1 DEF Taken, Queued, HasEnd, TypeOK
      <3>4. \A k \in 1 .. Len(accepted) : accepted[k] \in written
        BY Zenon, <2>0, <3>2, <3>3 DEF QueueInv
      <3>5. Range(accepted) \subseteq written
        <4>1. accepted \in Seq(Msgs)
          BY <2>0 DEF TypeOK
        <4>2. \A e : e \in Range(accepted) <=> \E k \in 1 .. Len(accepted) : accepted[k] = e
          BY <4>1, RangeIs
        <4> QED
          BY Zenon, <3>4, <4>2
      <3>6. \A n \in 1 .. 0 : FALSE
        OBVIOUS
      <3>7. heap \subseteq dropped
        BY Zenon, <2>0, <3>1, <3>2, <3>3, <3>6 DEF HeapInv, Held
      <3> QED
        BY <3>5, <3>7
    <2> QED
      BY <2>1, <2>2
  <1> QED
    BY <1>1, LoggerInvariant, LoggerAssumption, PTL

\* When the levels of the handlers are set before they are added, each handler writes
\* exactly the messages at or above the level asked for it, in the order of the calls,
\* and all that were accepted before destroy returns.
THEOREM MessagesDelivered ==
  ASSUME Setup \subseteq {"level_first"}
  PROVE  Spec => []Delivered
  <1>1. IInv => TypeOK /\ GetsWanted
    BY DEF IInv, LevelInv
  <1>2. TypeOK /\ GetsWanted /\ OrderKept /\ DestroyFlushes => Delivered
    BY DEF Delivered
  <1> QED
    BY <1>1, <1>2, LoggerInvariant, LoggerAssumption, OrderAndFlush, PTL
=============================================================================
