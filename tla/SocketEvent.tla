---------------------------- MODULE SocketEvent ----------------------------
(***************************************************************************)
(* What the three event loops (muggle/c/net/event/socket_event_epoll.c,    *)
(* _poll.c, _select.c) have in common: peers in list nodes, the accept     *)
(* loop, the callbacks, the timer, the end of the loop (socket_event.c,    *)
(* socket_event_utils.c, socket_event_memmgr.c), and, as far as the loops  *)
(* see them, sockets, clients and the worker threads peers are sent to.    *)
(*                                                                         *)
(* The loop rests between two events, and within an event between the      *)
(* callback and the look at peer->status.  Reference counts change in one  *)
(* step here; SocketPeer takes them apart.  The next-state relation is in  *)
(* the module of each loop.                                                *)
(***************************************************************************)
EXTENDS Integers, Sequences, FiniteSets, SequencesExt

CONSTANTS
  capacity,      \* ev->capacity
  timeout_ms,    \* ev->timeout_ms, in ticks of the clock
  Workers,       \* threads that are sent retained peers
  FirstConns,    \* connections among the peers given to init
  AcceptFails,   \* may accept fail for good, as with EMFILE?
  WaitFails,     \* may the wait for events fail?
  SetupFails,    \* may malloc or epoll_create fail?
  Callbacks,     \* what on_message does besides receiving
  MaxConns       \* bound on the connections

ASSUME EventAssumption ==
  /\ capacity \in Nat \ {0} /\ MaxConns \in Nat
  /\ FirstConns \in 0 .. MaxConns /\ FirstConns < capacity
  /\ timeout_ms \in Nat \cup {-1}
  /\ {AcceptFails, WaitFails, SetupFails} \subseteq BOOLEAN
  /\ Callbacks \subseteq {"nothing", "close", "close_other", "send", "exit"}

Nodes == 1 .. capacity
Conns == 1 .. MaxConns
Fds == 1 .. capacity
INVALID == 0          \* MUGGLE_INVALID_SOCKET
NONE == -1            \* a file descriptor that is not open
LISTENER == 0         \* the listening socket, in node 1

VARIABLES
  peer_pool,                 \* queue of free nodes
  active,                    \* the list of active nodes, its head first
  recycle,                   \* the nodes of the recycle list
  fd, status, ref_cnt, ev,   \* of the peer in a node (ev: is peer->ev set?)
  hold,                      \* the node a worker was sent, or 0
  sock,                      \* what each descriptor is: NONE, LISTENER or a connection
  backlog,                   \* connections to be accepted
  data, fin, shut,           \* of a connection: bytes to receive; closed by the
                             \* client; shut down by muggle_socket_peer_close
  pc, cur,                   \* where the loop is, and the node it handles
  to_exit,
  elapsed,                   \* time since t1, up to timeout_ms
  destroyed,                 \* how often the pool of nodes was destroyed
  told, refused              \* history: last callback of each connection; the refused

lists == <<peer_pool, active, recycle>>
peers == <<fd, status, ref_cnt, ev, hold>>
net == <<sock, backlog, data, fin, shut>>
loop == <<pc, cur, to_exit, elapsed>>
history == <<told, refused, destroyed>>
base == <<lists, peers, net, loop, history>>

\* The connection of the peer in node n.
Conn(n) == IF fd[n] = INVALID THEN NONE ELSE sock[fd[n]]
IsListener(n) == n = 1 /\ Conn(n) = LISTENER
IsActive(n) == n \in Range(active)

\* Can the descriptor be read without waiting?
Readable(f) ==
  \/ sock[f] = LISTENER /\ backlog # <<>>
  \/ sock[f] \in Conns /\ (data[sock[f]] \/ fin[sock[f]] \/ shut[sock[f]])

\* May the event be an error or a hang-up alone?
HungUp(f) == sock[f] \in Conns /\ (fin[sock[f]] \/ shut[sock[f]])

-----------------------------------------------------------------------------
\* muggle_socket_event_memmgr_init with a listening peer and FirstConns connected
\* ones.  Their ev is what it was in the peers given, NULL.
BaseInit ==
  /\ peer_pool = [i \in 1 .. capacity - FirstConns - 1 |-> FirstConns + 1 + i]
  /\ active = [i \in 1 .. FirstConns + 1 |-> FirstConns + 2 - i]
  /\ recycle = {}
  /\ fd = [n \in Nodes |-> IF n <= FirstConns + 1 THEN n ELSE INVALID]
  /\ status = [n \in Nodes |-> "active"]
  /\ ref_cnt = [n \in Nodes |-> IF n <= FirstConns + 1 THEN 1 ELSE 0]
  /\ ev = [n \in Nodes |-> FALSE]
  /\ hold = [w \in Workers |-> 0]
  /\ sock = [f \in Fds |-> IF f <= FirstConns + 1 THEN f - 1 ELSE NONE]
  /\ backlog = <<>>
  /\ data = [c \in Conns |-> FALSE]
  /\ fin = [c \in Conns |-> FALSE]
  /\ shut = [c \in Conns |-> FALSE]
  /\ pc = "start" /\ cur = 0
  /\ to_exit = FALSE
  /\ elapsed = 0
  /\ told = [c \in Conns |-> IF c <= FirstConns THEN "connect" ELSE "nothing"]
  /\ refused = {} /\ destroyed = 0

-----------------------------------------------------------------------------
\* Clients.
Known(c) == c \in Range(backlog) \/ told[c] # "nothing" \/ c \in refused

\* Connections whose end at the server is open, accepted or not.
Open == Conns \cap (Range(backlog) \cup Range(sock))

Connect(c) ==
  /\ ~Known(c) /\ \A b \in 1 .. c - 1 : Known(b)
  /\ LISTENER \in Range(sock)
  /\ backlog' = Append(backlog, c)
  /\ UNCHANGED <<lists, peers, sock, data, fin, shut, loop, history>>

Send(c) ==
  /\ c \in Open /\ ~fin[c] /\ ~shut[c]
  /\ data' = [data EXCEPT ![c] = TRUE]
  /\ UNCHANGED <<lists, peers, sock, backlog, fin, shut, loop, history>>

Finish(c) ==
  /\ c \in Open /\ ~fin[c]
  /\ fin' = [fin EXCEPT ![c] = TRUE]
  /\ UNCHANGED <<lists, peers, sock, backlog, data, shut, loop, history>>

Client == \E c \in Conns : Connect(c) \/ Send(c) \/ Finish(c)

\* muggle_socket_event_loop_exit, from any thread or from a signal handler.
ExitCall ==
  /\ ~to_exit
  /\ to_exit' = TRUE
  /\ UNCHANGED <<lists, peers, net, pc, cur, elapsed, history>>

Tick ==
  /\ timeout_ms > 0 /\ elapsed < timeout_ms /\ pc # "done"
  /\ elapsed' = elapsed + 1
  /\ UNCHANGED <<lists, peers, net, pc, cur, to_exit, history>>

-----------------------------------------------------------------------------
\* muggle_socket_peer_close
PeerClose(ns) ==
  /\ status' = [n \in Nodes |-> IF n \in ns THEN "closed" ELSE status[n]]
  /\ shut' = [c \in Conns |-> shut[c] \/ \E n \in ns : Conn(n) = c]

\* The last reference to the peers is released: on_close where peer->ev is set, and
\* the close of the descriptors.
CloseFd(ns, before) ==
  /\ told' = [c \in Conns |-> IF \E n \in ns : ev[n] /\ Conn(n) = c THEN "close"
                              ELSE before[c]]
  /\ sock' = [f \in Fds |-> IF \E n \in ns : fd[n] = f THEN NONE ELSE sock[f]]
  /\ fd' = [n \in Nodes |-> IF n \in ns THEN INVALID ELSE fd[n]]
  /\ backlog' = IF \E n \in ns : Conn(n) = LISTENER THEN <<>> ELSE backlog
  /\ LET open(was) == [c \in Conns |-> was[c] /\ \A n \in ns : Conn(n) # c] IN
       data' = open(data) /\ fin' = open(fin) /\ shut' = open(shut)

\* A worker closes its peer, for instance as a send has failed.
WorkerClose(w) ==
  /\ hold[w] # 0
  /\ PeerClose({hold[w]})
  /\ UNCHANGED <<lists, fd, ref_cnt, ev, hold, sock, backlog, data, fin, loop, history>>


\* muggle_socket_peer_release of a worker.
WorkerRelease(w) ==
  LET n == hold[w] IN
  /\ n # 0
  /\ hold' = [hold EXCEPT ![w] = 0]
  /\ ref_cnt' = [ref_cnt EXCEPT ![n] = @ - 1]
  /\ CloseFd(IF ref_cnt[n] = 1 THEN {n} ELSE {}, told)
  /\ UNCHANGED <<lists, status, ev, loop, refused, destroyed>>

Worker == \E w \in Workers : WorkerClose(w) \/ WorkerRelease(w)

-----------------------------------------------------------------------------
\* on_message: the bytes that have come are received.  At the end of the stream
\* muggle_socket_peer_recv closes the peer; otherwise the callback may close it or
\* another peer, retain it and send it to a worker, or end the loop.
OnMessage(n) ==
  LET c == Conn(n) IN
  /\ data' = [data EXCEPT ![c] = FALSE]
  /\ \/ /\ fin[c] \/ shut[c]
        /\ PeerClose({n})
        /\ UNCHANGED <<ref_cnt, hold, to_exit>>
     \/ /\ ~(fin[c] \/ shut[c])
        /\ \/ /\ "nothing" \in Callbacks
              /\ UNCHANGED <<status, shut, ref_cnt, hold, to_exit>>
           \/ /\ "close" \in Callbacks
              /\ PeerClose({n})
              /\ UNCHANGED <<ref_cnt, hold, to_exit>>
           \/ /\ "close_other" \in Callbacks
              /\ \E m \in Range(active) \ {n} : ~IsListener(m) /\ PeerClose({m})
              /\ UNCHANGED <<ref_cnt, hold, to_exit>>
           \/ /\ "send" \in Callbacks
              /\ \E w \in Workers : hold[w] = 0 /\ hold' = [hold EXCEPT ![w] = n]
              /\ ref_cnt' = [ref_cnt EXCEPT ![n] = @ + 1]
              /\ UNCHANGED <<status, shut, to_exit>>
           \/ /\ "exit" \in Callbacks
              /\ to_exit' = TRUE
              /\ UNCHANGED <<status, shut, ref_cnt, hold>>
  /\ pc' = "check" /\ cur' = n
  /\ UNCHANGED <<lists, fd, ev, sock, backlog, fin, elapsed, history>>

\* EPOLLERR, EPOLLHUP, POLLERR or POLLHUP without the event for input.
OnHangUp(n) ==
  /\ PeerClose({n})
  /\ pc' = "check" /\ cur' = n
  /\ UNCHANGED <<lists, fd, ref_cnt, ev, hold, sock, backlog, data, fin, to_exit,
                 elapsed, history>>

\* The listening socket can be read.
OnListen(n) ==
  /\ pc' = "listen" /\ cur' = n
  /\ UNCHANGED <<lists, peers, net, to_exit, elapsed, history>>

\* The event of node n, as seen by the switch on peer_type.
Dispatch(n, hup) ==
  \/ IsListener(n) /\ OnListen(n)
  \/ ~IsListener(n) /\ ~hup /\ OnMessage(n)
  \/ ~IsListener(n) /\ hup /\ OnHangUp(n)


\* The listen loop goes to muggle_socket_event_refuse_accept.
Refuse(limit) ==
  /\ pc = "listen"
  /\ limit \/ peer_pool = <<>>
  /\ pc' = "refuse"
  /\ UNCHANGED <<lists, peers, net, cur, to_exit, elapsed, history>>

\* muggle_socket_event_refuse_accept: one round of its loop.
RefuseAccept ==
  /\ pc = "refuse" /\ status[cur] = "active"
  /\ \/ /\ backlog = <<>>
        /\ pc' = "check"
        /\ UNCHANGED <<backlog, refused>>
     \/ /\ backlog # <<>>
        /\ refused' = refused \cup {Head(backlog)}
        /\ backlog' = Tail(backlog)
        /\ UNCHANGED pc
  /\ UNCHANGED <<lists, peers, sock, data, fin, shut, cur, to_exit, elapsed, told, destroyed>>

\* Another error of accept closes the listening peer, and the loop goes on.
RefuseFail ==
  /\ pc = "refuse" /\ (AcceptFails \/ status[cur] = "closed")
  /\ PeerClose({cur})
  /\ UNCHANGED <<lists, fd, ref_cnt, ev, hold, sock, backlog, data, fin, loop, history>>

\* A node is allocated; there is nothing to accept, or accept fails for good and
\* closes the listening peer; and the node is freed.
AcceptNone(limit) ==
  /\ pc = "listen" /\ ~limit /\ peer_pool # <<>>
  /\ \/ backlog = <<>> /\ UNCHANGED <<status, shut>>
     \/ AcceptFails /\ PeerClose({cur})
  /\ peer_pool' = Append(Tail(peer_pool), Head(peer_pool))
  /\ pc' = "check"
  /\ UNCHANGED <<active, recycle, fd, ref_cnt, ev, hold, sock, backlog, data, fin,
                 cur, to_exit, elapsed, history>>

LowestFd == CHOOSE f \in Fds : sock[f] = NONE /\ \A g \in 1 .. f - 1 : sock[g] # NONE

\* A connection is accepted into the first node of the pool, and on_connect called.
Accept(limit) ==
  LET n == Head(peer_pool)
      c == Head(backlog)
  IN
  /\ pc = "listen" /\ ~limit /\ peer_pool # <<>> /\ backlog # <<>>
  /\ peer_pool' = Tail(peer_pool)
  /\ active' = <<n>> \o active
  /\ fd' = [fd EXCEPT ![n] = LowestFd]
  /\ sock' = [sock EXCEPT ![LowestFd] = c]
  /\ status' = [status EXCEPT ![n] = "active"]
  /\ ref_cnt' = [ref_cnt EXCEPT ![n] = 1]
  /\ ev' = [ev EXCEPT ![n] = TRUE]
  /\ backlog' = Tail(backlog)
  /\ told' = [told EXCEPT ![c] = "connect"]
  /\ UNCHANGED <<recycle, hold, data, fin, shut, loop, refused, destroyed>>

-----------------------------------------------------------------------------
\* Mutant: two references are given up.
ReleasedTwice(ns) == [n \in Nodes |-> IF n \in ns THEN ref_cnt[n] - 2 ELSE ref_cnt[n]]

Released(ns) == [n \in Nodes |-> IF n \in ns THEN ref_cnt[n] - 1 ELSE ref_cnt[n]]

\* muggle_socket_event_memmgr_recycle of the nodes ns, which are freed at once
\* unless someone else holds their peer.  before: what was told before.
Recycle(ns, before) ==
  LET last == {n \in ns : ref_cnt[n] = 1} IN
  /\ active' = SelectSeq(active, LAMBDA n : n \notin ns)
  /\ ref_cnt' = Released(ns)
  /\ recycle' = recycle \cup (ns \ last)
  /\ \E s \in SetToSeqs(last) : peer_pool' = peer_pool \o s
  /\ CloseFd(last, before)
  /\ UNCHANGED <<status, ev, hold, refused>>

\* on_error for the peer of the current node, and its recycling.
ErrorAndRecycle ==
  /\ Recycle({cur}, [c \in Conns |-> IF Conn(cur) = c THEN "error" ELSE told[c]])
  /\ UNCHANGED <<to_exit, elapsed, destroyed>>

\* The loop is set up, or fails to be: it destroys the memory manager and returns.
Setup ==
  /\ pc = "start"
  /\ pc' \in {"wait"} \cup (IF SetupFails THEN {"fail"} ELSE {})
  /\ UNCHANGED <<lists, peers, net, cur, to_exit, elapsed, history>>

\* The wait for events returns none: the time is over.
TimedOut(ready) ==
  /\ pc = "wait" /\ ~ready
  /\ timeout_ms >= 0 /\ elapsed >= timeout_ms
  /\ pc' = "end"
  /\ UNCHANGED <<lists, peers, net, cur, to_exit, elapsed, history>>

\* The wait fails with another error than EINTR, after which it is just repeated.
WaitFailed ==
  /\ pc = "wait" /\ WaitFails
  /\ pc' = "end"
  /\ to_exit' = TRUE
  /\ UNCHANGED <<lists, peers, net, cur, elapsed, history>>

\* muggle_socket_event_timer_handle
Timer == elapsed' = IF timeout_ms > 0 /\ elapsed >= timeout_ms THEN 0 ELSE elapsed

\* The nodes muggle_socket_event_memmgr_clear frees.
Cleared == {n \in recycle : ref_cnt[n] = 0}

\* The end of a round: the timer, the test of to_exit, memmgr_clear.
EndRound ==
  /\ pc = "end"
  /\ Timer
  /\ cur' = 0
  /\ \/ to_exit /\ pc' = "exit" /\ UNCHANGED <<recycle, peer_pool>>
     \/ /\ ~to_exit /\ pc' = "wait"
        /\ recycle' = recycle \ Cleared
        /\ \E s \in SetToSeqs(Cleared) : peer_pool' = peer_pool \o s
  /\ UNCHANGED <<active, peers, net, to_exit, history>>

\* muggle_socket_event_memmgr_destroy, by a loop that could not be set up and by
\* muggle_socket_event_loop: every active node is recycled,
Destroy ==
  /\ pc \in {"fail", "exit"}
  /\ Recycle(Range(active), told)
  /\ pc' = IF pc = "fail" THEN "destroy_fail" ELSE "destroy"
  /\ UNCHANGED <<cur, to_exit, elapsed, destroyed>>

\* and freed when nobody holds its peer any more; the pool is destroyed.
Destroyed ==
  /\ pc \in {"destroy_fail", "destroy"}
  /\ \A n \in recycle : ref_cnt[n] = 0
  /\ recycle' = {}
  /\ \E s \in SetToSeqs(recycle) : peer_pool' = peer_pool \o s
  /\ destroyed' = destroyed + 1
  /\ pc' = IF pc = "destroy_fail" THEN "exit" ELSE "done"
  /\ UNCHANGED <<active, peers, net, cur, to_exit, elapsed, told, refused>>

Others == Client \/ Worker \/ ExitCall \/ Tick

Finishing == Setup \/ EndRound \/ Destroy \/ Destroyed

-----------------------------------------------------------------------------
BaseTypeOK ==
  /\ peer_pool \in Seq(Nodes) /\ active \in Seq(Nodes) /\ recycle \subseteq Nodes
  /\ fd \in [Nodes -> Fds \cup {INVALID}]
  /\ status \in [Nodes -> {"active", "closed"}]
  /\ ref_cnt \in [Nodes -> 0 .. Cardinality(Workers) + 1]
  /\ ev \in [Nodes -> BOOLEAN]
  /\ hold \in [Workers -> Nodes \cup {0}]
  /\ sock \in [Fds -> Conns \cup {NONE, LISTENER}]
  /\ backlog \in Seq(Conns)
  /\ {data, fin, shut} \subseteq [Conns -> BOOLEAN]
  /\ pc \in {"wait", "events", "listen", "refuse", "check", "end", "start",
             "fail", "destroy_fail", "exit", "destroy", "done"}
  /\ cur \in Nodes \cup {0} /\ to_exit \in BOOLEAN
  /\ told \in [Conns -> {"nothing", "dropped", "connect", "error", "close"}]
  /\ refused \subseteq Conns

\* Every node is free, active or waiting to be freed, once; an active node has an
\* open descriptor, no two the same; a worker's peer is not freed.
NodesApart ==
  /\ IsInjective(peer_pool \o active)
  /\ Range(peer_pool) \cap recycle = {} /\ Range(active) \cap recycle = {}
  /\ Len(peer_pool) + Len(active) + Cardinality(recycle) = capacity
  /\ \A n \in Range(active) : Conn(n) # NONE /\ ref_cnt[n] > 0
  /\ \A m, n \in Nodes : m # n /\ fd[m] = fd[n] => fd[m] = INVALID
  /\ \A w \in Workers : hold[w] # 0 => hold[w] \notin Range(peer_pool)



\* "callback for socket close, free peer soon, safe to free peer->data"
\* (socket_event.h:109): a connection is closed with a call to on_close.
ClosedTold ==
  [][\A c \in Conns : c \in Range(sock) /\ c \notin Range(sock)' => told'[c] = "close"]_sock

\* Bytes that have come are received and the end of the stream closes the peer, unless
\* the loop ends.
Served ==
  \A c \in Conns : (told[c] = "connect" /\ (data[c] \/ fin[c])) ~>
                     (told[c] # "connect" \/ (~data[c] /\ ~fin[c]) \/ to_exit)

\* A connection in the backlog is accepted or refused, unless the loop ends.
Accepted == (backlog # <<>>) ~> (backlog = <<>> \/ to_exit)

\* on_timer is called when the time is over, busy or not ("when loop is busy,
\* timeout will not trigger, use customize timer handle avoid that").
TimerFires == (timeout_ms > 0 /\ elapsed = timeout_ms) ~> (elapsed = 0 \/ to_exit)

\* "destroy and free memory manager" (socket_event.c:231): it is destroyed once.
DestroyedOnce == destroyed <= 1

\* "exit event loop" (muggle_socket_event_loop_exit): the loop returns.
ExitReturns == to_exit ~> pc = "done"
=============================================================================
