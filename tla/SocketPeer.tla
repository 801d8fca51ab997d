----------------------------- MODULE SocketPeer -----------------------------
(***************************************************************************)
(* The life of socket peers: the reference count of muggle_socket_peer_t   *)
(* (muggle/c/net/socket_peer.c) together with the list nodes of the event  *)
(* loop that hold them (muggle/c/net/event/socket_event_memmgr.c).         *)
(*                                                                         *)
(* The event thread accepts connections into nodes of a fixed pool, hands  *)
(* peers to workers, recycles the nodes of closed peers and clears those   *)
(* whose count has become 0.  Every access to a reference count is a step. *)
(* Connections are numbered, and peer->fd is the number of its connection; *)
(* the pool is the queue that MemoryPool shows it to be.                   *)
(***************************************************************************)
EXTENDS Integers, Sequences, FiniteSets

CONSTANTS
  Ev,         \* the event thread
  Workers,    \* the threads peers are sent to
  capacity,   \* ev->capacity, the number of nodes of mgr->peer_pool
  WeakCas,    \* may muggle_atomic_cmp_exch_weak fail with equal values?
  MaxConns,   \* bound on the connections accepted
  MaxSends    \* bound on the times a peer is retained and sent

\* The theorems (PeerProofs) assume this of the constants.
PeerAssumption ==
  /\ Ev \notin Workers
  /\ IsFiniteSet(Workers)
  /\ capacity \in Nat
  /\ WeakCas \in BOOLEAN
  /\ MaxConns \in Nat /\ MaxSends \in Nat

INVALID == 0   \* MUGGLE_INVALID_SOCKET
Nodes == 1 .. capacity
Conns == 1 .. MaxConns
Threads == Workers \cup {Ev}

VARIABLES
  peer_pool,            \* queue of free nodes
  active, recycle,      \* the nodes of the two lists
  ref_cnt, fd,          \* fields of the peer in a node
  pc, node,             \* where a thread is, and with which node
  cnt, desired,         \* locals ref_cnt and desired of retain and release
  to,                   \* the worker a retained peer is sent to
  conn,                 \* history: the connection a thread works with
  to_exit,              \* the loop has ended, and memmgr_destroy runs
  sends,
  accepted,             \* history: connections accepted
  closed                \* history: the closes, pairs of the connection that was
                        \* released and the connection that was closed

fields == <<ref_cnt, fd>>
lists == <<peer_pool, active, recycle>>
locals == <<pc, node, cnt, desired, to, conn>>
rest == <<to_exit, sends, accepted, closed>>
vars == <<lists, fields, locals, rest>>

\* The event thread is in its loop, between two calls.
Looping == pc[Ev] = "idle" /\ ~to_exit

Goto(x, l) == pc' = [pc EXCEPT ![x] = l]

-----------------------------------------------------------------------------
\* muggle_socket_event_memmgr_init with no peers.
Init ==
  /\ peer_pool = [i \in 1 .. capacity |-> i]
  /\ active = {} /\ recycle = {}
  /\ ref_cnt = [n \in Nodes |-> 0]
  /\ fd = [n \in Nodes |-> INVALID]
  /\ pc = [x \in Threads |-> "idle"]
  /\ node = [x \in Threads |-> 0]
  /\ cnt = [x \in Threads |-> 0]
  /\ desired = [x \in Threads |-> 0]
  /\ to = [x \in Threads |-> Ev]
  /\ conn = [x \in Threads |-> INVALID]
  /\ to_exit = FALSE
  /\ sends = 0
  /\ accepted = 0
  /\ closed = {}

\* muggle_socket_event_memmgr_allocate and muggle_socket_event_accept.
Accept ==
  /\ Looping
  /\ accepted < MaxConns
  /\ peer_pool # <<>>
  /\ accepted' = accepted + 1
  /\ ref_cnt' = [ref_cnt EXCEPT ![Head(peer_pool)] = 1]
  /\ fd' = [fd EXCEPT ![Head(peer_pool)] = accepted + 1]
  /\ active' = active \cup {Head(peer_pool)}
  /\ peer_pool' = Tail(peer_pool)
  /\ UNCHANGED <<recycle, locals, to_exit, sends, closed>>

\* The nodes whose peer a thread holds a reference to, between two calls.
Holds(x) == IF x = Ev THEN (IF Looping THEN active ELSE {})
            ELSE IF pc[x] = "using" THEN {node[x]} ELSE {}

\* muggle_socket_peer_retain, before the peer is sent to worker y.
RetainCall(x, n, y) ==
  /\ sends < MaxSends
  /\ sends' = sends + 1
  /\ n \in Holds(x)
  /\ pc[y] = "idle" /\ y # x
  /\ \A z \in Threads : pc[z] = "retain" => to[z] # y
  /\ node' = [node EXCEPT ![x] = n]
  /\ conn' = [conn EXCEPT ![x] = fd[n]]
  /\ cnt' = [cnt EXCEPT ![x] = ref_cnt[n]]
  /\ to' = [to EXCEPT ![x] = y]
  /\ Goto(x, "retain")
  /\ UNCHANGED <<lists, fields, desired, to_exit, accepted, closed>>

\* The compare-and-swap of retain succeeds, and the peer is sent.
RetainCas(x) ==
  /\ pc[x] = "retain"
  /\ cnt[x] # 0
  /\ ref_cnt[node[x]] = cnt[x]
  /\ ref_cnt' = [ref_cnt EXCEPT ![node[x]] = cnt[x] + 1]
  /\ node' = [node EXCEPT ![to[x]] = node[x]]
  /\ conn' = [conn EXCEPT ![to[x]] = conn[x]]
  /\ pc' = [pc EXCEPT ![to[x]] = "using",
                      ![x] = IF x = Ev THEN "idle" ELSE "using"]
  /\ UNCHANGED <<lists, fd, cnt, desired, to, rest>>

\* It fails, and the count is read again.
RetainAgain(x) ==
  /\ pc[x] = "retain"
  /\ ref_cnt[node[x]] # cnt[x] \/ WeakCas
  /\ cnt' = [cnt EXCEPT ![x] = ref_cnt[node[x]]]
  /\ UNCHANGED <<lists, fields, pc, node, desired, to, conn, rest>>

\* The thread gives up its reference to node n: muggle_socket_peer_release.
ReleaseCall(x, n) ==
  /\ node' = [node EXCEPT ![x] = n]
  /\ conn' = [conn EXCEPT ![x] = fd[n]]
  /\ cnt' = [cnt EXCEPT ![x] = 0]
  /\ desired' = [desired EXCEPT ![x] = 0]
  /\ Goto(x, "last")
  /\ UNCHANGED <<fields, to, rest>>

\* A worker has done with its peer.
WorkerRelease(x) ==
  /\ pc[x] = "using"
  /\ ReleaseCall(x, node[x])
  /\ UNCHANGED lists

\* muggle_socket_event_memmgr_recycle of a node whose peer has been closed: the
\* node leaves the active list and the peer is released.
Recycle(n) ==
  /\ pc[Ev] = "idle"
  /\ n \in active
  /\ active' = active \ {n}
  /\ ReleaseCall(Ev, n)
  /\ UNCHANGED <<peer_pool, recycle>>

\* if (peer->ref_cnt == 1) ... else ref_cnt = peer->ref_cnt
IsLast(x) ==
  /\ pc[x] = "last"
  /\ Goto(x, IF ref_cnt[node[x]] = 1 THEN "zero" ELSE "load")
  /\ UNCHANGED <<lists, fields, node, cnt, desired, to, conn, rest>>

\* peer->ref_cnt = 0, without a compare-and-swap; desired stays what it was.
StoreZero(x) ==
  /\ pc[x] = "zero"
  /\ ref_cnt' = [ref_cnt EXCEPT ![node[x]] = 0]
  /\ Goto(x, IF desired[x] = 0 THEN "on_close" ELSE "return")
  /\ UNCHANGED <<lists, fd, node, cnt, desired, to, conn, rest>>

\* ref_cnt = peer->ref_cnt; a released peer is not released again.
Load(x) ==
  /\ pc[x] = "load"
  /\ cnt' = [cnt EXCEPT ![x] = ref_cnt[node[x]]]
  /\ desired' = [desired EXCEPT ![x] =
                   IF ref_cnt[node[x]] = 0 THEN 0 ELSE ref_cnt[node[x]] - 1]
  /\ Goto(x, IF ref_cnt[node[x]] = 0 THEN "return" ELSE "cas")
  /\ UNCHANGED <<lists, fields, node, to, conn, rest>>

\* Mutant: the new count is stored without comparing.
ReleaseBlind(x) ==
  /\ pc[x] = "cas"
  /\ ref_cnt' = [ref_cnt EXCEPT ![node[x]] = desired[x]]
  /\ Goto(x, IF desired[x] = 0 THEN "on_close" ELSE "return")
  /\ UNCHANGED <<lists, fd, node, cnt, desired, to, conn, rest>>

\* Mutant: every release closes the peer.
ReleaseCloses(x) ==
  /\ pc[x] = "cas"
  /\ ref_cnt[node[x]] = cnt[x]
  /\ ref_cnt' = [ref_cnt EXCEPT ![node[x]] = desired[x]]
  /\ Goto(x, "on_close")
  /\ UNCHANGED <<lists, fd, node, cnt, desired, to, conn, rest>>

\* The compare-and-swap of release succeeds.
ReleaseCas(x) ==
  /\ pc[x] = "cas"
  /\ ref_cnt[node[x]] = cnt[x]
  /\ ref_cnt' = [ref_cnt EXCEPT ![node[x]] = desired[x]]
  /\ Goto(x, IF desired[x] = 0 THEN "on_close" ELSE "return")
  /\ UNCHANGED <<lists, fd, node, cnt, desired, to, conn, rest>>

\* It fails: once more from the start, desired kept.
ReleaseAgain(x) ==
  /\ pc[x] = "cas"
  /\ ref_cnt[node[x]] # cnt[x] \/ WeakCas
  /\ Goto(x, "last")
  /\ UNCHANGED <<lists, fields, node, cnt, desired, to, conn, rest>>

\* peer->ev->on_close(peer->ev, peer)
OnClose(x) ==
  /\ pc[x] = "on_close"
  /\ Goto(x, "close")
  /\ UNCHANGED <<lists, fields, node, cnt, desired, to, conn, rest>>

\* muggle_socket_close(peer->fd); peer->fd = MUGGLE_INVALID_SOCKET
Close(x) ==
  /\ pc[x] = "close"
  /\ closed' = closed \cup ({conn[x]} \X ({fd[node[x]]} \ {INVALID}))
  /\ fd' = [fd EXCEPT ![node[x]] = INVALID]
  /\ Goto(x, "return")
  /\ UNCHANGED <<lists, ref_cnt, node, cnt, desired, to, conn, to_exit,
                 sends, accepted>>

\* Mutant: the node goes to the recycle list in any case.
ReturnBoth(x) ==
  /\ pc[x] = "return"
  /\ Goto(x, "idle")
  /\ \/ x # Ev /\ UNCHANGED lists
     \/ x = Ev /\ recycle' = recycle \cup {node[x]} /\ UNCHANGED active
        /\ peer_pool' = IF desired[x] = 0 THEN Append(peer_pool, node[x])
                        ELSE peer_pool
  /\ UNCHANGED <<fields, node, cnt, desired, to, conn, rest>>

\* release returns desired to a worker, or to memmgr_recycle, which frees the node
\* or puts it on the recycle list.
Return(x) ==
  /\ pc[x] = "return"
  /\ Goto(x, "idle")
  /\ \/ x # Ev /\ UNCHANGED lists
     \/ x = Ev /\ desired[x] = 0 /\ peer_pool' = Append(peer_pool, node[x])
        /\ UNCHANGED <<active, recycle>>
     \/ x = Ev /\ desired[x] # 0 /\ recycle' = recycle \cup {node[x]}
        /\ UNCHANGED <<peer_pool, active>>
  /\ UNCHANGED <<fields, node, cnt, desired, to, conn, rest>>

\* The nodes freed go back to the pool in some order.
FreeNodes(ns) ==
  /\ recycle' = recycle \ ns
  /\ \E s \in [1 .. Cardinality(ns) -> ns] :
       /\ {s[i] : i \in DOMAIN s} = ns
       /\ peer_pool' = peer_pool \o s

\* muggle_socket_event_memmgr_clear
Clear ==
  /\ Looping
  /\ recycle # {}
  /\ FreeNodes({n \in recycle : ref_cnt[n] = 0})
  /\ UNCHANGED <<active, fields, locals, rest>>

\* The loop ends and muggle_socket_event_memmgr_destroy is called.
DestroyCall ==
  /\ Looping
  /\ to_exit' = TRUE
  /\ UNCHANGED <<lists, fields, locals, sends, accepted, closed>>

\* It recycles the active nodes (Recycle), waits for each node of the recycle list
\* to have a count of 0 and frees it,
DestroyNode(n) ==
  /\ pc[Ev] = "idle" /\ to_exit
  /\ active = {}
  /\ n \in recycle /\ ref_cnt[n] = 0
  /\ FreeNodes({n})
  /\ UNCHANGED <<active, fields, locals, rest>>

\* and destroys the pool.
DestroyPool ==
  /\ pc[Ev] = "idle" /\ to_exit
  /\ active = {} /\ recycle = {}
  /\ Goto(Ev, "destroyed")
  /\ UNCHANGED <<lists, fields, node, cnt, desired, to, conn, rest>>

Step(x) ==
  \/ RetainCas(x) \/ RetainAgain(x)
  \/ IsLast(x) \/ StoreZero(x) \/ Load(x) \/ ReleaseCas(x) \/ ReleaseAgain(x)
  \/ OnClose(x) \/ Close(x) \/ Return(x)

Destroy == (to_exit /\ \E n \in Nodes : Recycle(n))
           \/ (\E n \in Nodes : DestroyNode(n)) \/ DestroyPool

Next ==
  \/ Accept \/ Clear \/ DestroyCall \/ Destroy
  \/ ~to_exit /\ \E n \in Nodes : Recycle(n)
  \/ \E x \in Threads, n \in Nodes, y \in Workers : RetainCall(x, n, y)
  \/ \E x \in Workers : WorkerRelease(x)
  \/ \E x \in Threads : Step(x)

Spec == Init /\ [][Next]_vars

\* A thread inside a call goes on, a worker releases what it was sent, and the
\* event thread goes through memmgr_destroy.
Fairness ==
  /\ \A x \in Threads : WF_vars(Step(x))
  /\ \A x \in Workers : WF_vars(WorkerRelease(x))
  /\ WF_vars(Destroy)
LiveSpec == Spec /\ Fairness

-----------------------------------------------------------------------------
\* The threads that still count as holders of node n: release gives the reference
\* up when it stores the new count.
Giving == {"last", "zero", "load", "cas"}
Holders(n) ==
  {x \in Workers : pc[x] \in Giving \cup {"using", "retain"} /\ node[x] = n}
  \cup {x \in {Ev} : n \in active \/ (pc[x] \in Giving /\ node[x] = n)}

Labels == {"idle", "using", "retain", "last", "zero", "load", "cas", "on_close",
           "close", "return", "destroyed"}

TypeOK ==
  /\ peer_pool \in Seq(Nodes)
  /\ active \subseteq Nodes /\ recycle \subseteq Nodes
  /\ ref_cnt \in [Nodes -> Nat]
  /\ fd \in [Nodes -> Conns \cup {INVALID}]
  /\ pc \in [Threads -> Labels]
  /\ node \in [Threads -> Nodes \cup {0}]
  /\ cnt \in [Threads -> Nat] /\ desired \in [Threads -> Nat]
  /\ to \in [Threads -> Threads]
  /\ conn \in [Threads -> Conns \cup {INVALID}]
  /\ to_exit \in BOOLEAN
  /\ accepted \in 0 .. MaxConns /\ sends \in 0 .. MaxSends
  /\ closed \subseteq (Conns \cup {INVALID}) \X Conns

IsClosed(k) == \E c \in closed : c[2] = k

\* The reference count of a node is the number of its holders, although the last
\* release stores 0 without a compare-and-swap.
CountIsHolders == \A n \in Nodes : ref_cnt[n] = Cardinality(Holders(n))

\* A worker is sent one peer at a time; who passes a reference on or gives it up has it,
\* and the last holder stays the only one until it has stored 0.
ReferencesInv ==
  /\ \A x \in Threads :
       /\ pc[x] \notin {"idle", "destroyed"} => node[x] \in Nodes
       /\ pc[x] = "retain" =>
            /\ to[x] \in Workers /\ to[x] # x /\ pc[to[x]] = "idle"
            /\ \A z \in Threads : pc[z] = "retain" /\ to[z] = to[x] => z = x
       /\ pc[x] = "zero" => ref_cnt[node[x]] = 1
       /\ pc[x] = "cas" => cnt[x] > 0 /\ desired[x] = cnt[x] - 1
  /\ pc[Ev] # "using"
  /\ pc[Ev] = "retain" => node[Ev] \in active

\* The reference count of a node is the number of its holders, as retain, release and
\* memmgr_recycle keep it.
PeersCounted == TypeOK /\ CountIsHolders /\ ReferencesInv

\* Node n is in the pool; the event thread is recycling it.
IsFree(n) == \E i \in 1 .. Len(peer_pool) : peer_pool[i] = n
Recycling(n) ==
  pc[Ev] \in Giving \cup {"on_close", "close", "return"} /\ node[Ev] = n

\* A node is in the pool once, or on one list, or with the event thread that is
\* recycling it; a free node has no holder, and memmgr_recycle frees none that has.
NodesConserved ==
  /\ \A i, j \in 1 .. Len(peer_pool) : peer_pool[i] = peer_pool[j] => i = j
  /\ \A n \in Nodes :
       /\ IsFree(n) \/ n \in active \/ n \in recycle \/ Recycling(n)
       /\ IsFree(n) => n \notin active /\ n \notin recycle /\ ~Recycling(n)
       /\ n \in active => n \notin recycle /\ ~Recycling(n)
       /\ n \in recycle => ~Recycling(n)
       /\ IsFree(n) => ref_cnt[n] = 0
  /\ pc[Ev] \in {"on_close", "close"} \/ (pc[Ev] = "return" /\ desired[Ev] = 0) =>
       ref_cnt[node[Ev]] = 0

\* A node has the connection of its last use, unless that has been closed.
ConnsInv ==
  /\ \A n \in Nodes : fd[n] <= accepted /\ ~IsClosed(fd[n])
  /\ \A m, n \in Nodes : fd[m] = fd[n] /\ fd[m] # INVALID => m = n
  /\ \A x \in Threads : conn[x] <= accepted
  /\ \A c \in closed : c[2] <= accepted

\* The release that takes the count to 0 closes the connection when nobody holds it.
\* A peer that a thread holds is closed only by the release of an earlier peer in the
\* same node, which still had its close before it when the node was accepted into.
ClosedWhenReleased ==
  /\ ConnsInv
  /\ \A x \in Threads :
       pc[x] \in {"on_close", "close"} /\ conn[x] # INVALID /\ fd[node[x]] = conn[x] =>
         ref_cnt[node[x]] = 0
  /\ \A x \in Threads : pc[x] \in {"using", "retain"} =>
       /\ fd[node[x]] \in {conn[x], INVALID}
       /\ conn[x] # INVALID => <<conn[x], conn[x]>> \notin closed
       /\ conn[x] # INVALID /\ fd[node[x]] = INVALID => IsClosed(conn[x])

\* The three are inductive together.
IInv == PeersCounted /\ NodesConserved /\ ClosedWhenReleased

\* "if send peer to other thread, need invoke muggle_socket_peer_retain(peer) before
\* send, and invoke muggle_socket_peer_release(peer) after use" (socket_peer.h:43), "peer
\* deallocates if the reference count reaches at 0" (socket_peer.h:86): in between a
\* worker finds the connection it was sent open, in the node it was sent.
HeldIsOpen ==
  \A x \in Workers : pc[x] \in {"using", "retain"} =>
    fd[node[x]] = conn[x] /\ ~IsClosed(conn[x])

\* "decreases the reference count by 1 and peer deallocates if the reference count
\* reaches at 0" (socket_peer.h:86): a connection nobody holds or is closing any
\* more has been closed.
ReleasedIsClosed ==
  \A k \in 1 .. accepted :
    \/ IsClosed(k)
    \/ \E n \in active : fd[n] = k
    \/ \E x \in Threads : conn[x] = k /\ pc[x] \notin {"idle", "destroyed"}

\* muggle_socket_event_memmgr_destroy returns when the workers release what they
\* were sent.
DestroyReturns == to_exit ~> pc[Ev] = "destroyed"
=============================================================================
