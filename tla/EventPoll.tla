----------------------------- MODULE EventPoll -----------------------------
(***************************************************************************)
(* The event loop over poll (muggle/c/net/event/socket_event_poll.c).  The *)
(* arrays p_nodes and fds run in parallel; the loop over them goes from    *)
(* the last to the first, new connections are put at the end, and a closed *)
(* peer is replaced by the last one.                                       *)
(***************************************************************************)
EXTENDS SocketEvent

VARIABLES
  p_nodes,       \* p_nodes[i + 1] is p_nodes[i] of the code, 0 for NULL
  fds, revents,  \* the two fields of struct pollfd
  cnt_fd,
  i, n           \* the loop over the arrays, and the events left

arrays == <<p_nodes, fds, revents>>
vars == <<base, arrays, cnt_fd, i, n>>

Index == 1 .. capacity

\* The arrays are filled with the peers given to init.
Init ==
  /\ BaseInit
  /\ cnt_fd = Len(active)
  /\ p_nodes = [k \in Index |-> IF k <= cnt_fd THEN active[k] ELSE 0]
  /\ fds = [k \in Index |-> IF k <= cnt_fd THEN fd[active[k]] ELSE 0]
  /\ revents = [k \in Index |-> "none"]
  /\ i = 0 /\ n = 0

Ready == {k \in 1 .. cnt_fd : fds[k] # INVALID /\ Readable(fds[k])}

\* poll returns with events.
Poll ==
  /\ pc = "wait" /\ Ready # {}
  /\ \E hups \in SUBSET {k \in Ready : HungUp(fds[k])} :
       revents' = [k \in Index |-> IF k \in hups THEN "hup"
                                   ELSE IF k \in Ready THEN "in"
                                   ELSE IF k <= cnt_fd THEN "none" ELSE revents[k]]
  /\ n' = Cardinality(Ready)
  /\ i' = cnt_fd
  /\ pc' = "events"
  /\ UNCHANGED <<lists, peers, net, cur, to_exit, elapsed, history, p_nodes, fds, cnt_fd>>

\* The event of the peer at i, if it has one.
Event ==
  /\ pc = "events" /\ i > 0
  /\ \/ /\ revents[i] = "none"
        /\ pc' = "check" /\ cur' = p_nodes[i]
        /\ UNCHANGED <<lists, peers, net, to_exit, elapsed, history, n>>
     \/ /\ revents[i] # "none"
        /\ Dispatch(p_nodes[i], revents[i] = "hup")
        /\ n' = n - 1
  /\ UNCHANGED <<arrays, cnt_fd, i>>

\* muggle_socket_event_poll_listen puts the new peer at the end of the arrays.
Listen ==
  \/ /\ Accept(cnt_fd = capacity)
     /\ cnt_fd' = cnt_fd + 1
     /\ p_nodes' = [p_nodes EXCEPT ![cnt_fd + 1] = Head(peer_pool)]
     /\ fds' = [fds EXCEPT ![cnt_fd + 1] = LowestFd]
     /\ revents' = [revents EXCEPT ![cnt_fd + 1] = "none"]
     /\ UNCHANGED <<i, n>>
  \/ /\ AcceptNone(cnt_fd = capacity) \/ Refuse(cnt_fd = capacity) \/ RefuseAccept
        \/ RefuseFail
     /\ UNCHANGED <<arrays, cnt_fd, i, n>>

\* The next round of the loop over the arrays, if any.
NextIndex ==
  /\ i' = i - 1
  /\ pc' = IF n <= 0 \/ i = 1 THEN "end" ELSE "events"

\* Mutant: the descriptor is not moved with the node.
CloseNodeOnly ==
  /\ pc = "check" /\ status[cur] = "closed"
  /\ ErrorAndRecycle
  /\ p_nodes' = [p_nodes EXCEPT ![i] = p_nodes[cnt_fd], ![cnt_fd] = 0]
  /\ UNCHANGED <<fds, revents>>
  /\ cnt_fd' = cnt_fd - 1
  /\ NextIndex
  /\ UNCHANGED <<cur, n>>

\* Mutant: the closed peer stays in the arrays.
CloseStays ==
  /\ pc = "check" /\ status[cur] = "closed"
  /\ ErrorAndRecycle
  /\ NextIndex
  /\ UNCHANGED <<arrays, cnt_fd, cur, n>>

\* The peer at i is closed: the last one takes its place.
Close ==
  /\ pc = "check" /\ status[cur] = "closed"
  /\ ErrorAndRecycle
  /\ p_nodes' = [p_nodes EXCEPT ![i] = p_nodes[cnt_fd], ![cnt_fd] = 0]
  /\ fds' = [fds EXCEPT ![i] = fds[cnt_fd]]
  /\ revents' = [revents EXCEPT ![i] = revents[cnt_fd]]
  /\ cnt_fd' = cnt_fd - 1
  /\ NextIndex
  /\ UNCHANGED <<cur, n>>

Keep ==
  /\ pc = "check" /\ status[cur] = "active"
  /\ NextIndex
  /\ UNCHANGED <<lists, peers, net, cur, to_exit, elapsed, history, arrays, cnt_fd, n>>

Loop == Poll \/ Event \/ Listen \/ Close \/ Keep
        \/ ((TimedOut(Ready # {}) \/ Finishing) /\ UNCHANGED <<arrays, cnt_fd, i, n>>)

Next ==
  \/ Loop
  \/ (Others \/ WaitFailed) /\ UNCHANGED <<arrays, cnt_fd, i, n>>

Spec == Init /\ [][Next]_vars

\* The event thread runs, time goes on, workers release what they were sent.
Fairness ==
  /\ WF_vars(Loop)
  /\ WF_vars(Tick /\ UNCHANGED <<arrays, cnt_fd, i, n>>)
  /\ \A w \in Workers : WF_vars(WorkerRelease(w) /\ UNCHANGED <<arrays, cnt_fd, i, n>>)
LiveSpec == Spec /\ Fairness

-----------------------------------------------------------------------------
TypeOK ==
  /\ BaseTypeOK
  /\ p_nodes \in [Index -> Nodes \cup {0}]
  /\ fds \in [Index -> Fds \cup {0}]
  /\ revents \in [Index -> {"none", "in", "hup"}]
  /\ cnt_fd \in 0 .. capacity /\ i \in 0 .. capacity /\ n \in 0 .. capacity

\* The arrays hold the active nodes, each once, with the descriptors of their peers,
\* whatever was closed and accepted in the middle of the loop over them.
ArraysMatch ==
  pc \in {"wait", "events", "listen", "refuse", "check", "end"} =>
    /\ cnt_fd = Len(active)
    /\ {p_nodes[k] : k \in 1 .. cnt_fd} = Range(active)
    /\ \A k \in 1 .. cnt_fd : fds[k] = fd[p_nodes[k]]

\* An event is reported to the peer it came for: what the loop still has to look at
\* are peers that were there when poll returned.
EventsKept ==
  pc = "events" => \A k \in 1 .. i : revents[k] # "none" =>
                     p_nodes[k] \in Range(active) /\ Readable(fds[k])
=============================================================================
