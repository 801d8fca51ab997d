----------------------------- MODULE EventEpoll -----------------------------
(***************************************************************************)
(* The event loop over epoll (muggle/c/net/event/socket_event_epoll.c).    *)
(* Descriptors are watched edge-triggered: epoll_wait reports one once     *)
(* when it becomes readable.                                               *)
(***************************************************************************)
EXTENDS SocketEvent

CONSTANTS
  CtlFails,   \* may EPOLL_CTL_ADD fail for an accepted connection?
  Garbage     \* what the uninitialised cnt_fd may hold

EpollAssumption == CtlFails \in BOOLEAN /\ Garbage \subseteq Int

VARIABLES
  interest,   \* the node given with a watched descriptor, or 0
  edge,       \* descriptors that have become readable and were not reported
  batch,      \* the rest of ret_epevs: nodes, and if the event is a hang-up
  cnt_fd

epoll == <<interest, edge, batch, cnt_fd>>
vars == <<base, epoll>>

\* The peers given to init are watched.  Nothing has set cnt_fd before the ++.
Init ==
  /\ BaseInit
  /\ interest = [f \in Fds |-> IF sock[f] # NONE THEN f ELSE 0]
  /\ edge = {}
  /\ batch = <<>>
  /\ \E g \in Garbage : cnt_fd = g + Len(active)

\* What every step does to edge; the descriptors in taken are reported by it.
Edges(taken) ==
  edge' = {f \in Fds : (f \in edge \ taken \/ ~Readable(f)) /\ Readable(f)'}

Watched == {f \in edge : interest[f] # 0}

\* epoll_wait returns with events.
Wait ==
  /\ pc = "wait" /\ Watched # {}
  /\ \E hups \in SUBSET {f \in Watched : HungUp(f)}, s \in SetToSeqs(Watched) :
       batch' = [k \in DOMAIN s |-> [node |-> interest[s[k]], hup |-> s[k] \in hups]]
  /\ pc' = "events"
  /\ UNCHANGED <<lists, peers, net, cur, to_exit, elapsed, history, interest, cnt_fd>>
  /\ Edges(Watched)

\* The next event of the batch.
Event ==
  /\ pc = "events" /\ batch # <<>>
  /\ Dispatch(Head(batch).node, Head(batch).hup)
  /\ batch' = Tail(batch)
  /\ UNCHANGED <<interest, cnt_fd>>
  /\ Edges({})

AtLimit == cnt_fd = capacity

\* An accepted connection is watched with its node.
AcceptAdd ==
  /\ Accept(AtLimit)
  /\ interest' = [interest EXCEPT ![LowestFd] = Head(peer_pool)]
  /\ cnt_fd' = cnt_fd + 1
  /\ UNCHANGED batch
  /\ Edges({})

\* EPOLL_CTL_ADD fails: the node is recycled, with peer->ev not set, and the loop
\* over accept goes on.
AcceptDrop ==
  /\ pc = "listen" /\ ~AtLimit /\ peer_pool # <<>> /\ backlog # <<>>
  /\ CtlFails
  /\ told' = [told EXCEPT ![Head(backlog)] = "dropped"]
  /\ data' = [data EXCEPT ![Head(backlog)] = FALSE]
  /\ fin' = [fin EXCEPT ![Head(backlog)] = FALSE]
  /\ backlog' = Tail(backlog)
  /\ peer_pool' = Append(Tail(peer_pool), Head(peer_pool))
  /\ UNCHANGED <<active, recycle, peers, sock, shut, loop, refused, destroyed,
                 interest, batch, cnt_fd>>
  /\ Edges({})

\* muggle_socket_event_epoll_listen
Listen ==
  \/ AcceptAdd
  \/ AcceptDrop
  \/ /\ AcceptNone(AtLimit) \/ Refuse(AtLimit) \/ RefuseAccept \/ RefuseFail
     /\ UNCHANGED <<interest, batch, cnt_fd>>
     /\ Edges({})

\* Mutant: the rest of the batch is dropped.
NextEventDrop == pc' = "end"

NextEvent == pc' = IF batch = <<>> THEN "end" ELSE "events"

\* Mutant: the descriptor is watched until it is closed.
CloseNoDel ==
  /\ pc = "check" /\ status[cur] = "closed"
  /\ interest' = [interest EXCEPT ![fd[cur]] = IF ref_cnt[cur] = 1 THEN 0 ELSE @]
  /\ ErrorAndRecycle
  /\ cnt_fd' = cnt_fd - 1
  /\ NextEvent
  /\ UNCHANGED <<cur, batch>>
  /\ Edges({})

\* A closed peer: on_error, EPOLL_CTL_DEL, memmgr_recycle, --cnt_fd.
Close ==
  /\ pc = "check" /\ status[cur] = "closed"
  /\ interest' = [interest EXCEPT ![fd[cur]] = 0]
  /\ ErrorAndRecycle
  /\ cnt_fd' = cnt_fd - 1
  /\ NextEvent
  /\ UNCHANGED <<cur, batch>>
  /\ Edges({})

Keep ==
  /\ pc = "check" /\ status[cur] = "active"
  /\ NextEvent
  /\ UNCHANGED <<lists, peers, net, cur, to_exit, elapsed, history,
                 interest, batch, cnt_fd>>
  /\ Edges({})

Loop ==
  \/ Wait \/ Event \/ Listen \/ Close \/ Keep
  \/ /\ TimedOut(Watched # {}) \/ Finishing
     /\ UNCHANGED <<interest, batch, cnt_fd>>
     /\ Edges({})

Outside(A) == A /\ UNCHANGED <<interest, batch, cnt_fd>> /\ Edges({})

Next == Loop \/ Outside(Others) \/ Outside(WaitFailed)

Spec == Init /\ [][Next]_vars

\* The event thread runs, time goes on, workers release what they were sent.
Fairness ==
  /\ WF_vars(Loop)
  /\ WF_vars(Outside(Tick))
  /\ \A w \in Workers : WF_vars(Outside(WorkerRelease(w)))
LiveSpec == Spec /\ Fairness

-----------------------------------------------------------------------------
TypeOK ==
  /\ BaseTypeOK
  /\ interest \in [Fds -> Nodes \cup {0}]
  /\ edge \subseteq Fds
  /\ \A k \in DOMAIN batch : batch[k].node \in Nodes /\ batch[k].hup \in BOOLEAN
  /\ cnt_fd \in Int

Running == pc \in {"wait", "events", "listen", "refuse", "check", "end"}

\* Watched are the descriptors of the active nodes, with their nodes.
InterestMatches ==
  Running => \A f \in Fds : interest[f] = IF \E n \in Range(active) : fd[n] = f
                                          THEN CHOOSE n \in Range(active) : fd[n] = f
                                          ELSE 0

\* An event that epoll_wait has returned is for an active node when its turn comes,
\* and for the connection it was reported for: the nodes of peers closed earlier in
\* the batch may be in use for new connections by then.
BatchIsActive ==
  \A k \in DOMAIN batch : batch[k].node \in Range(active) /\ Readable(fd[batch[k].node])

\* "reach at up limit": cnt_fd is the number of watched descriptors.
CntIsActive == Running => cnt_fd = Len(active)
=============================================================================
