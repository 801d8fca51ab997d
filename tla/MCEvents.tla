------------------------------ MODULE MCEvents ------------------------------
(***************************************************************************)
(* The three event loops for TLC.  They share the memory manager, the      *)
(* peers and the network of SocketEvent; ev_loop_type names the loop that  *)
(* muggle_socket_event_loop runs.                                          *)
(***************************************************************************)
EXTENDS SocketEvent

VARIABLES
  ev_loop_type,
  p_nodes, fds, revents, cnt_fd, i, n,
  interest, edge, batch, ep_cnt_fd,
  allset, rset, nfds, node, sel_n

pollVars == <<p_nodes, fds, revents, cnt_fd, i, n>>
epollVars == <<interest, edge, batch, ep_cnt_fd>>
selectVars == <<allset, rset, nfds, node, sel_n>>

Poll == INSTANCE EventPoll
Epoll == INSTANCE EventEpoll WITH
  CtlFails <- TRUE, Garbage <- {0}, WaitFails <- FALSE,
  cnt_fd <- ep_cnt_fd
Select == INSTANCE EventSelect WITH
  timeout_ms <- 0, SetupFails <- FALSE, WaitFails <- FALSE,
  Callbacks <- Callbacks \ {"send"}, n <- sel_n

ASSUME Epoll!EpollAssumption

Init ==
  /\ ev_loop_type \in {"poll", "epoll", "select"}
  /\ Poll!Init /\ Epoll!Init /\ Select!Init

PollStep ==
  ev_loop_type = "poll" /\ Poll!Next /\ UNCHANGED <<ev_loop_type, epollVars, selectVars>>
EpollStep ==
  ev_loop_type = "epoll" /\ Epoll!Next /\ UNCHANGED <<ev_loop_type, pollVars, selectVars>>
SelectStep ==
  ev_loop_type = "select" /\ Select!Next /\ UNCHANGED <<ev_loop_type, pollVars, epollVars>>

Spec ==
  Init /\ [][PollStep \/ EpollStep \/ SelectStep]_<<
               ev_loop_type, base, pollVars, epollVars, selectVars>>

Forever == -1

-----------------------------------------------------------------------------
\* The lists, peers and sockets, and what each loop keeps of them.
TypesOK ==
  /\ ev_loop_type = "poll" => Poll!TypeOK
  /\ ev_loop_type = "epoll" => Epoll!TypeOK
  /\ ev_loop_type = "select" => Select!TypeOK

\* What a loop watches are the descriptors of the active nodes, each once, whatever
\* was closed and accepted in the middle of a round: the arrays of poll, the interest
\* list of epoll with the count that decides "reach at up limit", and allset.  The
\* fields have their types.
WatchedIsActive ==
  /\ TypesOK
  /\ NodesApart
  /\ ev_loop_type = "poll" => Poll!ArraysMatch
  /\ ev_loop_type = "epoll" => Epoll!InterestMatches /\ Epoll!CntIsActive
  /\ ev_loop_type = "select" => Select!SetMatches

\* An event the loop still has to look at is for an active node when its turn comes,
\* and of the connection it was reported for, not of an earlier owner of the node or
\* the descriptor; the walk of select stays on the list.
EventsAreActive ==
  /\ ev_loop_type = "poll" => Poll!EventsKept
  /\ ev_loop_type = "epoll" => Epoll!BatchIsActive
  /\ ev_loop_type = "select" => Select!WalkIsActive
=============================================================================
