---------------------------- MODULE EventSelect ----------------------------
(***************************************************************************)
(* The event loop over select (muggle/c/net/event/socket_event_select.c).  *)
(* The loop walks the list of active nodes; accepted connections are put   *)
(* at its head, behind the walk.  Descriptors are reused while rset is     *)
(* looked at.                                                              *)
(***************************************************************************)
EXTENDS SocketEvent

VARIABLES
  allset, rset, nfds,
  node,    \* the walk over the list, 0 for NULL
  n        \* the descriptors of rset left

select == <<allset, rset, nfds, node, n>>
vars == <<base, select>>

Highest(s) == IF s = {} THEN 0 ELSE CHOOSE f \in s : \A g \in s : g <= f

Init ==
  /\ BaseInit
  /\ allset = {f \in Fds : sock[f] # NONE}
  /\ rset = {}
  /\ nfds = Highest(allset)
  /\ node = 0 /\ n = 0

Ready == {f \in allset \cap (0 .. nfds) : Readable(f)}

\* select returns with descriptors.
Select ==
  /\ pc = "wait" /\ Ready # {}
  /\ rset' = Ready
  /\ n' = Cardinality(Ready)
  /\ node' = IF active = <<>> THEN 0 ELSE Head(active)
  /\ pc' = "events"
  /\ UNCHANGED <<lists, peers, net, cur, to_exit, elapsed, history, allset, nfds>>

\* With timeout_ms 0 the time to wait is copied from save_timeout, which is not
\* initialised: select waits, or fails with EINVAL and the loop ends.
SelectGarbage ==
  /\ pc = "wait" /\ timeout_ms = 0
  /\ pc' = "end"
  /\ to_exit' = TRUE
  /\ UNCHANGED <<lists, peers, net, cur, elapsed, history, select>>

\* The node after m in the list.
After(m) ==
  LET k == CHOOSE j \in DOMAIN active : active[j] = m
  IN  IF k = Len(active) THEN 0 ELSE active[k + 1]

\* A node that is not in rset is passed over.
Skip ==
  /\ pc = "events" /\ node # 0 /\ fd[node] \notin rset
  /\ node' = After(node)
  /\ UNCHANGED <<base, allset, rset, nfds, n>>

Event ==
  /\ pc = "events" /\ node # 0 /\ fd[node] \in rset
  /\ Dispatch(node, FALSE)
  /\ UNCHANGED select

EndOfList ==
  /\ pc = "events" /\ node = 0
  /\ pc' = "end"
  /\ UNCHANGED <<lists, peers, net, cur, to_exit, elapsed, history, select>>

\* muggle_socket_event_select_listen: only the pool limits the connections.
Listen ==
  \/ /\ Accept(FALSE)
     /\ allset' = allset \cup {LowestFd}
     /\ nfds' = IF LowestFd > nfds THEN LowestFd ELSE nfds
     /\ UNCHANGED <<rset, node, n>>
  \/ /\ AcceptNone(FALSE) \/ Refuse(FALSE) \/ RefuseAccept \/ RefuseFail
     /\ UNCHANGED select

\* --n <= 0 ends the walk.
NextNode ==
  /\ n' = n - 1
  /\ node' = After(node)
  /\ pc' = IF n <= 1 THEN "end" ELSE "events"

\* Mutant: the descriptor stays in allset.
CloseNoClr ==
  /\ pc = "check" /\ status[cur] = "closed"
  /\ NextNode
  /\ ErrorAndRecycle
  /\ UNCHANGED <<cur, allset, rset, nfds>>

\* Mutant: the walk starts again when a node has left the list.
CloseRestart ==
  /\ pc = "check" /\ status[cur] = "closed"
  /\ ErrorAndRecycle
  /\ n' = n - 1
  /\ node' = IF active' = <<>> THEN 0 ELSE Head(active')
  /\ pc' = IF n <= 1 THEN "end" ELSE "events"
  /\ allset' = allset \ {fd[cur]}
  /\ UNCHANGED <<cur, rset, nfds>>

\* A closed peer: on_error, FD_CLR, memmgr_recycle.
Close ==
  /\ pc = "check" /\ status[cur] = "closed"
  /\ NextNode
  /\ allset' = allset \ {fd[cur]}
  /\ ErrorAndRecycle
  /\ UNCHANGED <<cur, rset, nfds>>

Keep ==
  /\ pc = "check" /\ status[cur] = "active"
  /\ NextNode
  /\ UNCHANGED <<lists, peers, net, cur, to_exit, elapsed, history, allset, rset, nfds>>

Loop ==
  \/ Select \/ Skip \/ Event \/ EndOfList \/ Listen \/ Close \/ Keep
  \/ (TimedOut(Ready # {}) \/ Finishing) /\ UNCHANGED select

Next ==
  \/ Loop
  \/ SelectGarbage
  \/ (Others \/ WaitFailed) /\ UNCHANGED select

Spec == Init /\ [][Next]_vars

\* The event thread runs, time goes on, workers release what they were sent.
Fairness ==
  /\ WF_vars(Loop)
  /\ WF_vars(Tick /\ UNCHANGED select)
  /\ \A w \in Workers : WF_vars(WorkerRelease(w) /\ UNCHANGED select)
LiveSpec == Spec /\ Fairness

-----------------------------------------------------------------------------
TypeOK ==
  /\ BaseTypeOK
  /\ allset \subseteq Fds /\ rset \subseteq Fds /\ nfds \in Fds \cup {0}
  /\ node \in Nodes \cup {0} /\ n \in 0 .. capacity

\* select is asked for the descriptors of the active nodes, and for no other that
\* has been closed or belongs to a worker alone.
SetMatches ==
  pc \in {"wait", "events", "listen", "refuse", "check", "end"} =>
    /\ allset = {fd[m] : m \in Range(active)}
    /\ \A f \in allset : f <= nfds

\* The walk stays on the list, whatever is closed or accepted meanwhile; and a node
\* it will handle has an event of its own, not one that came for the previous owner
\* of its descriptor.
WalkIsActive ==
  /\ pc = "events" /\ node # 0 => node \in Range(active)
  /\ pc = "events" /\ node # 0 /\ fd[node] \in rset => Readable(fd[node])

\* "event loop timer in millisec, -1, 0 or any positive number, the same as epoll
\* timeout" (socket_event.h:103): a wait whose time is over does not end the loop.
WaitGoesOn == [][pc = "wait" /\ pc' = "end" => to_exit' = to_exit]_pc
=============================================================================
