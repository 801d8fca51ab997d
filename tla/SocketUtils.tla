----------------------------- MODULE SocketUtils -----------------------------
(***************************************************************************)
(* The functions that make sockets, muggle/c/net/socket_utils.c, called by *)
(* several threads of a process.  Every system call is a step and may      *)
(* fail; a descriptor that is closed is the next one the system gives out, *)
(* to whichever thread asks for it.  The code for Windows is not modelled. *)
(***************************************************************************)
EXTENDS Integers, Sequences, SequencesExt, FiniteSets, FiniteSetsExt

CONSTANTS
  Threads,
  Lists,        \* what getaddrinfo may answer: sequences of addresses, <<>> when it fails
  Odd,          \* the addresses that are neither IPv4 nor IPv6
  MaxFd,        \* the descriptors of the process, 1 .. MaxFd
  MaxCalls,     \* bound on the calls
  HostLens, BufSizes   \* for muggle_socket_ntop

INVALID == 0              \* MUGGLE_INVALID_SOCKET
Ops == {"tcp_listen", "tcp_connect", "udp_bind", "udp_connect", "mcast_join"}
Stream == {"tcp_listen", "tcp_connect"}

VARIABLES
  sock,                   \* the open descriptors
  pc, op, todo, fd,       \* of each call: res and what follows it, and the socket made
  list,                   \* is the list of getaddrinfo still allocated?
  src,                    \* is a source group given?
  peer,                   \* peer->fd, INVALID while it is not set
  ret,                    \* what the last call returned, until it is closed
  leaked,                 \* history: descriptors nobody closes
  calls,
  text                    \* the last answer of muggle_socket_ntop

args == <<op, src>>
vars == <<sock, pc, args, todo, fd, list, peer, ret, leaked, calls, text>>

Goto(t, l) == pc' = [pc EXCEPT ![t] = l]
Silent == [ok |-> FALSE, len |-> 0, size |-> 0]
Set(f, t, v) == [f EXCEPT ![t] = v]

Init ==
  /\ sock = <<>>
  /\ pc = [t \in Threads |-> "idle"]
  /\ op = [t \in Threads |-> "none"]
  /\ todo = [t \in Threads |-> <<>>] /\ list = [t \in Threads |-> FALSE]
  /\ fd = [t \in Threads |-> INVALID]
  /\ src = [t \in Threads |-> FALSE]
  /\ peer = [t \in Threads |-> INVALID] /\ ret = [t \in Threads |-> INVALID]
  /\ leaked = {} /\ calls = 0
  /\ text = Silent

-----------------------------------------------------------------------------
Addr(t) == Head(todo[t])
Without(d) == [x \in DOMAIN sock \ {d} |-> sock[x]]
Become(t, st) == [sock EXCEPT ![fd[t]].st = st]
Listening(a) == \E d \in DOMAIN sock : sock[d].st = "listening" /\ sock[d].addr = a

\* The call returns r; the list of getaddrinfo has been freed.
Return(t, r) ==
  /\ ret' = Set(ret, t, r)
  /\ fd' = Set(fd, t, INVALID)
  /\ list' = Set(list, t, FALSE)
  /\ todo' = Set(todo, t, <<>>)
  /\ Goto(t, "idle")

\* muggle_socket_peer_init, freeaddrinfo, and the descriptor is returned.
Succeed(t) == peer' = Set(peer, t, fd[t]) /\ Return(t, fd[t])

\* muggle_socket_close and MUGGLE_INVALID_SOCKET.
GiveUp(t) == sock' = Without(fd[t]) /\ Return(t, INVALID)

\* muggle_socket_close, and the next address.
TryNext(t) ==
  /\ sock' = Without(fd[t])
  /\ fd' = Set(fd, t, INVALID)
  /\ todo' = Set(todo, t, Tail(todo[t]))
  /\ Goto(t, "socket")

\* One of the functions is called.  mcast_join takes the first address only, through
\* muggle_socket_getaddrinfo, which frees the list.
Call(t, o, l, s) ==
  /\ pc[t] = "idle" /\ ret[t] = INVALID /\ calls < MaxCalls
  /\ calls' = calls + 1
  /\ op' = Set(op, t, o) /\ src' = Set(src, t, s)
  /\ peer' = Set(peer, t, INVALID)
  /\ IF l = <<>> THEN UNCHANGED <<todo, list, pc>>
     ELSE /\ todo' = Set(todo, t, IF o = "mcast_join" THEN <<Head(l)>> ELSE l)
          /\ list' = Set(list, t, o # "mcast_join")
          /\ Goto(t, "socket")
  /\ text' = Silent
  /\ UNCHANGED <<sock, fd, ret, leaked>>

\* muggle_socket_create for the next address, if there is one.
Create(t) ==
  /\ pc[t] = "socket"
  /\ \/ /\ todo[t] = <<>>
        /\ Return(t, INVALID)
        /\ UNCHANGED sock
     \/ /\ todo[t] # <<>> /\ DOMAIN sock # 1 .. MaxFd
        /\ LET d == Min((1 .. MaxFd) \ DOMAIN sock)
           IN  /\ sock' = [x \in DOMAIN sock \cup {d} |-> IF x = d
                             THEN [st |-> "new", addr |-> Addr(t), owner |-> t,
                                   nonblock |-> op[t] = "tcp_connect", joined |-> FALSE]
                             ELSE sock[x]]
               /\ fd' = Set(fd, t, d)
        /\ Goto(t, IF op[t] \in {"tcp_connect", "udp_connect"} THEN op[t] ELSE "bind")
        /\ UNCHANGED <<todo, list, ret>>
     \/ /\ todo[t] # <<>>
        /\ todo' = Set(todo, t, Tail(todo[t]))
        /\ UNCHANGED <<sock, fd, pc, list, ret>>
  /\ UNCHANGED <<args, peer, leaked, calls, text>>

\* Mutant: a socket that cannot be bound is left open.
BindKeeps(t) ==
  /\ pc[t] = "bind"
  /\ \/ /\ op[t] \in Stream => ~Listening(Addr(t))
        /\ sock' = Become(t, "bound")
        /\ IF op[t] = "udp_bind" THEN Succeed(t)
           ELSE /\ Goto(t, IF op[t] = "tcp_listen" THEN "listen" ELSE "join")
                /\ UNCHANGED <<todo, list, fd, peer, ret>>
     \/ /\ fd' = Set(fd, t, INVALID)
        /\ todo' = Set(todo, t, Tail(todo[t]))
        /\ Goto(t, "socket")
        /\ UNCHANGED <<sock, list, peer, ret>>
  /\ UNCHANGED <<args, leaked, calls, text>>

\* SO_REUSEADDR, which may fail, and bind: of sockets with that option several can be
\* bound to an address on which none listens.
Bind(t) ==
  /\ pc[t] = "bind"
  /\ \/ /\ op[t] \in Stream => ~Listening(Addr(t))
        /\ sock' = Become(t, "bound")
        /\ IF op[t] = "udp_bind" THEN Succeed(t)
           ELSE /\ Goto(t, IF op[t] = "tcp_listen" THEN "listen" ELSE "join")
                /\ UNCHANGED <<todo, list, fd, peer, ret>>
     \/ TryNext(t) /\ UNCHANGED <<list, peer, ret>>
  /\ UNCHANGED <<args, leaked, calls, text>>

\* listen: of two sockets bound to the same address it takes only one.
Listen(t) ==
  /\ pc[t] = "listen"
  /\ \/ ~Listening(Addr(t)) /\ sock' = Become(t, "listening") /\ Succeed(t)
     \/ GiveUp(t) /\ UNCHANGED peer
  /\ UNCHANGED <<args, leaked, calls, text>>

UdpConnect(t) ==
  /\ pc[t] = "udp_connect"
  /\ \/ sock' = Become(t, "connected") /\ Succeed(t)
     \/ TryNext(t) /\ UNCHANGED <<list, peer, ret>>
  /\ UNCHANGED <<args, leaked, calls, text>>

-----------------------------------------------------------------------------
\* The socket is connected, and its flags are restored.
Connected(d) == [sock EXCEPT ![d].st = "connected", ![d].nonblock = FALSE]

\* connect without blocking: it may be done at once, be going on, or fail.  Then no
\* further address is tried.
TcpConnect(t) ==
  /\ pc[t] = "tcp_connect"
  /\ \/ /\ Listening(Addr(t))
        /\ sock' = Connected(fd[t])
        /\ Succeed(t)
     \/ /\ sock' = Become(t, "pending")
        /\ peer' = Set(peer, t, fd[t])
        /\ list' = Set(list, t, FALSE)
        /\ todo' = Set(todo, t, <<>>)
        /\ Goto(t, "select")
        /\ UNCHANGED <<fd, ret>>
     \/ GiveUp(t) /\ UNCHANGED peer
  /\ UNCHANGED <<args, leaked, calls, text>>

\* The network answers.
Answered(d) ==
  /\ d \in DOMAIN sock /\ sock[d].st = "pending"
  /\ \/ Listening(sock[d].addr) /\ sock' = [sock EXCEPT ![d].st = "answered"]
     \/ sock' = [sock EXCEPT ![d].st = "refused"]
  /\ UNCHANGED <<pc, args, todo, fd, list, peer, ret, leaked, calls, text>>

\* select returns because of an answer; because of the timeout, after which an answer
\* comes too late; or with an error.
Select(t) ==
  /\ pc[t] = "select"
  /\ \/ /\ sock[fd[t]].st # "pending"
        /\ Goto(t, "so_error")
        /\ UNCHANGED <<sock, todo, fd, list, ret>>
     \/ GiveUp(t)
  /\ UNCHANGED <<args, peer, leaked, calls, text>>

\* Mutant: the error of the connection is not looked at.
SoErrorIgnored(t) ==
  /\ pc[t] = "so_error"
  /\ sock' = IF sock[fd[t]].st = "answered" THEN Connected(fd[t])
             ELSE [sock EXCEPT ![fd[t]].nonblock = FALSE]
  /\ Return(t, fd[t])
  /\ UNCHANGED <<args, peer, leaked, calls, text>>

\* getsockopt SO_ERROR
SoError(t) ==
  /\ pc[t] = "so_error"
  /\ \/ sock[fd[t]].st = "answered" /\ sock' = Connected(fd[t]) /\ Return(t, fd[t])
     \/ GiveUp(t)
  /\ UNCHANGED <<args, peer, leaked, calls, text>>

-----------------------------------------------------------------------------
\* mcast_join after the bind: with a source group its address is looked up, and the
\* call returns without closing the socket when that fails; then setsockopt.
JoinGroup(t) ==
  /\ pc[t] = "join"
  /\ \/ Addr(t) \in Odd /\ GiveUp(t) /\ UNCHANGED <<peer, leaked>>
     \/ /\ Addr(t) \notin Odd /\ src[t]
        /\ leaked' = leaked \cup {fd[t]}
        /\ Return(t, INVALID)
        /\ UNCHANGED <<sock, peer>>
     \/ /\ Addr(t) \notin Odd
        /\ GiveUp(t)
        /\ UNCHANGED <<peer, leaked>>
     \/ /\ Addr(t) \notin Odd
        /\ sock' = [sock EXCEPT ![fd[t]].joined = TRUE]
        /\ Succeed(t)
        /\ UNCHANGED leaked
  /\ UNCHANGED <<args, calls, text>>

\* muggle_mcast_leave: two lookups, then setsockopt.  The socket stays open.
LeaveGroup(t) ==
  /\ pc[t] = "idle" /\ ret[t] # INVALID /\ sock[ret[t]].joined
  /\ sock' = [sock EXCEPT ![ret[t]].joined = FALSE]
  /\ UNCHANGED <<pc, args, todo, fd, list, peer, ret, leaked, calls, text>>

\* The caller closes the socket it was given.
Close(t) ==
  /\ pc[t] = "idle" /\ ret[t] # INVALID
  /\ sock' = Without(ret[t])
  /\ ret' = Set(ret, t, INVALID)
  /\ peer' = Set(peer, t, INVALID)
  /\ op' = Set(op, t, "none")
  /\ UNCHANGED <<pc, src, todo, fd, list, leaked, calls, text>>

\* Mutant: room for the colon and the digits, and none for the '\0'.
NtopTight(h, p, host_only, bufsize) ==
  LET ok == h < bufsize /\ (host_only \/ bufsize - h >= 6)
  IN  [ok |-> ok, len |-> IF host_only THEN h ELSE h + 1 + p, size |-> bufsize]

\* muggle_socket_ntop of an address of h characters and a port of p digits: inet_ntop
\* wants room for the address and '\0', and the port 8 bytes.
Ntop(h, p, host_only, bufsize) ==
  LET ok == h < bufsize /\ (host_only \/ bufsize - h >= 8)
  IN  [ok |-> ok, len |-> IF host_only THEN h ELSE h + 1 + p, size |-> bufsize]

Show(t) ==
  /\ pc[t] = "idle" /\ calls = 0
  /\ \E h \in HostLens, p \in 1 .. 5, host_only \in BOOLEAN, n \in BufSizes :
       text' = Ntop(h, p, host_only, n)
  /\ UNCHANGED <<sock, pc, args, todo, fd, list, peer, ret, leaked, calls>>

Step(t) ==
  \/ \E o \in Ops, l \in Lists, s \in BOOLEAN :
       (s => o = "mcast_join") /\ Call(t, o, l, s)
  \/ Create(t) \/ Bind(t) \/ Listen(t) \/ UdpConnect(t)
  \/ TcpConnect(t) \/ Select(t) \/ SoError(t)
  \/ JoinGroup(t) \/ LeaveGroup(t) \/ Close(t) \/ Show(t)

Next == (\E t \in Threads : Step(t)) \/ (\E d \in 1 .. MaxFd : Answered(d))

Spec == Init /\ [][Next]_vars

-----------------------------------------------------------------------------
\* Every open socket is that of a call going on, or was returned by its thread's last
\* call and not closed since, or was lost by muggle_mcast_join when the source group
\* could not be looked up; no thread loses its socket to another, which would get the
\* same descriptor after a wrong close.  No list of getaddrinfo outlives its call.
SocketsAccounted ==
  /\ \A t \in Threads :
       /\ fd[t] # INVALID => fd[t] \in DOMAIN sock /\ sock[fd[t]].owner = t
       /\ ret[t] # INVALID => ret[t] \in DOMAIN sock /\ sock[ret[t]].owner = t
       /\ pc[t] = "idle" => fd[t] = INVALID /\ ~list[t]
  /\ \A d \in DOMAIN sock :
       Cardinality({t \in Threads : fd[t] = d} \cup {t \in Threads : ret[t] = d})
         = IF d \in leaked THEN 0 ELSE 1

\* "on success, connected socket description is returned" (socket_utils.h:68 and others):
\* a socket that is returned listens, is bound, is connected without an error, or is a
\* member of the group, it blocks as it did before, and peer refers to it; when a call
\* fails peer is not set, or, after muggle_tcp_connect has had to wait, refers to the
\* socket that was closed.
ReturnedIsReady ==
  \A t \in Threads :
    /\ ret[t] # INVALID =>
         /\ peer[t] = ret[t]
         /\ ~sock[ret[t]].nonblock
         /\ sock[ret[t]].st = CASE op[t] = "tcp_listen" -> "listening"
                                [] op[t] \in {"udp_bind", "mcast_join"} -> "bound"
                                [] OTHER -> "connected"
    /\ pc[t] = "idle" /\ ret[t] = INVALID /\ peer[t] # INVALID => op[t] = "tcp_connect"

\* The text of an address fits into the buffer with its '\0'.
TextFits == text.ok => text.len < text.size
=============================================================================
