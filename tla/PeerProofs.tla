----------------------------- MODULE PeerProofs -----------------------------
(***************************************************************************)
(* Proofs about SocketPeer, for every number of nodes, workers and         *)
(* connections: the reference counts, the nodes and the closes.            *)
(***************************************************************************)
EXTENDS SocketPeer, FiniteSetTheorems, TLAPS

-----------------------------------------------------------------------------
(* The holders of a node.                                                  *)

\* Who holds a reference to node n.
LEMMA HoldersAre ==
  ASSUME NEW n
  PROVE  \A x : x \in Holders(n) <=>
           \/ x \in Workers /\ pc[x] \in Giving \cup {"using", "retain"} /\ node[x] = n
           \/ x = Ev /\ (n \in active \/ (pc[Ev] \in Giving /\ node[Ev] = n))
BY DEF Holders

\* The holders are threads, so there are finitely many.
LEMMA HoldersFinite ==
  ASSUME PeerAssumption, NEW n
  PROVE  IsFiniteSet(Holders(n)) /\ Cardinality(Holders(n)) \in Nat
  <1>1. IsFiniteSet(Threads)
    BY FS_AddElement DEF PeerAssumption, Threads
  <1>2. Holders(n) \subseteq Threads
    BY DEF Holders, Threads
  <1> QED
    BY <1>1, <1>2, FS_Subset, FS_CardinalityType

\* A node without references has no holder.
LEMMA NoReference ==
  ASSUME PeerAssumption, CountIsHolders, NEW n \in Nodes, ref_cnt[n] = 0
  PROVE  Holders(n) = {}
BY HoldersFinite, FS_EmptySet DEF CountIsHolders

\* A node with one reference has one holder.
LEMMA LastReference ==
  ASSUME PeerAssumption, CountIsHolders, NEW n \in Nodes, ref_cnt[n] = 1,
         NEW x \in Holders(n)
  PROVE  Holders(n) = {x}
  <1>1. IsFiniteSet(Holders(n)) /\ Cardinality(Holders(n)) = 1
    BY HoldersFinite DEF CountIsHolders
  <1>2. IsFiniteSet(Holders(n) \ {x}) /\ Cardinality(Holders(n) \ {x}) = 0
    BY <1>1, FS_RemoveElement
  <1> QED
    BY <1>2, FS_EmptySet

\* A holder is counted.
LEMMA HolderCounts ==
  ASSUME PeerAssumption, CountIsHolders, TypeOK, NEW n \in Nodes, NEW x \in Holders(n)
  PROVE  ref_cnt[n] \in Nat /\ ref_cnt[n] > 0
  <1>1. ref_cnt[n] \in Nat
    BY DEF TypeOK
  <1>2. ref_cnt[n] # 0
    BY NoReference
  <1> QED
    BY <1>1, <1>2

\* A thread that uses, passes on or gives up a reference holds it.
LEMMA HasReference ==
  ASSUME PeersCounted, NEW x \in Threads,
         pc[x] \in Giving \cup {"using", "retain"}
  PROVE  node[x] \in Nodes /\ x \in Holders(node[x])
BY HoldersAre DEF PeersCounted, ReferencesInv, Threads, Giving

-----------------------------------------------------------------------------
(* The fields have their types.                                            *)

\* The nodes that are freed are appended to the pool, each once.
LEMMA FreeNodesPool ==
  ASSUME TypeOK, capacity \in Nat, NEW ns \in SUBSET Nodes, FreeNodes(ns)
  PROVE  \E s \in Seq(ns) :
           /\ peer_pool' = peer_pool \o s
           /\ Len(s) = Cardinality(ns) /\ Len(s) \in Nat
           /\ \A n \in ns : \E i \in 1 .. Len(s) : s[i] = n
           /\ \A i, j \in 1 .. Len(s) : s[i] = s[j] => i = j
  <1>1. IsFiniteSet(Nodes)
    BY FS_Interval DEF Nodes
  <1>2. IsFiniteSet(ns) /\ Cardinality(ns) \in Nat
    BY <1>1, FS_Subset, FS_CardinalityType
  <1>3. PICK s \in [1 .. Cardinality(ns) -> ns] :
          {s[i] : i \in DOMAIN s} = ns /\ peer_pool' = peer_pool \o s
    BY Zenon DEF FreeNodes
  <1>4. s \in Seq(ns) /\ Len(s) = Cardinality(ns)
    BY <1>2, <1>3
  <1>5. \A n \in ns : \E i \in 1 .. Len(s) : s[i] = n
    BY <1>3, <1>4
  <1>6. \A i, j \in 1 .. Len(s) : s[i] = s[j] => i = j
    <2> DEFINE m == Cardinality(ns)
    <2>1. IsFiniteSet(1 .. m) /\ Cardinality(1 .. m) = m
      BY <1>2, FS_Interval
    <2>2. s \in Surjection(1 .. m, ns)
      BY <1>3 DEF Surjection
    <2>3. s \in Injection(1 .. m, ns)
      BY <1>2, <2>1, <2>2, FS_SurjSameCardinalityImpliesInj
    <2> QED
      BY <1>2, <1>4, <2>3 DEF Injection, IsInjective
  <1> QED
    BY Zenon, <1>2, <1>3, <1>4, <1>5, <1>6

\* The steps of a thread inside a call, but for RetainCas and Return.
Inner(x) == \/ RetainAgain(x) \/ IsLast(x) \/ StoreZero(x) \/ Load(x)
            \/ ReleaseCas(x) \/ ReleaseAgain(x) \/ OnClose(x) \/ Close(x)

\* The steps, one per call that changes state.
LEMMA Steps ==
  ASSUME [Next]_vars
  PROVE  \/ Accept \/ Clear \/ DestroyCall \/ DestroyPool
         \/ \E n \in Nodes : Recycle(n) \/ DestroyNode(n)
         \/ \E x \in Threads, n \in Nodes, y \in Workers : RetainCall(x, n, y)
         \/ \E x \in Workers : WorkerRelease(x)
         \/ \E x \in Threads : RetainCas(x) \/ Inner(x) \/ Return(x)
         \/ UNCHANGED vars
BY DEF Next, Destroy, Step, Inner

\* Every step keeps the types.
LEMMA TypeStep ==
  ASSUME PeerAssumption, IInv, [Next]_vars
  PROVE  TypeOK'
  <1>0. TypeOK /\ \A x \in Threads : pc[x] \notin {"idle", "destroyed"} => node[x] \in Nodes
    BY DEF PeersCounted, ReferencesInv, IInv
  <1>1. CASE Accept
    <2>1. Head(peer_pool) \in Nodes /\ Tail(peer_pool) \in Seq(Nodes)
      BY <1>0, <1>1 DEF Accept, TypeOK
    <2>2. accepted + 1 \in 0 .. MaxConns /\ accepted + 1 \in Conns
      BY <1>0, <1>1 DEF Accept, TypeOK, Conns, PeerAssumption
    <2> QED
      BY <1>0, <1>1, <2>1, <2>2 DEF Accept, TypeOK, locals
  <1>2. ASSUME NEW ns \in SUBSET recycle, FreeNodes(ns),
               UNCHANGED <<active, fields, locals, rest>>
        PROVE  TypeOK'
    <2>1. ns \in SUBSET Nodes
      BY <1>0, <1>2 DEF TypeOK
    <2>2. PICK s \in Seq(ns) : peer_pool' = peer_pool \o s
      BY <1>0, <1>2, <2>1, FreeNodesPool DEF PeerAssumption
    <2>3. peer_pool' \in Seq(Nodes)
      BY <1>0, <2>1, <2>2 DEF TypeOK
    <2>4. recycle' \subseteq Nodes
      BY <1>0, <1>2 DEF TypeOK, FreeNodes
    <2> QED
      BY <1>0, <1>2, <2>3, <2>4 DEF TypeOK, fields, locals, rest
  <1>3. CASE Clear
    BY <1>2, <1>3 DEF Clear
  <1>4. CASE DestroyCall
    BY <1>0, <1>4 DEF DestroyCall, TypeOK, lists, fields, locals
  <1>5. CASE DestroyPool
    BY Zenon, <1>0, <1>5 DEF DestroyPool, TypeOK, lists, fields, rest, Goto, Labels
  <1>6. ASSUME NEW n \in Nodes, Recycle(n)
        PROVE  TypeOK'
    BY <1>0, <1>6 DEF Recycle, ReleaseCall, TypeOK, fields, rest, Goto, Labels, Threads
  <1>7. ASSUME NEW n \in Nodes, DestroyNode(n)
        PROVE  TypeOK'
    BY <1>2, <1>7 DEF DestroyNode
  <1>8. ASSUME NEW x \in Threads, NEW n \in Nodes, NEW y \in Workers, RetainCall(x, n, y)
        PROVE  TypeOK'
    BY <1>0, <1>8 DEF RetainCall, TypeOK, lists, fields, Goto, Labels, Threads, PeerAssumption
  <1>9. ASSUME NEW x \in Workers, WorkerRelease(x)
        PROVE  TypeOK'
    BY Zenon, <1>0, <1>9
    DEF WorkerRelease, ReleaseCall, TypeOK, lists, fields, rest, Goto, Labels, Threads
  <1>10. ASSUME NEW x \in Threads, RetainCas(x)
         PROVE  TypeOK'
    <2>1. cnt[x] + 1 \in Nat /\ to[x] \in Threads
      BY <1>0 DEF TypeOK
    <2>2. ref_cnt' \in [Nodes -> Nat] /\ pc' \in [Threads -> Labels]
      BY Zenon, <1>0, <1>10, <2>1 DEF RetainCas, TypeOK, Labels
    <2> QED
      BY Zenon, <1>0, <1>10, <2>1, <2>2 DEF RetainCas, TypeOK, lists, rest
  <1>11. ASSUME NEW x \in Threads, Inner(x)
         PROVE  TypeOK'
    <2>1. pc[x] \notin {"idle", "destroyed"} => node[x] \in Nodes
      BY <1>0
    <2>2. CASE RetainAgain(x)
      BY <1>0, <2>1, <2>2 DEF RetainAgain, TypeOK, lists, fields, rest
    <2>3. CASE IsLast(x) \/ ReleaseAgain(x) \/ OnClose(x)
      <3>1. pc' \in [Threads -> Labels]
        BY Zenon, <1>0, <2>3 DEF IsLast, ReleaseAgain, OnClose, TypeOK, Goto, Labels
      <3> QED
        BY <1>0, <2>3, <3>1 DEF IsLast, ReleaseAgain, OnClose, TypeOK, lists, fields, rest
    <2>6. CASE StoreZero(x) \/ ReleaseCas(x)
      <3>1. pc' \in [Threads -> Labels]
        BY Zenon, <1>0, <2>6 DEF StoreZero, ReleaseCas, TypeOK, Goto, Labels
      <3>2. ref_cnt' \in [Nodes -> Nat]
        BY <1>0, <2>6 DEF StoreZero, ReleaseCas, TypeOK
      <3> QED
        BY <1>0, <2>6, <3>1, <3>2 DEF StoreZero, ReleaseCas, TypeOK, lists, rest
    <2>4. CASE Load(x)
      BY <1>0, <2>1, <2>4 DEF Load, TypeOK, lists, fields, rest, Goto, Labels
    <2>5. CASE Close(x)
      <3>1. closed' \subseteq (Conns \cup {INVALID}) \X Conns
        BY <1>0, <2>1, <2>5 DEF Close, TypeOK
      <3> QED
        BY <1>0, <2>1, <2>5, <3>1 DEF Close, TypeOK, lists, Goto, Labels
    <2> QED
      BY <1>11, <2>2, <2>3, <2>4, <2>5, <2>6 DEF Inner
  <1>12. ASSUME NEW x \in Threads, Return(x)
         PROVE  TypeOK'
    <2>1. node[x] \in Nodes
      BY <1>0, <1>12 DEF Return
    <2>2. Append(peer_pool, node[x]) \in Seq(Nodes)
      BY <1>0, <2>1 DEF TypeOK
    <2> QED
      BY Zenon, <1>0, <1>12, <2>1, <2>2 DEF Return, TypeOK, lists, fields, rest, Goto, Labels
  <1>13. CASE UNCHANGED vars
    BY <1>0, <1>13 DEF vars, TypeOK, lists, fields, locals, rest
  <1> QED
    BY <1>1, <1>3, <1>4, <1>5, <1>6, <1>7, <1>8, <1>9, <1>10, <1>11, <1>12, <1>13, Steps

-----------------------------------------------------------------------------
(* The reference counts.                                                   *)

\* The node that is accepted into is free, and nobody holds its peer.
LEMMA FirstIsFree ==
  ASSUME PeerAssumption, IInv, peer_pool # <<>>
  PROVE  /\ Head(peer_pool) \in Nodes /\ IsFree(Head(peer_pool))
         /\ ref_cnt[Head(peer_pool)] = 0 /\ Holders(Head(peer_pool)) = {}
  <1>1. Head(peer_pool) \in Nodes /\ Len(peer_pool) > 0 /\ Head(peer_pool) = peer_pool[1]
    BY DEF IInv, PeersCounted, TypeOK
  <1>2. IsFree(Head(peer_pool))
    BY <1>1 DEF IsFree, IInv, PeersCounted, TypeOK
  <1>3. ref_cnt[Head(peer_pool)] = 0
    BY <1>1, <1>2 DEF IInv, NodesConserved
  <1> QED
    BY <1>1, <1>2, <1>3, NoReference DEF IInv, PeersCounted

\* A node that the event thread is giving up is not on the active list.
LEMMA GivenUpIsNotActive ==
  ASSUME IInv, pc[Ev] \in Giving, node[Ev] \in Nodes
  PROVE  node[Ev] \notin active
BY DEF IInv, NodesConserved, Recycling, Giving

\* The store of the new count takes the thread from the holders of its node.
LEMMA CountStored ==
  ASSUME PeerAssumption, IInv, NEW x \in Threads, pc[x] \in Giving,
         pc' = [pc EXCEPT ![x] = IF desired[x] = 0 THEN "on_close" ELSE "return"],
         ref_cnt' = [ref_cnt EXCEPT ![node[x]] = ref_cnt[node[x]] - 1],
         UNCHANGED <<node, active>>
  PROVE  CountIsHolders'
  <1>0. TypeOK /\ CountIsHolders
    BY DEF IInv, PeersCounted
  <1>1. node[x] \in Nodes /\ x \in Holders(node[x])
    BY HasReference DEF IInv
  <1>2. x = Ev => node[x] \notin active
    BY <1>1, GivenUpIsNotActive
  <1>3. Holders(node[x])' = Holders(node[x]) \ {x}
    BY <1>0, <1>2 DEF Holders, Giving, Threads, TypeOK, PeerAssumption
  <1>4. ASSUME NEW n \in Nodes, n # node[x]
        PROVE  Holders(n)' = Holders(n)
    BY <1>0, <1>4 DEF Holders, Giving, Threads, TypeOK, PeerAssumption
  <1>5. Cardinality(Holders(node[x]) \ {x}) = Cardinality(Holders(node[x])) - 1
    BY Zenon, <1>1, HoldersFinite, FS_RemoveElement
  <1>6. ref_cnt'[node[x]] = Cardinality(Holders(node[x])')
    BY <1>0, <1>1, <1>3, <1>5 DEF CountIsHolders, TypeOK
  <1>7. ASSUME NEW n \in Nodes, n # node[x]
        PROVE  ref_cnt'[n] = Cardinality(Holders(n)')
    BY <1>0, <1>4, <1>7 DEF CountIsHolders, TypeOK
  <1> QED
    BY <1>6, <1>7 DEF CountIsHolders

\* Steps that change no count and no holders.
LEMMA SameHolders ==
  ASSUME CountIsHolders, \A n \in Nodes : Holders(n)' = Holders(n), UNCHANGED ref_cnt
  PROVE  CountIsHolders'
BY DEF CountIsHolders

\* ref_cnt stays the number of the holders.
LEMMA CountStep ==
  ASSUME PeerAssumption, IInv, [Next]_vars
  PROVE  CountIsHolders'
  <1>0. TypeOK /\ CountIsHolders
    BY DEF IInv, PeersCounted
  <1>1. CASE Accept
    <2>0. PICK h : h = Head(peer_pool)
      OBVIOUS
    <2>1. h \in Nodes /\ Holders(h) = {}
      BY <1>1, <2>0, FirstIsFree DEF Accept
    <2>2. Holders(h)' = {Ev}
      <3>1. Holders(h)' = Holders(h) \cup {Ev}
        BY <1>1, <2>0 DEF Accept, Holders, locals
      <3> QED
        BY <2>1, <3>1
    <2>3. ref_cnt'[h] = Cardinality(Holders(h)')
      BY Zenon, <1>0, <1>1, <2>0, <2>1, <2>2, FS_Singleton DEF Accept, TypeOK
    <2>4. ASSUME NEW n \in Nodes, n # h
          PROVE  ref_cnt'[n] = Cardinality(Holders(n)')
      <3>1. Holders(n)' = Holders(n)
        BY <1>1, <2>0, <2>4 DEF Accept, Holders, locals
      <3> QED
        BY <1>0, <1>1, <2>0, <2>4, <3>1 DEF Accept, CountIsHolders, TypeOK
    <2> QED
      BY <2>3, <2>4 DEF CountIsHolders
  <1>2. CASE Clear \/ DestroyCall \/ UNCHANGED vars
    <2>1. \A n \in Nodes : Holders(n)' = Holders(n)
      BY <1>2 DEF Clear, DestroyCall, lists, locals, vars, Holders
    <2>2. UNCHANGED ref_cnt
      BY <1>2 DEF Clear, DestroyCall, fields, vars
    <2> QED
      BY <1>0, <2>1, <2>2, SameHolders
  <1>3. CASE DestroyPool
    <2>1. \A n \in Nodes : Holders(n)' = Holders(n)
      BY <1>0, <1>3 DEF DestroyPool, lists, Goto, Holders, Giving, TypeOK, Threads
    <2> QED
      BY <1>0, <1>3, <2>1, SameHolders DEF DestroyPool, fields
  <1>4. ASSUME NEW n \in Nodes, Recycle(n)
        PROVE  CountIsHolders'
    <2>1. \A m \in Nodes : Holders(m)' = Holders(m)
      BY <1>0, <1>4 DEF Recycle, ReleaseCall, Goto, Holders, Giving, TypeOK, Threads,
           PeerAssumption
    <2> QED
      BY <1>0, <1>4, <2>1, SameHolders DEF Recycle, ReleaseCall, fields
  <1>5. ASSUME NEW n \in Nodes, DestroyNode(n)
        PROVE  CountIsHolders'
    <2>1. \A m \in Nodes : Holders(m)' = Holders(m)
      BY <1>5 DEF DestroyNode, locals, Holders
    <2> QED
      BY <1>0, <1>5, <2>1, SameHolders DEF DestroyNode, fields
  <1>6. ASSUME NEW x \in Threads, NEW n \in Nodes, NEW y \in Workers, RetainCall(x, n, y)
        PROVE  CountIsHolders'
    <2>1. \A m \in Nodes : Holders(m)' = Holders(m)
      BY <1>0, <1>6 DEF RetainCall, Holds, Looping, lists, Goto, Holders, Giving, TypeOK,
           Threads, PeerAssumption
    <2> QED
      BY <1>0, <1>6, <2>1, SameHolders DEF RetainCall, fields
  <1>7. ASSUME NEW x \in Workers, WorkerRelease(x)
        PROVE  CountIsHolders'
    <2>1. \A m \in Nodes : Holders(m)' = Holders(m)
      BY <1>0, <1>7 DEF WorkerRelease, ReleaseCall, lists, Goto, Holders, Giving, TypeOK,
           Threads, PeerAssumption
    <2> QED
      BY <1>0, <1>7, <2>1, SameHolders DEF WorkerRelease, ReleaseCall, fields
  <1>8. ASSUME NEW x \in Threads, RetainCas(x)
        PROVE  CountIsHolders'
    <2>1. /\ node[x] \in Nodes
          /\ to[x] \in Workers /\ to[x] # x /\ pc[to[x]] = "idle"
      BY <1>8 DEF RetainCas, IInv, PeersCounted, ReferencesInv
    <2>2. PICK m \in Nodes : m = node[x]
      BY <2>1
    <2>3. Holders(m)' = Holders(m) \cup {to[x]} /\ to[x] \notin Holders(m)
      BY SMTT(30), <1>0, <1>8, <2>1, <2>2 DEF RetainCas, lists, Holders, Giving, TypeOK, Threads,
           PeerAssumption
    <2>4. ASSUME NEW n \in Nodes, n # m
          PROVE  Holders(n)' = Holders(n)
      BY Zenon, <1>0, <1>8, <2>1, <2>2, <2>4 DEF RetainCas, lists, Holders, Giving, TypeOK,
           Threads, PeerAssumption
    <2>5. Cardinality(Holders(m) \cup {to[x]}) = Cardinality(Holders(m)) + 1
      BY Zenon, <2>3, HoldersFinite, FS_AddElement
    <2>6. ref_cnt'[m] = Cardinality(Holders(m)')
      BY <1>0, <1>8, <2>2, <2>3, <2>5 DEF RetainCas, CountIsHolders, TypeOK
    <2>7. ASSUME NEW n \in Nodes, n # m
          PROVE  ref_cnt'[n] = Cardinality(Holders(n)')
      BY <1>0, <1>8, <2>2, <2>4, <2>7 DEF RetainCas, CountIsHolders, TypeOK
    <2> QED
      BY <2>6, <2>7 DEF CountIsHolders
  <1>9. ASSUME NEW x \in Threads, Inner(x)
        PROVE  CountIsHolders'
    <2>1. CASE RetainAgain(x)
      <3>1. \A m \in Nodes : Holders(m)' = Holders(m)
        BY <2>1 DEF RetainAgain, lists, Holders
      <3> QED
        BY <1>0, <2>1, <3>1, SameHolders DEF RetainAgain, fields
    <2>2. CASE IsLast(x) \/ Load(x) \/ ReleaseAgain(x)
      <3>1. /\ pc[x] \in Giving /\ pc'[x] \in Giving \cup {"return"}
            /\ pc' = [pc EXCEPT ![x] = pc'[x]]
        BY <1>0, <2>2 DEF IsLast, Load, ReleaseAgain, Goto, TypeOK, Giving
      <3>2. pc'[x] \in Giving
        <4>1. node[x] \in Nodes /\ ref_cnt[node[x]] # 0
          BY <1>0, <3>1, HasReference, HolderCounts DEF IInv
        <4> QED
          BY <1>0, <2>2, <4>1 DEF IsLast, Load, ReleaseAgain, Goto, TypeOK, Giving
      <3>3. \A m \in Nodes : Holders(m)' = Holders(m)
        BY Zenon, <1>0, <2>2, <3>1, <3>2 DEF IsLast, Load, ReleaseAgain, lists, Holders, TypeOK,
             Threads
      <3>4. UNCHANGED ref_cnt
        BY <2>2 DEF IsLast, Load, ReleaseAgain, fields
      <3> QED
        BY <1>0, <3>3, <3>4, SameHolders
    <2>3. CASE StoreZero(x)
      <3>1. node[x] \in Nodes /\ ref_cnt[node[x]] = 1
        BY <2>3 DEF StoreZero, IInv, PeersCounted, ReferencesInv
      <3>2. ref_cnt' = [ref_cnt EXCEPT ![node[x]] = ref_cnt[node[x]] - 1]
        BY <2>3, <3>1 DEF StoreZero
      <3> QED
        BY Zenon, <2>3, <3>2, CountStored DEF StoreZero, Goto, lists, Giving
    <2>4. CASE ReleaseCas(x)
      <3>1. desired[x] = cnt[x] - 1
        BY <2>4 DEF ReleaseCas, IInv, PeersCounted, ReferencesInv
      <3>2. ref_cnt' = [ref_cnt EXCEPT ![node[x]] = ref_cnt[node[x]] - 1]
        BY <2>4, <3>1 DEF ReleaseCas
      <3> QED
        BY Zenon, <2>4, <3>2, CountStored DEF ReleaseCas, Goto, lists, Giving
    <2>5. CASE OnClose(x) \/ Close(x)
      <3>1. \A m \in Nodes : Holders(m)' = Holders(m)
        BY <1>0, <2>5 DEF OnClose, Close, Goto, lists, Holders, Giving, TypeOK, Threads
      <3> QED
        BY <1>0, <2>5, <3>1, SameHolders DEF OnClose, Close, fields
    <2> QED
      BY <1>9, <2>1, <2>2, <2>3, <2>4, <2>5 DEF Inner
  <1>10. ASSUME NEW x \in Threads, Return(x)
         PROVE  CountIsHolders'
    <2>1. active' = active
      BY <1>10 DEF Return, lists
    <2>2. \A m \in Nodes : Holders(m)' = Holders(m)
      BY <1>0, <1>10, <2>1 DEF Return, Goto, Holders, Giving, TypeOK, Threads
    <2> QED
      BY <1>0, <1>10, <2>2, SameHolders DEF Return, fields
  <1> QED
    BY <1>1, <1>2, <1>3, <1>4, <1>5, <1>6, <1>7, <1>8, <1>9, <1>10, Steps

\* While the last holder is about to store 0, no other thread has a reference to the
\* node: none will change the count.
LEMMA LastIsAlone ==
  ASSUME PeerAssumption, IInv, NEW x \in Threads, pc[x] = "zero", NEW y \in Threads,
         y # x, pc[y] \in Giving \cup {"using", "retain"}
  PROVE  node[y] # node[x]
  <1>1. node[x] \in Nodes /\ x \in Holders(node[x])
    BY HasReference DEF IInv, Giving
  <1>2. node[y] \in Nodes /\ y \in Holders(node[y])
    BY HasReference DEF IInv
  <1>3. ref_cnt[node[x]] = 1
    BY DEF IInv, PeersCounted, ReferencesInv
  <1>4. Holders(node[x]) = {x}
    BY <1>1, <1>3, LastReference DEF IInv, PeersCounted
  <1> QED
    BY <1>2, <1>4

\* A thread keeps working on a node that is out of the pool.
LEMMA ReferencesStep ==
  ASSUME PeerAssumption, IInv, [Next]_vars
  PROVE  ReferencesInv'
  <1>0. TypeOK /\ ReferencesInv
    BY DEF IInv, PeersCounted
  <1>1. CASE Accept
    <2>1. \A x \in Threads : pc[x] = "zero" => node[x] # Head(peer_pool)
      BY <1>1, FirstIsFree, HasReference DEF Accept, IInv, Giving
    <2>2. \A x \in Threads : pc[x] = "zero" => ref_cnt'[node[x]] = 1
      BY <1>0, <1>1, <2>1 DEF Accept, TypeOK, ReferencesInv
    <2> QED
      BY <1>0, <1>1, <2>2 DEF Accept, locals, ReferencesInv
  <1>2. CASE Clear \/ DestroyCall \/ UNCHANGED vars
    BY <1>0, <1>2 DEF Clear, DestroyCall, vars, lists, locals, fields, ReferencesInv
  <1>3. CASE DestroyPool
    BY <1>0, <1>3 DEF DestroyPool, Goto, lists, fields, TypeOK, Threads, ReferencesInv,
         PeerAssumption
  <1>4. ASSUME NEW n \in Nodes, Recycle(n)
        PROVE  ReferencesInv'
    BY <1>0, <1>4 DEF Recycle, ReleaseCall, Goto, fields, TypeOK, Threads, ReferencesInv,
         PeerAssumption
  <1>5. ASSUME NEW n \in Nodes, DestroyNode(n)
        PROVE  ReferencesInv'
    BY <1>0, <1>5 DEF DestroyNode, locals, fields, ReferencesInv
  <1>6. ASSUME NEW x \in Threads, NEW n \in Nodes, NEW y \in Workers, RetainCall(x, n, y)
        PROVE  ReferencesInv'
    BY SMTT(30), <1>0, <1>6
    DEF RetainCall, Holds, Looping, Goto, lists, fields, TypeOK, Threads,
         ReferencesInv, PeerAssumption
  <1>7. ASSUME NEW x \in Workers, WorkerRelease(x)
        PROVE  ReferencesInv'
    BY <1>0, <1>7 DEF WorkerRelease, ReleaseCall, Goto, lists, fields, TypeOK, Threads,
         ReferencesInv, PeerAssumption
  <1>8. ASSUME NEW x \in Threads, RetainCas(x)
        PROVE  ReferencesInv'
    <2>1. \A z \in Threads : pc[z] = "zero" => node[z] # node[x]
      BY <1>8, LastIsAlone DEF RetainCas
    <2>2. \A z \in Threads : pc[z] = "zero" => ref_cnt'[node[z]] = 1
      BY <1>0, <1>8, <2>1 DEF RetainCas, TypeOK, ReferencesInv
    <2>3. /\ pc[x] = "retain" /\ node[x] \in Nodes
          /\ to[x] \in Workers /\ to[x] \in Threads /\ to[x] # x /\ to[x] # Ev
          /\ pc[to[x]] = "idle"
          /\ \A z \in Threads : pc[z] = "retain" /\ to[z] = to[x] => z = x
      BY <1>0, <1>8 DEF RetainCas, ReferencesInv, Threads, PeerAssumption
    <2>4. /\ pc'[x] \in {"idle", "using"} /\ (x = Ev => pc'[x] = "idle")
          /\ pc'[to[x]] = "using" /\ node'[to[x]] = node[x] /\ node'[x] = node[x]
          /\ \A z \in Threads : z # x /\ z # to[x] => pc'[z] = pc[z] /\ node'[z] = node[z]
          /\ UNCHANGED <<to, cnt, desired, active>>
      BY <1>0, <1>8, <2>3 DEF RetainCas, lists, TypeOK
    <2>5. pc'[Ev] # "using" /\ (pc'[Ev] = "retain" => node'[Ev] \in active)
      BY <1>0, <2>3, <2>4 DEF ReferencesInv, Threads
    <2>6. \A z \in Threads : pc'[z] \notin {"idle", "destroyed"} => node'[z] \in Nodes
      BY <1>0, <2>3, <2>4 DEF ReferencesInv
    <2>7. \A z \in Threads : pc'[z] = "retain" =>
            /\ to'[z] \in Workers /\ to'[z] # z /\ pc'[to'[z]] = "idle"
            /\ \A v \in Threads : pc'[v] = "retain" /\ to'[v] = to'[z] => v = z
      BY <1>0, <2>3, <2>4 DEF ReferencesInv, Threads
    <2>8. \A z \in Threads : pc'[z] = "zero" => ref_cnt'[node'[z]] = 1
      BY <1>0, <2>2, <2>3, <2>4 DEF ReferencesInv
    <2>9. \A z \in Threads : pc'[z] = "cas" => cnt'[z] > 0 /\ desired'[z] = cnt'[z] - 1
      BY <1>0, <2>3, <2>4 DEF ReferencesInv
    <2> QED
      BY Zenon, <2>4, <2>5, <2>6, <2>7, <2>8, <2>9 DEF ReferencesInv
  <1>9. ASSUME NEW x \in Threads, Inner(x)
        PROVE  ReferencesInv'
    <2>1. CASE RetainAgain(x)
      BY <1>0, <2>1 DEF RetainAgain, lists, fields, TypeOK, ReferencesInv
    <2>2. CASE IsLast(x)
      BY <1>0, <2>2 DEF IsLast, Goto, lists, fields, TypeOK, Threads, ReferencesInv
    <2>3. CASE Load(x)
      BY <1>0, <2>3 DEF Load, Goto, lists, fields, TypeOK, Threads, ReferencesInv
    <2>4. CASE ReleaseAgain(x)
      BY Zenon, <1>0, <2>4 DEF ReleaseAgain, Goto, lists, fields, TypeOK, Threads, ReferencesInv
    <2>7. CASE OnClose(x)
      BY <1>0, <2>7 DEF OnClose, Goto, lists, fields, TypeOK, Threads, ReferencesInv
    <2>5. CASE StoreZero(x) \/ ReleaseCas(x)
      <3>1. \A z \in Threads : z # x /\ pc[z] = "zero" => node[z] # node[x]
        BY Zenon, <2>5, LastIsAlone DEF StoreZero, ReleaseCas, Giving
      <3>2. \A z \in Threads : z # x /\ pc[z] = "zero" => ref_cnt'[node[z]] = 1
        <4>1. \E k : ref_cnt' = [ref_cnt EXCEPT ![node[x]] = k]
          BY <2>5 DEF StoreZero, ReleaseCas
        <4>2. \A n \in Nodes : n # node[x] => ref_cnt'[n] = ref_cnt[n]
          BY <1>0, <4>1 DEF TypeOK
        <4>3. \A z \in Threads : pc[z] = "zero" => node[z] \in Nodes /\ ref_cnt[node[z]] = 1
          BY <1>0 DEF ReferencesInv
        <4> QED BY <3>1, <4>2, <4>3
      <3>3. /\ pc[x] \notin {"idle", "retain"} /\ pc'[x] \in {"on_close", "return"}
            /\ \A z \in Threads : z # x => pc'[z] = pc[z]
            /\ UNCHANGED <<node, to, cnt, desired, active>>
        BY <1>0, <2>5 DEF StoreZero, ReleaseCas, Goto, lists, TypeOK
      <3>4. pc'[Ev] # "using" /\ (pc'[Ev] = "retain" => node'[Ev] \in active)
        BY Zenon, <1>0, <3>3 DEF ReferencesInv, Threads
      <3>5. node[x] \in Nodes
        BY <1>0, <2>5 DEF StoreZero, ReleaseCas, ReferencesInv
      <3>6. \A z \in Threads : pc'[z] \notin {"idle", "destroyed"} => node'[z] \in Nodes
        BY <1>0, <3>3, <3>5 DEF ReferencesInv
      <3>7. \A z \in Threads : pc'[z] = "retain" =>
              /\ to'[z] \in Workers /\ to'[z] # z /\ pc'[to'[z]] = "idle"
              /\ \A v \in Threads : pc'[v] = "retain" /\ to'[v] = to'[z] => v = z
        BY <1>0, <3>3, <3>5 DEF ReferencesInv, Threads
      <3>8. \A z \in Threads : pc'[z] = "zero" => ref_cnt'[node'[z]] = 1
        BY Zenon, <1>0, <3>2, <3>3, <3>5 DEF ReferencesInv
      <3>9. \A z \in Threads : pc'[z] = "cas" => cnt'[z] > 0 /\ desired'[z] = cnt'[z] - 1
        BY <1>0, <3>3, <3>5 DEF ReferencesInv
      <3> QED
        BY Zenon, <3>3, <3>4, <3>6, <3>7, <3>8, <3>9 DEF ReferencesInv
    <2>6. CASE Close(x)
      BY <1>0, <2>6 DEF Close, Goto, lists, TypeOK, Threads, ReferencesInv
    <2> QED
      BY <1>9, <2>1, <2>2, <2>3, <2>4, <2>5, <2>6, <2>7 DEF Inner
  <1>10. ASSUME NEW x \in Threads, Return(x)
         PROVE  ReferencesInv'
    BY <1>0, <1>10 DEF Return, Goto, lists, fields, TypeOK, Threads, ReferencesInv
  <1> QED
    BY <1>1, <1>2, <1>3, <1>4, <1>5, <1>6, <1>7, <1>8, <1>9, <1>10, Steps

-----------------------------------------------------------------------------
(* The nodes.                                                              *)

\* The event thread frees the node it is recycling only if nobody holds its peer.
RecycledIsUnheld ==
  pc[Ev] \in {"on_close", "close"} \/ (pc[Ev] = "return" /\ desired[Ev] = 0) =>
    ref_cnt[node[Ev]] = 0

\* Steps that leave the pool, the lists and the event thread's node alone.
LEMMA SameNodes ==
  ASSUME NodesConserved, UNCHANGED lists, \A n \in Nodes : Recycling(n)' = Recycling(n),
         \A n \in Nodes : ref_cnt[n] = 0 => ref_cnt'[n] = 0, RecycledIsUnheld'
  PROVE  NodesConserved'
BY DEF NodesConserved, lists, RecycledIsUnheld, IsFree

\* A count that is stored by a holder was not 0: free nodes stay without references.
LEMMA HeldIsNotFree ==
  ASSUME PeerAssumption, IInv, NEW x \in Threads,
         pc[x] \in Giving \cup {"using", "retain"}
  PROVE  node[x] \in Nodes /\ ref_cnt[node[x]] # 0
BY HasReference, HolderCounts DEF IInv, PeersCounted

\* The nodes of the event thread when a worker takes a step.
LEMMA WorkerStepNodes ==
  ASSUME PeerAssumption, IInv, pc'[Ev] = pc[Ev], node'[Ev] = node[Ev],
         desired'[Ev] = desired[Ev], UNCHANGED lists,
         \A n \in Nodes : ref_cnt[n] = 0 => ref_cnt'[n] = 0
  PROVE  NodesConserved'
  <1>1. \A n \in Nodes : Recycling(n)' = Recycling(n)
    BY DEF Recycling
  <1>2. RecycledIsUnheld'
    BY DEF RecycledIsUnheld, IInv, NodesConserved, PeersCounted, ReferencesInv, Threads
  <1> QED
    BY <1>1, <1>2, SameNodes DEF IInv

\* The step of accepting into the first free node.
LEMMA AcceptNodes ==
  ASSUME PeerAssumption, IInv, Accept
  PROVE  NodesConserved'
  <1> DEFINE l == Len(peer_pool)
  <1>0. TypeOK /\ l \in Nat /\ peer_pool \in Seq(Nodes) /\ NodesConserved
    BY DEF IInv, PeersCounted, TypeOK
  <1>1. PICK h \in Nodes : h = Head(peer_pool) /\ h = peer_pool[1] /\ l > 0
    BY <1>0, FirstIsFree DEF Accept
  <1>2. /\ Len(peer_pool') = l - 1
        /\ \A i \in 1 .. l - 1 : peer_pool'[i] = peer_pool[i + 1]
    BY <1>0, <1>1 DEF Accept
  <1>3. \A i, j \in 1 .. l : peer_pool[i] = peer_pool[j] => i = j
    BY <1>0 DEF NodesConserved
  <1> HIDE DEF l
  <1>4. \A i, j \in 1 .. Len(peer_pool') : peer_pool'[i] = peer_pool'[j] => i = j
    BY <1>0, <1>2, <1>3
  <1>5. \A n \in Nodes : IsFree(n)' <=> IsFree(n) /\ n # h
    <2> SUFFICES ASSUME NEW n \in Nodes
                 PROVE  IsFree(n)' <=> IsFree(n) /\ n # h
      OBVIOUS
    <2>1. ASSUME NEW i \in 1 .. Len(peer_pool'), peer_pool'[i] = n
          PROVE  IsFree(n) /\ n # h
      <3>1. i + 1 \in 1 .. l /\ i + 1 # 1 /\ 1 \in 1 .. l /\ peer_pool[i + 1] = n
        BY <1>0, <1>2, <2>1
      <3> QED
        BY <1>1, <1>3, <3>1 DEF IsFree, l
    <2>2. ASSUME NEW i \in 1 .. l, peer_pool[i] = n, n # h
          PROVE  IsFree(n)'
      <3>1. i - 1 \in 1 .. Len(peer_pool') /\ peer_pool'[i - 1] = n
        BY <1>0, <1>1, <1>2, <2>2
      <3> QED
        BY <3>1 DEF IsFree
    <2> QED
      BY <2>1, <2>2 DEF IsFree, l
  <1>6. \A n \in Nodes : (n \in active' <=> n \in active \/ n = h) /\ (n \in recycle' <=> n \in recycle)
    BY <1>1 DEF Accept
  <1>7. IsFree(h)
    BY <1>0, <1>1 DEF IsFree, l
  <1>8. \A n \in Nodes : ~Recycling(n) /\ ~Recycling(n)'
    BY DEF Accept, Looping, Recycling, Giving, locals
  <1>9. \A n \in Nodes : n # h => ref_cnt'[n] = ref_cnt[n]
    BY <1>0, <1>1 DEF Accept, TypeOK
  <1>10. pc'[Ev] = "idle"
    BY DEF Accept, Looping, locals
  <1> QED
    BY <1>0, <1>4, <1>5, <1>6, <1>7, <1>8, <1>9, <1>10 DEF NodesConserved

\* The step of freeing nodes of the recycle list.
LEMMA FreeingNodes ==
  ASSUME PeerAssumption, IInv, pc[Ev] = "idle", NEW ns \in SUBSET recycle,
         \A n \in ns : ref_cnt[n] = 0, FreeNodes(ns),
         UNCHANGED <<active, fields, locals, rest>>
  PROVE  NodesConserved'
  <1> DEFINE l == Len(peer_pool)
  <1>0. /\ TypeOK /\ l \in Nat /\ peer_pool \in Seq(Nodes) /\ NodesConserved
        /\ ns \in SUBSET Nodes
    BY DEF IInv, PeersCounted, TypeOK
  <1>1. PICK s \in Seq(ns) :
           /\ peer_pool' = peer_pool \o s
           /\ Len(s) \in Nat
           /\ \A n \in ns : \E i \in 1 .. Len(s) : s[i] = n
           /\ \A i, j \in 1 .. Len(s) : s[i] = s[j] => i = j
    BY Zenon, <1>0, FreeNodesPool DEF PeerAssumption
  <1> DEFINE k == Len(s)
  <1>2. /\ k \in Nat /\ Len(peer_pool') = l + k
        /\ \A i \in 1 .. l : peer_pool'[i] = peer_pool[i]
        /\ \A i \in 1 .. k : peer_pool'[l + i] = s[i] /\ s[i] \in ns
    <2>1. s \in Seq(Nodes) /\ k \in Nat
      BY <1>0, <1>1
    <2>2. Len(peer_pool \o s) = l + k
      BY <1>0, <2>1
    <2>3. \A i \in 1 .. l : (peer_pool \o s)[i] = peer_pool[i]
      BY <1>0, <2>1
    <2>4. ASSUME NEW i \in 1 .. k
          PROVE  (peer_pool \o s)[l + i] = s[i] /\ s[i] \in ns
      <3>1. l + i \in 1 .. l + k /\ ~(l + i <= l) /\ (l + i) - l = i
        BY <1>0, <2>1
      <3>2. (peer_pool \o s)[l + i] = s[(l + i) - l]
        BY <1>0, <2>1, <3>1
      <3>3. s[i] \in ns
        BY <1>1
      <3> QED
        BY <3>1, <3>2, <3>3
    <2> QED
      BY Zenon, <1>1, <2>1, <2>2, <2>3, <2>4
  <1>3. /\ \A i, j \in 1 .. l : peer_pool[i] = peer_pool[j] => i = j
        /\ \A i, j \in 1 .. k : s[i] = s[j] => i = j
        /\ \A n \in ns : \E i \in 1 .. k : s[i] = n
    BY <1>0, <1>1 DEF NodesConserved
  <1>4. \A i \in 1 .. l : peer_pool[i] \notin ns
    BY <1>0 DEF NodesConserved, IsFree
  <1> HIDE DEF l, k
  <1>5. ASSUME NEW i \in 1 .. l + k, i > l
        PROVE  i - l \in 1 .. k /\ i = l + (i - l) /\ peer_pool'[i] = s[i - l]
    BY <1>0, <1>2, <1>5
  <1>6. ASSUME NEW i \in 1 .. l + k, NEW j \in 1 .. l + k, peer_pool'[i] = peer_pool'[j]
        PROVE  i = j
    <2>1. CASE i <= l /\ j <= l
      BY <1>0, <1>2, <1>3, <1>6, <2>1
    <2>2. CASE i > l /\ j > l
      <3>1. i - l \in 1 .. k /\ j - l \in 1 .. k /\ s[i - l] = s[j - l]
        BY <1>5, <1>6, <2>2
      <3>2. i - l = j - l
        BY <1>3, <3>1
      <3> QED
        BY <1>0, <1>2, <3>2
    <2>3. CASE i <= l /\ j > l
      <3>1. j - l \in 1 .. k /\ peer_pool'[j] = s[j - l] /\ s[j - l] \in ns
        BY <1>2, <1>5, <2>3
      <3>2. i \in 1 .. l
        BY <1>0, <1>2, <2>3
      <3>3. peer_pool'[i] \notin ns
        BY <1>2, <1>4, <3>2
      <3> QED
        BY <1>6, <3>1, <3>3
    <2>4. CASE i > l /\ j <= l
      <3>1. i - l \in 1 .. k /\ peer_pool'[i] = s[i - l] /\ s[i - l] \in ns
        BY <1>2, <1>5, <2>4
      <3>2. j \in 1 .. l
        BY <1>0, <1>2, <2>4
      <3>3. peer_pool'[j] \notin ns
        BY <1>2, <1>4, <3>2
      <3> QED
        BY <1>6, <3>1, <3>3
    <2> QED
      BY <1>0, <1>2, <2>1, <2>2, <2>3, <2>4
  <1>7. \A n \in Nodes : IsFree(n)' <=> IsFree(n) \/ n \in ns
    <2> SUFFICES ASSUME NEW n \in Nodes
                 PROVE  IsFree(n)' <=> IsFree(n) \/ n \in ns
      OBVIOUS
    <2>1. ASSUME NEW i \in 1 .. l + k, peer_pool'[i] = n
          PROVE  IsFree(n) \/ n \in ns
      <3>1. CASE i <= l
        BY <1>0, <1>2, <2>1, <3>1 DEF IsFree, l
      <3>2. CASE i > l
        BY <1>2, <1>5, <2>1, <3>2
      <3> QED
        BY <1>0, <1>2, <3>1, <3>2
    <2>2. ASSUME NEW i \in 1 .. l, peer_pool[i] = n
          PROVE  IsFree(n)'
      <3>1. i \in 1 .. Len(peer_pool') /\ peer_pool'[i] = n
        BY <1>0, <1>2, <2>2
      <3> QED
        BY <3>1 DEF IsFree
    <2>3. ASSUME n \in ns
          PROVE  IsFree(n)'
      <3>1. PICK i \in 1 .. k : s[i] = n
        BY <1>3, <2>3
      <3>2. l + i \in 1 .. l + k
        BY <1>0, <1>2, <3>1
      <3>3. l + i \in 1 .. Len(peer_pool') /\ peer_pool'[l + i] = n
        BY <1>2, <3>1, <3>2
      <3> QED
        BY <3>3 DEF IsFree
    <2> QED
      BY <1>2, <2>1, <2>2, <2>3 DEF IsFree, l
  <1>8. /\ pc'[Ev] = "idle" /\ \A n \in Nodes : ~Recycling(n) /\ ~Recycling(n)'
        /\ UNCHANGED <<ref_cnt, active>> /\ recycle' = recycle \ ns
    BY DEF Recycling, Giving, locals, fields, FreeNodes
  <1>9. \A i, j \in 1 .. Len(peer_pool') : peer_pool'[i] = peer_pool'[j] => i = j
    BY <1>2, <1>6
  <1> QED
    BY <1>0, <1>7, <1>8, <1>9 DEF NodesConserved

\* The step of the event thread that has released the peer of a node.
LEMMA ReturnNodes ==
  ASSUME PeerAssumption, IInv, Return(Ev)
  PROVE  NodesConserved'
  <1>0. TypeOK /\ NodesConserved
    BY DEF IInv, PeersCounted
  <1>1. PICK m \in Nodes : m = node[Ev]
    BY DEF Return, IInv, PeersCounted, ReferencesInv, Threads
  <1>2. /\ pc[Ev] = "return" /\ pc'[Ev] = "idle" /\ UNCHANGED <<ref_cnt, active>>
        /\ \A n \in Nodes : (Recycling(n) <=> n = m) /\ ~Recycling(n)'
    BY <1>0, <1>1 DEF Return, Goto, Recycling, Giving, TypeOK, Threads, lists, fields
  <1>3. CASE desired[Ev] = 0
    <2> DEFINE l == Len(peer_pool)
    <2>1. /\ l \in Nat /\ Len(peer_pool') = l + 1 /\ peer_pool'[l + 1] = m
          /\ \A i \in 1 .. l : peer_pool'[i] = peer_pool[i]
          /\ UNCHANGED recycle /\ ref_cnt[m] = 0
      BY <1>0, <1>1, <1>2, <1>3 DEF Return, TypeOK, NodesConserved
    <2>2. \A i, j \in 1 .. l : peer_pool[i] = peer_pool[j] => i = j
      BY <1>0 DEF NodesConserved
    <2>3. \A i \in 1 .. l : peer_pool[i] # m
      BY <1>0, <1>2 DEF NodesConserved, IsFree
    <2> HIDE DEF l
    <2>4. \A i \in 1 .. l + 1 : i \in 1 .. l \/ i = l + 1
      BY <2>1
    <2>5. \A i, j \in 1 .. Len(peer_pool') : peer_pool'[i] = peer_pool'[j] => i = j
      BY <2>1, <2>2, <2>3, <2>4
    <2>6. l + 1 \in 1 .. l + 1 /\ \A i \in 1 .. l : i \in 1 .. l + 1
      BY <2>1
    <2>7. \A n \in Nodes : IsFree(n)' <=> IsFree(n) \/ n = m
      BY <2>1, <2>4, <2>6 DEF IsFree, l
    <2> QED
      BY <1>0, <1>2, <2>1, <2>5, <2>7 DEF NodesConserved
  <1>4. CASE desired[Ev] # 0
    <2>1. UNCHANGED peer_pool /\ recycle' = recycle \cup {m}
      BY <1>1, <1>4 DEF Return
    <2>2. \A n \in Nodes : IsFree(n)' <=> IsFree(n)
      BY <2>1 DEF IsFree
    <2> QED
      BY <1>0, <1>2, <2>1, <2>2 DEF NodesConserved
  <1> QED
    BY <1>3, <1>4

\* No node is lost, and none is in two places.
LEMMA NodesStep ==
  ASSUME PeerAssumption, IInv, [Next]_vars
  PROVE  NodesConserved'
  <1>0. TypeOK /\ NodesConserved /\ ReferencesInv
    BY DEF IInv, PeersCounted
  <1>1. CASE Accept
    BY <1>1, AcceptNodes
  <1>2. CASE Clear
    BY <1>2, FreeingNodes DEF Clear, Looping
  <1>3. CASE DestroyCall \/ UNCHANGED vars
    <2>1. UNCHANGED <<lists, locals, fields>>
      BY <1>3 DEF DestroyCall, vars
    <2> QED
      BY <2>1, WorkerStepNodes DEF locals, fields
  <1>4. CASE DestroyPool
    <2>1. pc[Ev] = "idle" /\ pc'[Ev] = "destroyed" /\ UNCHANGED <<lists, ref_cnt>>
      BY <1>0, <1>4 DEF DestroyPool, Goto, TypeOK, Threads, fields
    <2>2. \A n \in Nodes : Recycling(n)' = Recycling(n)
      BY <2>1 DEF Recycling, Giving
    <2> QED
      BY <1>0, <2>1, <2>2, SameNodes DEF RecycledIsUnheld
  <1>5. ASSUME NEW n \in Nodes, Recycle(n)
        PROVE  NodesConserved'
    <2>1. /\ pc[Ev] = "idle" /\ pc'[Ev] = "last" /\ node'[Ev] = n /\ n \in active
          /\ active' = active \ {n} /\ UNCHANGED <<peer_pool, recycle, ref_cnt>>
      BY <1>0, <1>5 DEF Recycle, ReleaseCall, Goto, TypeOK, Threads, fields
    <2>2. \A m \in Nodes : ~Recycling(m) /\ (Recycling(m)' <=> m = n)
      BY <2>1 DEF Recycling, Giving
    <2>3. \A m \in Nodes : IsFree(m)' <=> IsFree(m)
      BY <2>1 DEF IsFree
    <2> QED
      BY <1>0, <2>1, <2>2, <2>3 DEF NodesConserved
  <1>6. ASSUME NEW n \in Nodes, DestroyNode(n)
        PROVE  NodesConserved'
    BY <1>6, FreeingNodes DEF DestroyNode
  <1>7. ASSUME NEW x \in Threads, NEW n \in Nodes, NEW y \in Workers, RetainCall(x, n, y)
        PROVE  NodesConserved'
    <2>1. CASE x = Ev
      <3>1. pc[Ev] = "idle" /\ pc'[Ev] = "retain" /\ UNCHANGED <<lists, ref_cnt>>
        BY <1>0, <1>7, <2>1 DEF RetainCall, Holds, Looping, Goto, TypeOK, Threads, fields
      <3>2. \A m \in Nodes : Recycling(m)' = Recycling(m)
        BY <3>1 DEF Recycling, Giving
      <3> QED
        BY <1>0, <3>1, <3>2, SameNodes DEF RecycledIsUnheld
    <2>2. CASE x # Ev
      <3>1. /\ pc'[Ev] = pc[Ev] /\ node'[Ev] = node[Ev] /\ desired'[Ev] = desired[Ev]
            /\ UNCHANGED <<lists, ref_cnt>>
        BY <1>0, <1>7, <2>2 DEF RetainCall, Goto, TypeOK, Threads, fields
      <3> QED
        BY <3>1, WorkerStepNodes
    <2> QED
      BY <2>1, <2>2
  <1>8. ASSUME NEW x \in Workers, WorkerRelease(x)
        PROVE  NodesConserved'
    <2>1. /\ pc'[Ev] = pc[Ev] /\ node'[Ev] = node[Ev] /\ desired'[Ev] = desired[Ev]
          /\ UNCHANGED <<lists, ref_cnt>>
      BY <1>0, <1>8 DEF WorkerRelease, ReleaseCall, Goto, TypeOK, Threads, fields,
           PeerAssumption
    <2> QED
      BY <2>1, WorkerStepNodes
  <1>9. ASSUME NEW x \in Threads, RetainCas(x)
        PROVE  NodesConserved'
    <2>1. ref_cnt[node[x]] # 0 /\ to[x] # Ev
      BY <1>0, <1>9 DEF RetainCas, ReferencesInv, PeerAssumption
    <2>2. \A n \in Nodes : ref_cnt[n] = 0 => ref_cnt'[n] = 0
      BY <1>0, <1>9, <2>1 DEF RetainCas, TypeOK
    <2>3. CASE x = Ev
      <3>1. pc[Ev] = "retain" /\ pc'[Ev] = "idle" /\ UNCHANGED lists
        BY <1>0, <1>9, <2>1, <2>3 DEF RetainCas, TypeOK, Threads
      <3>2. \A m \in Nodes : Recycling(m)' = Recycling(m)
        BY <3>1 DEF Recycling, Giving
      <3> QED
        BY Zenon, <1>0, <2>2, <3>1, <3>2, SameNodes DEF RecycledIsUnheld
    <2>4. CASE x # Ev
      <3>1. /\ pc'[Ev] = pc[Ev] /\ node'[Ev] = node[Ev] /\ desired'[Ev] = desired[Ev]
            /\ UNCHANGED lists
        BY <1>0, <1>9, <2>1, <2>4 DEF RetainCas, TypeOK, Threads
      <3> QED
        BY <2>2, <3>1, WorkerStepNodes
    <2> QED
      BY <2>3, <2>4
  <1>10. ASSUME NEW x \in Threads, Inner(x)
         PROVE  NodesConserved'
    <2>1. UNCHANGED <<lists, node>>
      BY Zenon, <1>10 DEF Inner, RetainAgain, IsLast, StoreZero, Load, ReleaseCas, ReleaseAgain,
           OnClose, Close
    <2>2. \A n \in Nodes : ref_cnt[n] = 0 => ref_cnt'[n] = 0
      <3>1. CASE StoreZero(x) \/ ReleaseCas(x)
        <4>1. ref_cnt[node[x]] # 0
          BY Zenon, <3>1, HeldIsNotFree DEF StoreZero, ReleaseCas, Giving
        <4> QED
          BY <1>0, <3>1, <4>1 DEF StoreZero, ReleaseCas, TypeOK
      <3>2. CASE ~(StoreZero(x) \/ ReleaseCas(x))
        BY Zenon, <1>10, <3>2
        DEF Inner, RetainAgain, IsLast, Load, ReleaseAgain, OnClose, Close,
             fields
      <3> QED
        BY Zenon, <3>1, <3>2
    <2>3. CASE x # Ev
      <3>1. pc'[Ev] = pc[Ev] /\ desired'[Ev] = desired[Ev]
        BY Zenon, <1>0, <1>10, <2>3 DEF Inner, RetainAgain, IsLast, StoreZero, Load, ReleaseCas,
             ReleaseAgain, OnClose, Close, Goto, TypeOK, Threads
      <3> QED
        BY <2>1, <2>2, <3>1, WorkerStepNodes
    <2>4. CASE x = Ev
      <3> DEFINE Inside == Giving \cup {"on_close", "close", "return"}
      <3>1. pc'[Ev] \in Inside <=> pc[Ev] \in Inside
        BY Zenon, <1>0, <1>10, <2>4 DEF Inner, RetainAgain, IsLast, StoreZero, Load, ReleaseCas,
             ReleaseAgain, OnClose, Close, Goto, TypeOK, Threads, Giving
      <3>2. \A m \in Nodes : Recycling(m)' = Recycling(m)
        BY <2>1, <3>1 DEF Recycling
      <3>3. RecycledIsUnheld'
        <4>1. pc[Ev] \in Giving => node[Ev] \in Nodes /\ ref_cnt[node[Ev]] # 0
          BY <2>4, HeldIsNotFree
        <4>2. CASE RetainAgain(x) \/ IsLast(x) \/ ReleaseAgain(x)
          BY <1>0, <2>4, <4>2 DEF RetainAgain, IsLast, ReleaseAgain, Goto, TypeOK, Threads,
               RecycledIsUnheld
        <4>3. CASE Load(x)
          BY <1>0, <2>4, <4>1, <4>3 DEF Load, Goto, TypeOK, Threads, RecycledIsUnheld, Giving
        <4>4. CASE StoreZero(x)
          BY <1>0, <2>4, <4>1, <4>4 DEF StoreZero, Goto, TypeOK, Threads, RecycledIsUnheld,
               Giving
        <4>5. CASE ReleaseCas(x)
          BY <1>0, <2>4, <4>1, <4>5 DEF ReleaseCas, Goto, TypeOK, Threads, RecycledIsUnheld,
               Giving
        <4>6. CASE OnClose(x) \/ Close(x)
          BY <1>0, <2>4, <4>6 DEF OnClose, Close, Goto, TypeOK, Threads, RecycledIsUnheld,
               NodesConserved, fields
        <4> QED
          BY <1>10, <4>2, <4>3, <4>4, <4>5, <4>6 DEF Inner
      <3> QED
        BY <1>0, <2>1, <2>2, <3>2, <3>3, SameNodes
    <2> QED
      BY <2>3, <2>4
  <1>11. ASSUME NEW x \in Threads, Return(x)
         PROVE  NodesConserved'
    <2>1. CASE x = Ev
      BY <1>11, <2>1, ReturnNodes
    <2>2. CASE x # Ev
      <3>1. /\ pc'[Ev] = pc[Ev] /\ node'[Ev] = node[Ev] /\ desired'[Ev] = desired[Ev]
            /\ UNCHANGED <<lists, ref_cnt>>
        BY <1>0, <1>11, <2>2 DEF Return, Goto, TypeOK, Threads, fields
      <3> QED
        BY <3>1, WorkerStepNodes
    <2> QED
      BY <2>1, <2>2
  <1> QED
    BY <1>1, <1>2, <1>3, <1>4, <1>5, <1>6, <1>7, <1>8, <1>9, <1>10, <1>11, Steps

-----------------------------------------------------------------------------
(* The connections.                                                        *)

\* A thread that is closing its connection, if the node still has it, closes one that
\* nobody holds.
ClosingIsUnheld ==
  \A x \in Threads :
    pc[x] \in {"on_close", "close"} /\ conn[x] # INVALID /\ fd[node[x]] = conn[x] =>
      ref_cnt[node[x]] = 0

\* What a thread holds has been closed, if at all, by the release of another connection.
HeldIsClosedByOther ==
  \A x \in Threads : pc[x] \in {"using", "retain"} =>
    /\ fd[node[x]] \in {conn[x], INVALID}
    /\ conn[x] # INVALID => <<conn[x], conn[x]>> \notin closed
    /\ conn[x] # INVALID /\ fd[node[x]] = INVALID => IsClosed(conn[x])

\* The parts of ClosedWhenReleased.
LEMMA ClosedParts ==
  ClosedWhenReleased <=> ConnsInv /\ ClosingIsUnheld /\ HeldIsClosedByOther
BY Zenon DEF ClosedWhenReleased, ClosingIsUnheld, HeldIsClosedByOther

\* accept gives a node a connection of its own.
LEMMA AcceptConns ==
  ASSUME PeerAssumption, IInv, Accept
  PROVE  ClosedWhenReleased'
  <1>0. TypeOK /\ ReferencesInv /\ ConnsInv /\ ClosingIsUnheld /\ HeldIsClosedByOther
    BY ClosedParts DEF IInv, PeersCounted
  <1>1. PICK h \in Nodes : h = Head(peer_pool) /\ Holders(h) = {}
    BY FirstIsFree DEF Accept
  <1>2. /\ accepted \in Nat /\ accepted' = accepted + 1 /\ accepted + 1 \in Nat
        /\ fd'[h] = accepted + 1 /\ ref_cnt'[h] = 1
        /\ \A n \in Nodes : n # h => fd'[n] = fd[n] /\ ref_cnt'[n] = ref_cnt[n]
        /\ UNCHANGED <<pc, node, conn, closed>>
    BY <1>0, <1>1 DEF Accept, TypeOK, locals
  <1>3. ~IsClosed(accepted + 1) /\ \A k : IsClosed(k)' <=> IsClosed(k)
    BY <1>0, <1>2 DEF ConnsInv, IsClosed
  <1>4. /\ \A n \in Nodes : fd[n] \in Nat /\ fd[n] <= accepted
        /\ \A x \in Threads : conn[x] \in Nat /\ conn[x] <= accepted
        /\ \A c \in closed : c[2] \in Nat /\ c[2] <= accepted
    BY <1>0 DEF TypeOK, ConnsInv, Conns, INVALID
  <1>5. ConnsInv'
    <2>1. \A n \in Nodes : fd'[n] <= accepted' /\ ~\E c \in closed' : c[2] = fd'[n]
      BY <1>0, <1>2, <1>3, <1>4 DEF ConnsInv, IsClosed
    <2>2. ASSUME NEW m \in Nodes, NEW n \in Nodes, fd'[m] = fd'[n], fd'[m] # INVALID
          PROVE  m = n
      <3>1. \A k \in Nodes : k # h => fd'[k] # accepted + 1
        BY <1>2, <1>4
      <3>2. fd[m] = fd[n] /\ fd[m] # INVALID => m = n
        BY <1>0 DEF ConnsInv
      <3>3. CASE m = h
        BY <1>2, <2>2, <3>1, <3>3
      <3>4. CASE m # h /\ n = h
        BY <1>2, <2>2, <3>1, <3>4
      <3>5. CASE m # h /\ n # h
        BY <1>2, <2>2, <3>2, <3>5
      <3> QED BY <3>3, <3>4, <3>5
    <2>3. (\A x \in Threads : conn'[x] <= accepted') /\ \A c \in closed' : c[2] <= accepted'
      BY <1>2, <1>4
    <2> QED
      BY <2>1, <2>2, <2>3 DEF ConnsInv, IsClosed
  <1>6. ClosingIsUnheld'
    <2> SUFFICES ASSUME NEW x \in Threads, pc[x] \in {"on_close", "close"},
                        conn[x] # INVALID, fd'[node[x]] = conn[x]
                 PROVE  ref_cnt'[node[x]] = 0
      BY <1>2 DEF ClosingIsUnheld
    <2>1. node[x] \in Nodes /\ node[x] # h
      BY <1>0, <1>2, <1>4 DEF ReferencesInv
    <2> QED
      BY <1>0, <1>2, <2>1 DEF ClosingIsUnheld
  <1>7. HeldIsClosedByOther'
    <2>1. \A x \in Threads : pc[x] \in {"using", "retain"} => node[x] \in Nodes /\ node[x] # h
      BY <1>1, HasReference DEF IInv
    <2> QED
      BY Zenon, <1>0, <1>2, <1>3, <2>1 DEF HeldIsClosedByOther
  <1> QED
    BY <1>5, <1>6, <1>7 DEF ClosedWhenReleased, ClosingIsUnheld, HeldIsClosedByOther

\* muggle_socket_close(peer->fd) closes the connection of the node that was released.
LEMMA CloseConns ==
  ASSUME PeerAssumption, IInv, NEW x \in Threads, Close(x)
  PROVE  ClosedWhenReleased'
  <1>0. TypeOK /\ ReferencesInv /\ ConnsInv /\ ClosingIsUnheld /\ HeldIsClosedByOther
    BY ClosedParts DEF IInv, PeersCounted
  <1>1. PICK m \in Nodes : m = node[x]
    BY Zenon, <1>0 DEF Close, ReferencesInv
  <1>2. /\ pc[x] = "close" /\ pc'[x] = "return" /\ fd'[m] = INVALID
        /\ \A n \in Nodes : n # m => fd'[n] = fd[n]
        /\ \A z \in Threads : z # x => pc'[z] = pc[z]
        /\ UNCHANGED <<ref_cnt, node, conn, accepted>>
        /\ closed' = closed \cup ({conn[x]} \X ({fd[m]} \ {INVALID}))
    BY <1>0, <1>1 DEF Close, Goto, TypeOK
  <1>3. \A n \in Nodes : fd[n] \in Nat
    BY <1>0 DEF TypeOK, Conns, INVALID
  <1>4. \A k : IsClosed(k)' <=> IsClosed(k) \/ (fd[m] # INVALID /\ k = fd[m])
    <2>1. CASE fd[m] = INVALID
      BY <1>2, <2>1 DEF IsClosed
    <2>2. CASE fd[m] # INVALID
      <3>1. closed' = closed \cup {<<conn[x], fd[m]>>}
        <4>1. {fd[m]} \ {INVALID} = {fd[m]}
          BY <2>2
        <4>2. \A a, b : {a} \X {b} = {<<a, b>>}
          OBVIOUS
        <4> QED BY <1>2, <4>1, <4>2
      <3>2. <<conn[x], fd[m]>>[2] = fd[m]
        OBVIOUS
      <3> QED
        BY Zenon, <2>2, <3>1, <3>2 DEF IsClosed
    <2> QED
      BY <2>1, <2>2
  <1>5. ~IsClosed(INVALID)
    BY <1>0 DEF TypeOK, IsClosed, Conns, INVALID
  <1>6. ConnsInv'
    <2>1. \A n \in Nodes : fd'[n] <= accepted' /\ ~\E c \in closed' : c[2] = fd'[n]
      <3>1. \A n \in Nodes : n # m /\ fd[n] = fd[m] => fd[n] = INVALID
        BY <1>0 DEF ConnsInv
      <3>2. 0 <= accepted
        BY <1>0 DEF TypeOK
      <3>3. \A n \in Nodes : ~IsClosed(fd[n]) /\ fd[n] <= accepted
        BY <1>0 DEF ConnsInv
      <3>4. ASSUME NEW n \in Nodes
            PROVE  ~\E c \in closed' : c[2] = fd'[n]
        <4>1. CASE n = m
          BY <1>2, <1>4, <1>5, <4>1 DEF IsClosed
        <4>2. CASE n # m
          BY <1>2, <1>4, <1>5, <3>1, <3>3, <4>2 DEF IsClosed
        <4> QED
          BY <4>1, <4>2
      <3>5. \A n \in Nodes : fd'[n] <= accepted'
        BY <1>2, <3>2, <3>3 DEF INVALID
      <3> QED
        BY <3>4, <3>5
    <2>2. \A n, k \in Nodes : fd'[n] = fd'[k] /\ fd'[n] # INVALID => n = k
      BY <1>0, <1>2 DEF ConnsInv
    <2>3. \A z \in Threads : conn'[z] <= accepted'
      BY <1>0, <1>2 DEF ConnsInv
    <2>4. \A c \in closed' : c[2] <= accepted'
      BY <1>0, <1>2 DEF ConnsInv
    <2> QED
      BY <2>1, <2>2, <2>3, <2>4 DEF ConnsInv, IsClosed
  <1>7. ClosingIsUnheld'
    <2> SUFFICES ASSUME NEW z \in Threads, pc'[z] \in {"on_close", "close"},
                        conn[z] # INVALID, fd'[node[z]] = conn[z]
                 PROVE  ref_cnt[node[z]] = 0
      BY <1>2 DEF ClosingIsUnheld
    <2>1. z # x /\ pc[z] \in {"on_close", "close"}
      BY Zenon, <1>2
    <2>2. node[z] \in Nodes /\ node[z] # m
      BY <1>0, <1>2, <2>1 DEF ReferencesInv
    <2> QED
      BY <1>0, <1>2, <2>1, <2>2 DEF ClosingIsUnheld
  <1>8. HeldIsClosedByOther'
    <2> SUFFICES ASSUME NEW z \in Threads, pc'[z] \in {"using", "retain"}
                 PROVE  /\ fd'[node[z]] \in {conn[z], INVALID}
                        /\ conn[z] # INVALID => <<conn[z], conn[z]>> \notin closed'
                        /\ conn[z] # INVALID /\ fd'[node[z]] = INVALID => IsClosed(conn[z])'
      BY <1>2 DEF HeldIsClosedByOther
    <2>1. pc[z] \in {"using", "retain"}
      BY <1>2
    <2>2. node[z] \in Nodes /\ ref_cnt[node[z]] # 0
      BY <2>1, HeldIsNotFree
    <2>3. /\ fd[node[z]] \in {conn[z], INVALID}
          /\ conn[z] # INVALID => <<conn[z], conn[z]>> \notin closed
          /\ conn[z] # INVALID /\ fd[node[z]] = INVALID => IsClosed(conn[z])
      BY Zenon, <1>0, <2>1 DEF HeldIsClosedByOther
    <2>4. fd'[node[z]] \in {conn[z], INVALID}
      BY Zenon, <1>2, <2>2, <2>3
    <2>5. ASSUME conn[z] # INVALID, <<conn[z], conn[z]>> \in closed'
          PROVE  FALSE
      <3>1. conn[x] = conn[z] /\ fd[m] = conn[z]
        BY Zenon, <1>2, <2>3, <2>5
      <3>2. ref_cnt[m] = 0
        BY <1>0, <1>1, <1>2, <2>5, <3>1 DEF ClosingIsUnheld
      <3>3. fd[node[z]] # conn[z]
        BY <1>0, <2>2, <2>5, <3>1, <3>2 DEF ConnsInv
      <3>4. IsClosed(fd[m])
        BY <2>3, <2>5, <3>1, <3>3
      <3> QED
        BY <1>0, <3>4 DEF ConnsInv
    <2>6. ASSUME conn[z] # INVALID, fd'[node[z]] = INVALID
          PROVE  IsClosed(conn[z])'
      <3>1. IsClosed(conn[z]) \/ (fd[m] # INVALID /\ conn[z] = fd[m])
        BY Zenon, <1>2, <2>2, <2>3, <2>6
      <3> QED
        BY <1>2, <1>4, <3>1
    <2> QED
      BY <2>4, <2>5, <2>6
  <1> QED
    BY <1>6, <1>7, <1>8 DEF ClosedWhenReleased, ClosingIsUnheld, HeldIsClosedByOther

\* Steps that change neither the fields of a peer nor a connection, and after which no
\* thread holds or closes what it did not before.
LEMMA SameConns ==
  ASSUME ClosedWhenReleased, UNCHANGED <<fields, node, conn, accepted, closed>>,
         \A x \in Threads : pc'[x] \in {"using", "retain"} => pc[x] \in {"using", "retain"},
         \A x \in Threads :
           pc'[x] \in {"on_close", "close"} => pc[x] \in {"on_close", "close"}
  PROVE  ClosedWhenReleased'
BY Zenon DEF ClosedWhenReleased, ConnsInv, IsClosed, fields

\* The store of a new count: a thread goes on to close its peer only if that is 0.
LEMMA StoreConns ==
  ASSUME PeerAssumption, IInv, NEW x \in Threads, StoreZero(x) \/ ReleaseCas(x)
  PROVE  ClosedWhenReleased'
  <1>0. TypeOK /\ ReferencesInv /\ ConnsInv /\ ClosingIsUnheld /\ HeldIsClosedByOther
    BY ClosedParts DEF IInv, PeersCounted
  <1>1. node[x] \in Nodes /\ ref_cnt[node[x]] # 0
    BY Zenon, HeldIsNotFree DEF StoreZero, ReleaseCas, Giving
  <1>2. /\ UNCHANGED <<fd, node, conn, accepted, closed>>
        /\ \A z \in Threads : z # x => pc'[z] = pc[z]
        /\ \A n \in Nodes : n # node[x] => ref_cnt'[n] = ref_cnt[n]
        /\ pc'[x] \in {"on_close", "return"}
        /\ pc'[x] = "on_close" => ref_cnt'[node[x]] = 0
    BY <1>0, <1>1 DEF StoreZero, ReleaseCas, Goto, TypeOK, rest
  <1>3. ClosingIsUnheld'
    <2> SUFFICES ASSUME NEW z \in Threads, pc'[z] \in {"on_close", "close"},
                        conn[z] # INVALID, fd[node[z]] = conn[z]
                 PROVE  ref_cnt'[node[z]] = 0
      BY Zenon, <1>2 DEF ClosingIsUnheld
    <2>1. CASE z = x
      BY Zenon, <1>2, <2>1
    <2>2. CASE z # x
      <3>1. pc[z] \in {"on_close", "close"} /\ node[z] \in Nodes
        BY <1>0, <1>2, <2>2 DEF ReferencesInv
      <3>2. ref_cnt[node[z]] = 0
        BY <1>0, <3>1 DEF ClosingIsUnheld
      <3> QED
        BY <1>1, <1>2, <3>1, <3>2
    <2> QED
      BY <2>1, <2>2
  <1>4. HeldIsClosedByOther'
    BY Zenon, <1>0, <1>2 DEF HeldIsClosedByOther, IsClosed
  <1>5. ConnsInv'
    BY Zenon, <1>0, <1>2 DEF ConnsInv, IsClosed
  <1> QED
    BY Zenon, <1>3, <1>4, <1>5 DEF ClosedWhenReleased, ClosingIsUnheld, HeldIsClosedByOther

\* A peer is retained, or its release begins.
LEMMA CallConns ==
  ASSUME PeerAssumption, IInv, NEW x \in Threads, NEW n \in Nodes,
         pc' = [pc EXCEPT ![x] = "retain"] \/ pc' = [pc EXCEPT ![x] = "last"],
         node' = [node EXCEPT ![x] = n], conn' = [conn EXCEPT ![x] = fd[n]],
         UNCHANGED <<fields, accepted, closed>>
  PROVE  ClosedWhenReleased'
  <1>0. TypeOK /\ ConnsInv /\ ClosingIsUnheld /\ HeldIsClosedByOther
    BY ClosedParts DEF IInv, PeersCounted
  <1>1. /\ UNCHANGED <<fd, ref_cnt, accepted, closed>>
        /\ pc'[x] \in {"retain", "last"} /\ node'[x] = n /\ conn'[x] = fd[n]
        /\ \A z \in Threads : z # x => pc'[z] = pc[z] /\ node'[z] = node[z] /\ conn'[z] = conn[z]
    BY <1>0 DEF TypeOK, fields
  <1>2. ConnsInv'
    BY <1>0, <1>1 DEF ConnsInv, IsClosed
  <1>3. ClosingIsUnheld'
    BY Zenon, <1>0, <1>1 DEF ClosingIsUnheld
  <1>4. <<fd[n], fd[n]>> \notin closed
    <2>1. <<fd[n], fd[n]>>[2] = fd[n] /\ ~IsClosed(fd[n])
      BY <1>0 DEF ConnsInv
    <2> QED
      BY <2>1 DEF IsClosed
  <1>5. HeldIsClosedByOther'
    BY <1>0, <1>1, <1>4 DEF HeldIsClosedByOther, IsClosed
  <1> QED
    BY <1>2, <1>3, <1>5 DEF ClosedWhenReleased, ClosingIsUnheld, HeldIsClosedByOther

\* The receiver of a peer gets the connection of the sender.
LEMMA SendConns ==
  ASSUME PeerAssumption, IInv, NEW x \in Threads, RetainCas(x)
  PROVE  ClosedWhenReleased'
  <1>0. TypeOK /\ ReferencesInv /\ ConnsInv /\ ClosingIsUnheld /\ HeldIsClosedByOther
    BY ClosedParts DEF IInv, PeersCounted
  <1>1. /\ pc[x] = "retain" /\ node[x] \in Nodes /\ to[x] \in Threads /\ to[x] # x
        /\ ref_cnt[node[x]] # 0
    BY <1>0 DEF RetainCas, ReferencesInv, Threads
  <1>2. /\ UNCHANGED <<fd, accepted, closed>>
        /\ \A n \in Nodes : n # node[x] => ref_cnt'[n] = ref_cnt[n]
        /\ pc'[x] \in {"idle", "using"} /\ node'[x] = node[x] /\ conn'[x] = conn[x]
        /\ pc'[to[x]] = "using" /\ node'[to[x]] = node[x] /\ conn'[to[x]] = conn[x]
        /\ \A z \in Threads : z # x /\ z # to[x] =>
             pc'[z] = pc[z] /\ node'[z] = node[z] /\ conn'[z] = conn[z]
    BY <1>0, <1>1 DEF RetainCas, TypeOK, rest
  <1>3. ConnsInv'
    BY Zenon, <1>0, <1>1, <1>2 DEF ConnsInv, IsClosed
  <1>4. ClosingIsUnheld'
    <2> SUFFICES ASSUME NEW z \in Threads, pc'[z] \in {"on_close", "close"},
                        conn'[z] # INVALID, fd[node'[z]] = conn'[z]
                 PROVE  ref_cnt'[node'[z]] = 0
      BY Zenon, <1>2 DEF ClosingIsUnheld
    <2>1. /\ pc[z] \in {"on_close", "close"} /\ node'[z] = node[z] /\ conn'[z] = conn[z]
          /\ node[z] \in Nodes
      BY <1>0, <1>2 DEF ReferencesInv
    <2>2. ref_cnt[node[z]] = 0
      BY <1>0, <2>1 DEF ClosingIsUnheld
    <2> QED
      BY Zenon, <1>1, <1>2, <2>1, <2>2
  <1>5. HeldIsClosedByOther'
    <2>1. /\ fd[node[x]] \in {conn[x], INVALID}
          /\ conn[x] # INVALID => <<conn[x], conn[x]>> \notin closed
          /\ conn[x] # INVALID /\ fd[node[x]] = INVALID => IsClosed(conn[x])
      BY Zenon, <1>0, <1>1 DEF HeldIsClosedByOther
    <2> QED
      BY <1>0, <1>2, <2>1 DEF HeldIsClosedByOther, IsClosed
  <1> QED
    BY <1>3, <1>4, <1>5 DEF ClosedWhenReleased, ClosingIsUnheld, HeldIsClosedByOther

\* Every step keeps ClosedWhenReleased.
LEMMA ConnsStep ==
  ASSUME PeerAssumption, IInv, [Next]_vars
  PROVE  ClosedWhenReleased'
  <1>0. TypeOK /\ ReferencesInv /\ ClosedWhenReleased
    BY DEF IInv, PeersCounted
  <1>1. CASE Clear \/ DestroyCall \/ UNCHANGED vars
    <2>1. UNCHANGED <<locals, fields, accepted, closed>>
      BY <1>1 DEF Clear, DestroyCall, vars, rest
    <2> QED
      BY <1>0, <2>1, SameConns DEF locals
  <1>2. CASE DestroyPool
    <2>1. /\ UNCHANGED <<fields, node, conn, accepted, closed>>
          /\ pc'[Ev] = "destroyed" /\ \A z \in Threads : z # Ev => pc'[z] = pc[z]
      BY <1>0, <1>2 DEF DestroyPool, Goto, TypeOK, Threads, rest
    <2> QED
      BY <1>0, <2>1, SameConns
  <1>3. ASSUME NEW n \in Nodes, Recycle(n)
        PROVE  ClosedWhenReleased'
    <2>1. Ev \in Threads
      BY DEF Threads
    <2> QED
      BY Zenon, <1>3, <2>1, CallConns DEF Recycle, ReleaseCall, Goto, rest
  <1>4. ASSUME NEW n \in Nodes, DestroyNode(n)
        PROVE  ClosedWhenReleased'
    <2>1. UNCHANGED <<locals, fields, accepted, closed>>
      BY <1>4 DEF DestroyNode, rest
    <2> QED
      BY <1>0, <2>1, SameConns DEF locals
  <1>5. ASSUME NEW x \in Threads, NEW n \in Nodes, NEW y \in Workers, RetainCall(x, n, y)
        PROVE  ClosedWhenReleased'
    BY Zenon, <1>5, CallConns DEF RetainCall, Goto
  <1>6. ASSUME NEW x \in Workers, WorkerRelease(x)
        PROVE  ClosedWhenReleased'
    <2>1. x \in Threads /\ node[x] \in Nodes
      BY Zenon, <1>0, <1>6 DEF WorkerRelease, ReferencesInv, Threads
    <2> QED
      BY Zenon, <1>6, <2>1, CallConns DEF WorkerRelease, ReleaseCall, Goto, rest
  <1>7. ASSUME NEW x \in Threads, Inner(x)
        PROVE  ClosedWhenReleased'
    <2>1. CASE RetainAgain(x)
      BY <1>0, <2>1, SameConns DEF RetainAgain, rest
    <2>2. CASE IsLast(x) \/ Load(x) \/ ReleaseAgain(x) \/ OnClose(x)
      <3>1. /\ UNCHANGED <<fields, node, conn, accepted, closed>>
            /\ pc'[x] \in Giving \cup {"return"} \/ (pc[x] = "on_close" /\ pc'[x] = "close")
            /\ \A z \in Threads : z # x => pc'[z] = pc[z]
        BY <1>0, <2>2 DEF IsLast, Load, ReleaseAgain, OnClose, Goto, TypeOK, Giving, rest
      <3> QED
        BY <1>0, <3>1, SameConns DEF Giving
    <2>3. CASE StoreZero(x) \/ ReleaseCas(x)
      BY <2>3, StoreConns
    <2>4. CASE Close(x)
      BY <2>4, CloseConns
    <2> QED
      BY <1>7, <2>1, <2>2, <2>3, <2>4 DEF Inner
  <1>8. ASSUME NEW x \in Threads, Return(x)
        PROVE  ClosedWhenReleased'
    <2>1. /\ UNCHANGED <<fields, node, conn, accepted, closed>>
          /\ pc'[x] = "idle" /\ \A z \in Threads : z # x => pc'[z] = pc[z]
      BY <1>0, <1>8 DEF Return, Goto, TypeOK, rest
    <2> QED
      BY <1>0, <2>1, SameConns
  <1> QED
    BY <1>1, <1>2, <1>3, <1>4, <1>5, <1>6, <1>7, <1>8, AcceptConns, SendConns, Steps

-----------------------------------------------------------------------------
(* The theorems.                                                           *)

\* muggle_socket_event_memmgr_init establishes the invariant.
LEMMA InitIInv ==
  ASSUME PeerAssumption, Init
  PROVE  IInv
  <1>1. TypeOK
    <2>1. peer_pool \in Seq(Nodes)
      BY DEF Init, Nodes, PeerAssumption
    <2>2. pc \in [Threads -> Labels] /\ to \in [Threads -> Threads]
      BY DEF Init, Labels, Threads
    <2>3. accepted \in 0 .. MaxConns /\ sends \in 0 .. MaxSends
      BY DEF Init, PeerAssumption
    <2> QED
      BY Zenon, <2>1, <2>2, <2>3 DEF Init, TypeOK
  <1>2. \A n \in Nodes : Holders(n) = {}
    BY DEF Init, Holders, Giving, Threads
  <1>3. CountIsHolders
    BY Zenon, <1>2, FS_EmptySet DEF Init, CountIsHolders
  <1>4. ReferencesInv
    BY DEF Init, ReferencesInv, Threads
  <1>5. NodesConserved
    <2>1. Len(peer_pool) = capacity /\ \A i \in 1 .. capacity : peer_pool[i] = i
      BY DEF Init, PeerAssumption
    <2>2. \A n \in Nodes : IsFree(n) /\ ~Recycling(n)
      BY Zenon, <2>1 DEF Init, Nodes, IsFree, Recycling, Giving, Threads
    <2> QED
      BY Zenon, <2>1, <2>2 DEF Init, NodesConserved, Threads
  <1>6. ClosedWhenReleased
    BY DEF Init, ClosedWhenReleased, ConnsInv, IsClosed, INVALID
  <1> QED
    BY <1>1, <1>3, <1>4, <1>5, <1>6 DEF IInv, PeersCounted

\* The reference counts, the nodes of the event loop and the closes are right together,
\* whatever the number of nodes, workers and connections, and also when the
\* compare-and-swap fails spuriously.
THEOREM PeerInductive ==
  ASSUME PeerAssumption
  PROVE  Spec => []IInv
  <1>1. IInv /\ [Next]_vars => IInv'
    BY TypeStep, CountStep, ReferencesStep, NodesStep, ConnsStep DEF IInv, PeersCounted
  <1> QED
    BY <1>1, InitIInv, PTL DEF Spec

\* muggle_socket_peer_retain and muggle_socket_peer_release keep ref_cnt equal to the
\* number of holders, although the last release stores 0 without a compare-and-swap.
THEOREM PeersAreCounted ==
  ASSUME PeerAssumption
  PROVE  Spec => []PeersCounted
  <1>1. IInv => PeersCounted
    BY DEF IInv
  <1> QED
    BY <1>1, PeerInductive, PTL

\* No node of the event loop is lost or freed twice by memmgr_recycle, memmgr_clear and
\* memmgr_destroy, and none is free while a thread holds its peer.
THEOREM NodesAreConserved ==
  ASSUME PeerAssumption
  PROVE  Spec => []NodesConserved
  <1>1. IInv => NodesConserved
    BY DEF IInv
  <1> QED
    BY <1>1, PeerInductive, PTL

\* A peer that a thread holds is closed only by the late close of an earlier peer in the
\* same node: the reuse of nodes is the one way to lose a held connection.
THEOREM PeersAreClosedWhenReleased ==
  ASSUME PeerAssumption
  PROVE  Spec => []ClosedWhenReleased
  <1>1. IInv => ClosedWhenReleased
    BY DEF IInv
  <1> QED
    BY <1>1, PeerInductive, PTL
=============================================================================
