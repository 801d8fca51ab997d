---------------------------- MODULE QueueProofs ----------------------------
(***************************************************************************)
(* Proofs about the array blocking queue and the double buffer, for every  *)
(* set of threads, capacity and number of calls.                           *)
(***************************************************************************)
EXTENDS ArrayBlockingQueue, DoubleBuffer, ModLemmas, SequenceTheorems, FiniteSetTheorems,
        TLAPS

-----------------------------------------------------------------------------
(* Array blocking queue: the circular array and the mutex.                 *)

\* The types of the constants.
LEMMA ArrayConsts ==
  Capacity \in Nat \ {0} /\ MaxCalls \in Nat /\ Producers \cap Consumers = {}
  BY QueueAssumption

\* "if (++idx == capacity) idx = 0" counts modulo the capacity.
LEMMA StepMod ==
  ASSUME NEW n \in Nat
  PROVE  Step(n % Capacity) = (n + 1) % Capacity
  <1> DEFINE r == n % Capacity
             s == (r + 1) % Capacity
  <1>1. r \in 0 .. Capacity - 1 /\ r + 1 \in Nat
    BY ArrayConsts, DivMod
  <1>2. s = (n + 1) % Capacity
    BY Zenon, ArrayConsts, ModSucc
  <1> HIDE DEF r, s
  <1>3. CASE r + 1 = Capacity
    <2>1. s = 0
      BY <1>1, <1>3, ArrayConsts, ModOf, r + 1 = Capacity * 1 + 0 DEF s
    <2> QED BY <1>2, <1>3, <2>1 DEF Step, r
  <1>4. CASE r + 1 # Capacity
    <2>1. r + 1 \in 0 .. Capacity - 1 /\ r + 1 = Capacity * 0 + (r + 1)
      BY <1>1, <1>4, ArrayConsts
    <2>2. s = r + 1
      BY <1>1, <2>1, ArrayConsts, ModOf DEF s
    <2> QED BY <1>2, <1>4, <2>2 DEF Step, r
  <1> QED BY <1>3, <1>4

\* The queue's steps keep the types.
LEMMA ArrayTypes ==
  ASSUME IInv, [Next]_vars
  PROVE  TypeOK'
  <1> USE ArrayConsts DEF IInv, TypeOK, queue, Goto, Threads
  <1>1. CASE UNCHANGED vars
    BY <1>1 DEF vars
  <1>2. ASSUME NEW p \in Producers, PutCall(p)
        PROVE  TypeOK'
    BY <1>2 DEF PutCall
  <1>3. ASSUME NEW p \in Producers, PutWait(p)
        PROVE  TypeOK'
    BY <1>3 DEF PutWait, Wait
  <1>4. ASSUME NEW p \in Producers, Enqueue(p)
        PROVE  TypeOK'
    <2>1. data[p] \in 1 .. MaxCalls
      <3>1. pc[p] # "idle"
        BY <1>4 DEF Enqueue, EnqueueTo
      <3>2. data[p] # 0
        BY <3>1 DEF QueueInv
      <3> QED BY <3>2
    <2>2. pc' \in [Threads -> {"idle", "lock", "test", "asleep", "unlock"}]
      BY Zenon, <1>4 DEF Enqueue, EnqueueTo, NotifyOne, NotEmptyWaiters
    <2>3. put' \in Seq(1 .. MaxCalls)
      BY <1>4, <2>1 DEF Enqueue, EnqueueTo
    <2> QED BY <1>4, <2>1, <2>2, <2>3 DEF Enqueue, EnqueueTo, Step
  <1>5. ASSUME NEW c \in Consumers, TakeCall(c) \/ TakeWait(c)
        PROVE  TypeOK'
    BY Zenon, <1>5 DEF TakeCall, TakeWait, Wait
  <1>6. ASSUME NEW c \in Consumers, Dequeue(c)
        PROVE  TypeOK'
    <2>1. pc' \in [Threads -> {"idle", "lock", "test", "asleep", "unlock"}]
      BY Zenon, <1>6 DEF Dequeue, NotifyOne, NotFullWaiters
    <2>2. taken' \in Seq(0 .. MaxCalls)
      BY <1>6 DEF Dequeue
    <2> QED BY <1>6, <2>1, <2>2 DEF Dequeue, Step
  <1>7. ASSUME NEW t \in Threads, Lock(t) \/ Unlock(t) \/ Spurious(t)
        PROVE  TypeOK'
    BY Zenon, <1>7 DEF Lock, Unlock, Spurious
  <1> QED BY Zenon, <1>1, <1>2, <1>3, <1>4, <1>5, <1>6, <1>7
          DEF Next, ProducerStep, ConsumerStep

\* Whoever is between lock and unlock owns the mutex, and a producer that has been
\* called has its value.
MutexInv ==
  /\ \A t \in Threads : Inside(t) => mutex = {t}
  /\ \A p \in Producers : pc[p] # "idle" => data[p] # 0

\* At most one thread is past muggle_mutex_lock.
LEMMA ArrayMutex ==
  ASSUME IInv, [Next]_vars
  PROVE  MutexInv'
  <1> USE ArrayConsts DEF IInv, TypeOK, QueueInv, MutexInv, Inside, Goto, Threads
  <1>1. CASE UNCHANGED vars
    BY <1>1 DEF vars
  <1>2. ASSUME NEW p \in Producers, PutCall(p)
        PROVE  MutexInv'
    BY SMTT(30), <1>2 DEF PutCall
  <1>3. ASSUME NEW p \in Producers, PutWait(p)
        PROVE  MutexInv'
    <2>1. pc[p] = "test" /\ mutex = {p} /\ p \in Threads
      BY <1>3 DEF PutWait
    <2>2. \A t \in Threads : Inside(t) => t = p
      BY Zenon, <2>1
    <2>3. data' = data /\ pc'[p] = "asleep" /\ \A t \in Threads : t # p => pc'[t] = pc[t]
      BY <1>3, <2>1 DEF PutWait, Wait
    <2>4. \A t \in Threads : ~Inside(t)'
      BY Zenon, <2>2, <2>3
    <2>5. \A q \in Producers : pc'[q] # "idle" => data'[q] # 0
      BY Zenon, <2>1, <2>3
    <2> QED BY Zenon, <2>4, <2>5
  <1>4. ASSUME NEW p \in Producers, Enqueue(p)
        PROVE  MutexInv'
    BY Zenon, <1>4 DEF Enqueue, EnqueueTo, NotifyOne, NotEmptyWaiters
  <1>5. ASSUME NEW c \in Consumers, TakeCall(c) \/ TakeWait(c)
        PROVE  MutexInv'
    BY Zenon, <1>5 DEF TakeCall, TakeWait, Wait
  <1>6. ASSUME NEW c \in Consumers, Dequeue(c)
        PROVE  MutexInv'
    BY Zenon, <1>6 DEF Dequeue, NotifyOne, NotFullWaiters
  <1>7. ASSUME NEW t \in Threads, Lock(t) \/ Unlock(t) \/ Spurious(t)
        PROVE  MutexInv'
    BY Zenon, <1>7 DEF Lock, Unlock, Spurious
  <1> QED BY <1>1, <1>2, <1>3, <1>4, <1>5, <1>6, <1>7
          DEF Next, ProducerStep, ConsumerStep

\* The indices and the slots agree with the history.
RingInv ==
  /\ cnt = Len(put) - Len(taken)
  /\ take_idx = Len(taken) % Capacity
  /\ put_idx = Len(put) % Capacity
  /\ \A i \in Len(taken) + 1 .. Len(put) : datas[(i - 1) % Capacity] = put[i]
  /\ \A i \in 1 .. Len(taken) : taken[i] = put[i]

\* The lengths of the histories.
LEMMA ArrayLengths ==
  ASSUME IInv
  PROVE  /\ Len(put) \in Nat /\ Len(taken) \in Nat
         /\ Len(taken) <= Len(put) /\ Len(put) <= Len(taken) + Capacity
  BY ArrayConsts DEF IInv, TypeOK, QueueInv

\* enqueue fills the slot of no value that still waits.
LEMMA EnqueueRing ==
  ASSUME IInv, NEW p \in Producers, Enqueue(p)
  PROVE  RingInv'
  <1>0. TypeOK /\ RingInv /\ cnt < Capacity
    BY DEF IInv, QueueInv, RingInv, Enqueue, EnqueueTo
  <1>1. TypeOK /\ RingInv /\ Len(put) < Len(taken) + Capacity
    BY <1>0, ArrayLengths, ArrayConsts DEF RingInv
  <1>2. put' = Append(put, data[p]) /\ taken' = taken /\ Len(put') = Len(put) + 1
    BY <1>1 DEF Enqueue, EnqueueTo, TypeOK
  <1>3. cnt' = Len(put') - Len(taken') /\ take_idx' = Len(taken') % Capacity
    BY <1>1, <1>2, ArrayLengths DEF Enqueue, EnqueueTo, RingInv
  <1>4. put_idx' = Len(put') % Capacity
    BY <1>1, <1>2, ArrayLengths, StepMod DEF Enqueue, EnqueueTo, RingInv
  <1>5. ASSUME NEW i \in Len(taken') + 1 .. Len(put')
        PROVE  datas'[(i - 1) % Capacity] = put'[i]
    <2> DEFINE k == (i - 1) % Capacity
    <2>0. datas' = [datas EXCEPT ![put_idx] = data[p]] /\ i - 1 \in Nat
      BY <1>2, ArrayLengths DEF Enqueue, EnqueueTo
    <2>1. k \in 0 .. Capacity - 1 /\ put_idx = Len(put) % Capacity
      BY Zenon, <1>1, <2>0, ArrayConsts, DivMod DEF RingInv
    <2>2. CASE i = Len(put) + 1
      BY <1>1, <1>2, <2>0, <2>1, <2>2, ArrayLengths DEF TypeOK
    <2>3. CASE i # Len(put) + 1
      <3>1. i \in Len(taken) + 1 .. Len(put) /\ i - 1 < Len(put) /\ Len(put) < (i - 1) + Capacity
        BY <1>1, <1>2, <2>3, ArrayLengths, ArrayConsts
      <3>2. k # Len(put) % Capacity
        BY Zenon, <2>0, <3>1, ArrayLengths, ArrayConsts, ModApart
      <3>3. datas[k] = put[i]
        BY <1>1, <3>1 DEF RingInv
      <3>4. put'[i] = put[i]
        BY <1>1, <1>2, <3>1, ArrayLengths DEF TypeOK
      <3> HIDE DEF k
      <3> QED BY <1>1, <2>0, <2>1, <3>2, <3>3, <3>4 DEF TypeOK, k
    <2> QED BY <2>2, <2>3
  <1>6. ASSUME NEW i \in 1 .. Len(taken')
        PROVE  taken'[i] = put'[i]
    BY <1>1, <1>2, ArrayLengths DEF RingInv, TypeOK
  <1> QED BY <1>3, <1>4, <1>5, <1>6 DEF RingInv

\* dequeue takes the oldest value that waits.
LEMMA DequeueNext ==
  ASSUME IInv, NEW c \in Consumers, Dequeue(c)
  PROVE  /\ Len(taken) < Len(put)
         /\ taken' = Append(taken, put[Len(taken) + 1])
         /\ put' = put
  <1> DEFINE n == Len(taken) + 1
  <1>1. n \in Len(taken) + 1 .. Len(put)
    BY ArrayLengths, ArrayConsts DEF IInv, QueueInv, TypeOK, Dequeue
  <1>2. datas[(n - 1) % Capacity] = put[n]
    BY <1>1 DEF IInv, QueueInv
  <1>3. n - 1 = Len(taken)
    BY ArrayLengths
  <1>4. datas[take_idx] = put[n]
    BY <1>2, <1>3 DEF IInv, QueueInv
  <1> QED BY <1>1, <1>4, ArrayLengths DEF Dequeue

\* take moves one message out of the ring and keeps the others in place.
LEMMA DequeueRing ==
  ASSUME IInv, NEW c \in Consumers, Dequeue(c)
  PROVE  RingInv'
  <1>1. TypeOK /\ RingInv
    BY DEF IInv, QueueInv, RingInv
  <1>2. put' = put /\ taken' = Append(taken, put[Len(taken) + 1]) /\ Len(taken) < Len(put)
    BY DequeueNext
  <1>3. Len(taken') = Len(taken) + 1
    BY <1>1, <1>2 DEF TypeOK
  <1>4. cnt' = Len(put') - Len(taken') /\ put_idx' = Len(put') % Capacity
    BY <1>1, <1>2, <1>3, ArrayLengths DEF Dequeue, RingInv
  <1>5. take_idx' = Len(taken') % Capacity
    BY <1>1, <1>3, ArrayLengths, StepMod DEF Dequeue, RingInv
  <1>6. datas' = datas
    BY DEF Dequeue
  <1>7. \A i \in Len(taken') + 1 .. Len(put') : datas'[(i - 1) % Capacity] = put'[i]
    BY <1>1, <1>2, <1>3, <1>6, ArrayLengths DEF RingInv
  <1>8. \A i \in 1 .. Len(taken') : taken'[i] = put'[i]
    BY <1>1, <1>2, <1>3, ArrayLengths DEF RingInv, TypeOK
  <1> QED BY <1>4, <1>5, <1>7, <1>8 DEF RingInv

\* The other steps leave the array and the history alone.
LEMMA ArrayInv ==
  ASSUME IInv, [Next]_vars
  PROVE  IInv'
  <1>1. CASE \E p \in Producers : Enqueue(p)
    BY <1>1, EnqueueRing, ArrayTypes, ArrayMutex DEF IInv, QueueInv, MutexInv, RingInv
  <1>2. CASE \E c \in Consumers : Dequeue(c)
    BY <1>2, DequeueRing, ArrayTypes, ArrayMutex DEF IInv, QueueInv, MutexInv, RingInv
  <1>3. CASE ~(\E p \in Producers : Enqueue(p)) /\ ~(\E c \in Consumers : Dequeue(c))
    <2>1. UNCHANGED <<queue, put, taken>>
      BY <1>3 DEF Next, vars, ProducerStep, ConsumerStep, PutCall, PutWait, TakeCall,
         TakeWait, Wait, Lock, Unlock, Spurious
    <2> QED BY <2>1, ArrayTypes, ArrayMutex DEF IInv, QueueInv, MutexInv, queue
  <1> QED BY <1>1, <1>2, <1>3

\* muggle_array_blocking_queue_init establishes the invariant.
LEMMA ArrayInit == Init => IInv
  <1> SUFFICES ASSUME Init
               PROVE  IInv
    OBVIOUS
  <1>1. 0 % Capacity = 0
    BY ArrayConsts, ModOf, 0 = Capacity * 0 + 0
  <1> QED BY <1>1, ArrayConsts DEF Init, IInv, TypeOK, QueueInv, Inside, Threads

\* The array blocking queue's inductive invariant: the thread inside owns the mutex,
\* the indices count modulo the capacity, and what was taken is what was put, in order.
THEOREM ArrayInductive == Spec => []IInv
  BY ArrayInit, ArrayInv, PTL DEF Spec

-----------------------------------------------------------------------------
(* Array blocking queue: a FIFO.                                           *)

\* One more value of a sequence.
LEMMA LongerPrefix ==
  ASSUME NEW S, NEW T, NEW s \in Seq(S), NEW g \in Seq(T), Len(g) < Len(s),
         \A i \in 1 .. Len(g) : g[i] = s[i]
  PROVE  Append(g, s[Len(g) + 1]) = SubSeq(s, 1, Len(g) + 1)
  <1> DEFINE n == Len(g) + 1
             a == Append(g, s[n])
             b == SubSeq(s, 1, n)
  <1>1. n \in 1 .. Len(s) /\ s[n] \in S
    OBVIOUS
  <1>2. a \in Seq(S \cup T) /\ Len(a) = n /\ \A i \in 1 .. n : a[i] = s[i]
    BY <1>1
  <1>3. b \in Seq(S \cup T) /\ Len(b) = n /\ \A i \in 1 .. n : b[i] = s[i]
    BY <1>1
  <1> HIDE DEF a, b, n
  <1>4. a = b
    BY <1>2, <1>3, SeqEqual
  <1> QED BY <1>4 DEF a, b, n

\* put, under the mutex and with room, is the Put of the FIFO; take is its Get.
LEMMA ArrayStepIsFifo ==
  ASSUME IInv, [Next]_vars
  PROVE  [Fifo!Next]_<<put, taken>>
  <1>1. ASSUME NEW p \in Producers, Enqueue(p)
        PROVE  Fifo!Next
    <2>1. data[p] \in 1 .. MaxCalls
      <3>1. pc[p] # "idle"
        BY <1>1 DEF Enqueue, EnqueueTo
      <3>2. data[p] # 0 /\ data[p] \in 0 .. MaxCalls
        BY <3>1 DEF IInv, QueueInv, TypeOK
      <3> QED BY <3>2
    <2>2. Len(put) - Len(taken) < Capacity
      BY <1>1 DEF IInv, QueueInv, Enqueue, EnqueueTo
    <2>3. Fifo!Put(data[p])
      BY <1>1, <2>2 DEF Fifo!Put, Fifo!Inside, Enqueue, EnqueueTo
    <2> QED BY <2>1, <2>3 DEF Fifo!Next
  <1>2. ASSUME NEW c \in Consumers, Dequeue(c)
        PROVE  Fifo!Next
    <2>1. Len(taken) < Len(put) /\ put' = put
      BY <1>2, DequeueNext
    <2>2. taken' = SubSeq(put, 1, Len(taken) + 1)
      <3>1. put \in Seq(1 .. MaxCalls) /\ taken \in Seq(0 .. MaxCalls)
        BY DEF IInv, TypeOK
      <3>2. \A i \in 1 .. Len(taken) : taken[i] = put[i]
        BY DEF IInv, QueueInv
      <3>3. Append(taken, put[Len(taken) + 1]) = SubSeq(put, 1, Len(taken) + 1)
        BY <2>1, <3>1, <3>2, LongerPrefix
      <3> QED BY <1>2, <3>3, DequeueNext
    <2>3. 1 <= Len(put) - Len(taken) /\ 1 \in 1 .. 1
      BY <2>1, ArrayLengths
    <2> QED BY <2>1, <2>2, <2>3 DEF Fifo!Next, Fifo!Get, Fifo!Inside
  <1>3. CASE ~(\E p \in Producers : Enqueue(p)) /\ ~(\E c \in Consumers : Dequeue(c))
    BY <1>3 DEF Next, vars, ProducerStep, ConsumerStep, PutCall, PutWait, TakeCall,
       TakeWait, Wait, Lock, Unlock, Spurious
  <1> QED BY <1>1, <1>2, <1>3

\* muggle_array_blocking_queue_t is a FIFO of Capacity places.
THEOREM ArrayIsFifo == Spec => ImplementsFifo
  <1>1. Init => Fifo!Init
    BY DEF Init, Fifo!Init
  <1> QED BY <1>1, ArrayStepIsFifo, ArrayInductive, PTL DEF Spec, ImplementsFifo, Fifo!Spec

-----------------------------------------------------------------------------
(* Array blocking queue: no lost wake-up.                                  *)

\* A set of threads, one of which leaves.
LEMMA OneLeaves ==
  ASSUME NEW A, NEW B, IsFiniteSet(A), NEW x, A \ {x} \subseteq B, IsFiniteSet(B)
  PROVE  /\ Cardinality(A) \in Nat /\ Cardinality(B) \in Nat
         /\ Cardinality(A) <= Cardinality(B) + 1
         /\ A \subseteq B => Cardinality(A) <= Cardinality(B)
  <1>1. Cardinality(A) \in Nat /\ Cardinality(B) \in Nat
    BY FS_CardinalityType
  <1>a. IsFiniteSet(A \ {x})
    BY FS_RemoveElement
  <1>b. Cardinality(A \ {x}) \in Nat
    BY <1>a, FS_CardinalityType
  <1>c. Cardinality(A \ {x}) = IF x \in A THEN Cardinality(A) - 1 ELSE Cardinality(A)
    BY FS_RemoveElement
  <1>2. Cardinality(A) <= Cardinality(A \ {x}) + 1
    BY <1>1, <1>b, <1>c
  <1>3. Cardinality(A \ {x}) <= Cardinality(B)
    BY FS_Subset
  <1>4. A \subseteq B => Cardinality(A) <= Cardinality(B)
    BY FS_Subset
  <1> QED BY <1>1, <1>b, <1>2, <1>3, <1>4

\* A set of threads that one more enters.
LEMMA OneEnters ==
  ASSUME NEW A, NEW B, IsFiniteSet(A), NEW x, x \notin A, A \cup {x} \subseteq B,
         IsFiniteSet(B)
  PROVE  /\ Cardinality(A) \in Nat /\ Cardinality(B) \in Nat
         /\ Cardinality(A) + 1 <= Cardinality(B)
  <1>1. Cardinality(A) \in Nat /\ Cardinality(B) \in Nat
    BY FS_CardinalityType
  <1>2. Cardinality(A \cup {x}) = Cardinality(A) + 1
    BY FS_AddElement
  <1>3. Cardinality(A \cup {x}) <= Cardinality(B)
    BY FS_Subset
  <1> QED BY <1>1, <1>2, <1>3

\* The threads on their way in are finitely many.
LEMMA EnteringFinite ==
  /\ IsFiniteSet(Entering(Producers)) /\ IsFiniteSet(Entering(Producers))'
  /\ IsFiniteSet(Entering(Consumers)) /\ IsFiniteSet(Entering(Consumers))'
  BY FS_Subset, QueueAssumption DEF Entering

\* Every free place stays spoken for while a producer sleeps: the producer that fills a
\* place stops entering, and the consumer that frees one wakes a sleeper.
LEMMA ProducersStayCovered ==
  ASSUME IInv, ProducersCovered, [Next]_vars
  PROVE  ProducersCovered'
  <1> SUFFICES ASSUME NotFullWaiters' # {}
               PROVE  (Capacity - cnt <= Cardinality(Entering(Producers)))'
    BY DEF ProducersCovered
  <1> DEFINE E == Entering(Producers)
             F == Entering(Producers)'
  <1>0. /\ pc \in [Threads -> {"idle", "lock", "test", "asleep", "unlock"}]
        /\ cnt \in 0 .. Capacity /\ Capacity \in Nat
        /\ NotFullWaiters # {} => Capacity - cnt <= Cardinality(E)
    BY ArrayConsts DEF IInv, TypeOK, ProducersCovered
  <1>f. IsFiniteSet(E) /\ IsFiniteSet(F)
    BY EnteringFinite
  <1> USE DEF Threads, Entering, NotFullWaiters, Goto
  <1>1. CASE E \subseteq F /\ NotFullWaiters # {} /\ cnt' = cnt
    <2>1. Cardinality(E) \in Nat /\ Cardinality(F) \in Nat /\ Cardinality(E) <= Cardinality(F)
      BY <1>f, <1>1, FS_Subset, FS_CardinalityType
    <2> HIDE DEF E, F
    <2>2. Capacity - cnt' <= Cardinality(F)
      BY <1>0, <1>1, <2>1
    <2> QED BY <2>2 DEF F
  <1>2. ASSUME NEW p \in Producers, Enqueue(p)
        PROVE  (Capacity - cnt <= Cardinality(Entering(Producers)))'
    <2>1. E \ {p} \subseteq F /\ NotFullWaiters # {}
      BY <1>0, <1>2, ArrayConsts DEF Enqueue, EnqueueTo, NotifyOne, NotEmptyWaiters
    <2>2. cnt' = cnt + 1
      BY <1>2 DEF Enqueue, EnqueueTo
    <2> HIDE DEF E, F
    <2>3. /\ Cardinality(E) \in Nat /\ Cardinality(F) \in Nat
          /\ Cardinality(E) <= Cardinality(F) + 1
      BY <1>f, <2>1, OneLeaves
    <2>4. Capacity - cnt' <= Cardinality(F)
      BY <1>0, <2>1, <2>2, <2>3
    <2> QED BY <2>4 DEF F
  <1>3. ASSUME NEW c \in Consumers, Dequeue(c)
        PROVE  (Capacity - cnt <= Cardinality(Entering(Producers)))'
    <2>1. PICK v \in NotFullWaiters : pc' = [pc EXCEPT ![c] = "unlock", ![v] = "lock"]
      BY <1>0, <1>3, ArrayConsts DEF Dequeue, NotifyOne
    <2>2. v \notin E /\ E \cup {v} \subseteq F /\ NotFullWaiters # {}
      BY <1>0, <1>3, <2>1, ArrayConsts DEF Dequeue
    <2>3. cnt' = cnt - 1
      BY <1>3 DEF Dequeue
    <2> HIDE DEF E, F
    <2>4. /\ Cardinality(E) \in Nat /\ Cardinality(F) \in Nat
          /\ Cardinality(E) + 1 <= Cardinality(F)
      BY <1>f, <2>2, OneEnters
    <2>5. Capacity - cnt' <= Cardinality(F)
      BY <1>0, <2>2, <2>3, <2>4
    <2> QED BY <2>5 DEF F
  <1>4. ASSUME NEW p \in Producers, PutWait(p)
        PROVE  (Capacity - cnt <= Cardinality(Entering(Producers)))'
    <2>1. Cardinality(F) \in Nat /\ cnt' = Capacity
      BY <1>4, <1>f, FS_CardinalityType DEF PutWait, Wait, queue
    <2> HIDE DEF F
    <2>2. Capacity - cnt' <= Cardinality(F)
      BY <1>0, <2>1
    <2> QED BY <2>2 DEF F
  <1>5. ASSUME NEW p \in Producers, PutCall(p)
        PROVE  E \subseteq F /\ NotFullWaiters # {} /\ cnt' = cnt
    BY <1>0, <1>5 DEF PutCall, queue
  <1>6. ASSUME NEW c \in Consumers, TakeCall(c) \/ TakeWait(c)
        PROVE  E \subseteq F /\ NotFullWaiters # {} /\ cnt' = cnt
    BY <1>0, <1>6, ArrayConsts DEF TakeCall, TakeWait, Wait, queue
  <1>7. ASSUME NEW t \in Threads, Lock(t) \/ Unlock(t) \/ Spurious(t)
        PROVE  E \subseteq F /\ NotFullWaiters # {} /\ cnt' = cnt
    BY <1>0, <1>7 DEF Lock, Unlock, Spurious, queue
  <1>8. CASE UNCHANGED vars
    BY <1>1, <1>8 DEF vars, queue
  <1> HIDE DEF E, F
  <1> QED BY <1>1, <1>2, <1>3, <1>4, <1>5, <1>6, <1>7, <1>8
          DEF Next, ProducerStep, ConsumerStep

\* Every value in the queue stays spoken for while a consumer sleeps.
LEMMA ConsumersStayCovered ==
  ASSUME IInv, ConsumersCovered, [Next]_vars
  PROVE  ConsumersCovered'
  <1> SUFFICES ASSUME NotEmptyWaiters' # {}
               PROVE  (cnt <= Cardinality(Entering(Consumers)))'
    BY DEF ConsumersCovered
  <1> DEFINE E == Entering(Consumers)
             F == Entering(Consumers)'
  <1>0. /\ pc \in [Threads -> {"idle", "lock", "test", "asleep", "unlock"}]
        /\ cnt \in Nat
        /\ NotEmptyWaiters # {} => cnt <= Cardinality(E)
    BY ArrayConsts DEF IInv, TypeOK, ConsumersCovered
  <1>f. IsFiniteSet(E) /\ IsFiniteSet(F)
    BY EnteringFinite
  <1> USE DEF Threads, Entering, NotEmptyWaiters, Goto
  <1>1. CASE E \subseteq F /\ NotEmptyWaiters # {} /\ cnt' = cnt
    <2>1. Cardinality(E) \in Nat /\ Cardinality(F) \in Nat /\ Cardinality(E) <= Cardinality(F)
      BY <1>f, <1>1, FS_Subset, FS_CardinalityType
    <2> HIDE DEF E, F
    <2>2. cnt' <= Cardinality(F)
      BY <1>0, <1>1, <2>1
    <2> QED BY <2>2 DEF F
  <1>2. ASSUME NEW c \in Consumers, Dequeue(c)
        PROVE  (cnt <= Cardinality(Entering(Consumers)))'
    <2>1. E \ {c} \subseteq F /\ NotEmptyWaiters # {}
      BY <1>0, <1>2, ArrayConsts DEF Dequeue, NotifyOne, NotFullWaiters
    <2>2. cnt' = cnt - 1
      BY <1>2 DEF Dequeue
    <2> HIDE DEF E, F
    <2>3. /\ Cardinality(E) \in Nat /\ Cardinality(F) \in Nat
          /\ Cardinality(E) <= Cardinality(F) + 1
      BY <1>f, <2>1, OneLeaves
    <2>4. cnt' <= Cardinality(F)
      BY <1>0, <2>1, <2>2, <2>3
    <2> QED BY <2>4 DEF F
  <1>3. ASSUME NEW p \in Producers, Enqueue(p)
        PROVE  (cnt <= Cardinality(Entering(Consumers)))'
    <2>1. PICK v \in NotEmptyWaiters : pc' = [pc EXCEPT ![p] = "unlock", ![v] = "lock"]
      BY <1>0, <1>3, ArrayConsts DEF Enqueue, EnqueueTo, NotifyOne
    <2>2. v \notin E /\ E \cup {v} \subseteq F /\ NotEmptyWaiters # {}
      BY <1>0, <1>3, <2>1, ArrayConsts DEF Enqueue, EnqueueTo
    <2>3. cnt' = cnt + 1
      BY <1>3 DEF Enqueue, EnqueueTo
    <2> HIDE DEF E, F
    <2>4. /\ Cardinality(E) \in Nat /\ Cardinality(F) \in Nat
          /\ Cardinality(E) + 1 <= Cardinality(F)
      BY <1>f, <2>2, OneEnters
    <2>5. cnt' <= Cardinality(F)
      BY <1>0, <2>2, <2>3, <2>4
    <2> QED BY <2>5 DEF F
  <1>4. ASSUME NEW c \in Consumers, TakeWait(c)
        PROVE  (cnt <= Cardinality(Entering(Consumers)))'
    <2>1. Cardinality(F) \in Nat /\ cnt' = 0
      BY <1>4, <1>f, FS_CardinalityType DEF TakeWait, Wait, queue
    <2> HIDE DEF F
    <2>2. cnt' <= Cardinality(F)
      BY <2>1
    <2> QED BY <2>2 DEF F
  <1>5. ASSUME NEW p \in Producers, PutCall(p) \/ PutWait(p)
        PROVE  E \subseteq F /\ NotEmptyWaiters # {} /\ cnt' = cnt
    BY <1>0, <1>5, ArrayConsts DEF PutCall, PutWait, Wait, queue
  <1>6. ASSUME NEW c \in Consumers, TakeCall(c)
        PROVE  E \subseteq F /\ NotEmptyWaiters # {} /\ cnt' = cnt
    BY <1>0, <1>6 DEF TakeCall, queue
  <1>7. ASSUME NEW t \in Threads, Lock(t) \/ Unlock(t) \/ Spurious(t)
        PROVE  E \subseteq F /\ NotEmptyWaiters # {} /\ cnt' = cnt
    BY <1>0, <1>7 DEF Lock, Unlock, Spurious, queue
  <1>8. CASE UNCHANGED vars
    BY <1>1, <1>8 DEF vars, queue
  <1> HIDE DEF E, F
  <1> QED BY <1>1, <1>2, <1>3, <1>4, <1>5, <1>6, <1>7, <1>8
          DEF Next, ProducerStep, ConsumerStep

\* put and take each notify one thread, and no thread sleeps with a free place or a
\* value for it that nobody on the way in will take.
THEOREM ArraySleepersCovered == Spec => []NobodyForgotten
  <1>1. Init => ProducersCovered /\ ConsumersCovered
    BY DEF Init, ProducersCovered, ConsumersCovered, NotFullWaiters, NotEmptyWaiters, Threads
  <1>2. IInv /\ ProducersCovered /\ ConsumersCovered /\ [Next]_vars
          => (ProducersCovered /\ ConsumersCovered)'
    BY ProducersStayCovered, ConsumersStayCovered
  <1>3. IInv /\ ProducersCovered /\ ConsumersCovered => NobodyForgotten
    BY DEF NobodyForgotten
  <1> QED BY <1>1, <1>2, <1>3, ArrayInductive, PTL DEF Spec

-----------------------------------------------------------------------------
(* Double buffer: the mutex and the two buffers.                           *)

\* The types of the constants.
LEMMA DoubleConsts ==
  ASSUME DoubleAssumption
  PROVE  DblCapacity \in Nat \ {0} /\ DblMaxCalls \in Nat /\ Reader \notin DblWriters
  BY DEF DoubleAssumption

\* A value written to the back buffer is the argument of a call.
LEMMA WrittenValue ==
  ASSUME DoubleAssumption, DblIInv, NEW w \in DblWriters, Write(w)
  PROVE  dbl_data[w] \in 1 .. DblMaxCalls
  <1>1. dbl_pc[w] # "idle"
    BY DEF Write, WriteTo
  <1>2. dbl_data[w] # 0 /\ dbl_data[w] \in 0 .. DblMaxCalls
    BY <1>1 DEF DblIInv, DblTypeOK, DblMutexInv
  <1> QED BY <1>2

\* Lengths of the two buffers.
LEMMA BufferTypes ==
  ASSUME DoubleAssumption, DblIInv
  PROVE  /\ buf[front] \in Seq(1 .. DblMaxCalls) /\ buf[back] \in Seq(1 .. DblMaxCalls)
         /\ Len(buf[front]) \in 0 .. DblCapacity /\ Len(buf[back]) \in 0 .. DblCapacity
         /\ front \in {0, 1} /\ back \in {0, 1} /\ front # back
         /\ Len(dbl_put) \in Nat /\ Len(dbl_taken) \in Nat /\ read \in Nat
         /\ read <= Len(buf[front])
         /\ Len(buf[back]) <= Len(dbl_put) /\ Handed \in Nat
  <1>1. /\ buf[front] \in Seq(1 .. DblMaxCalls) /\ buf[back] \in Seq(1 .. DblMaxCalls)
        /\ Len(buf[front]) <= DblCapacity /\ Len(buf[back]) <= DblCapacity
        /\ dbl_put \in Seq(1 .. DblMaxCalls) /\ dbl_taken \in Seq(1 .. DblMaxCalls) /\ read \in Nat
        /\ front \in {0, 1} /\ back \in {0, 1} /\ front # back
        /\ read <= Len(buf[front])
    BY DoubleConsts DEF DblIInv, DblTypeOK, BufferInv
  <1>2. Len(dbl_put) - Len(buf[back]) = Len(dbl_taken) + Len(buf[front]) - read
    BY DEF DblIInv, SplitInv, Handed
  <1>3. /\ Len(buf[front]) \in Nat /\ Len(buf[back]) \in Nat
        /\ Len(dbl_put) \in Nat /\ Len(dbl_taken) \in Nat
    BY <1>1
  <1> DEFINE p == Len(dbl_put)
             b == Len(buf[back])
             f == Len(buf[front])
             t == Len(dbl_taken)
  <1>4. b <= p /\ p - b \in Nat
    <2>1. p \in Nat /\ b \in Nat /\ f \in Nat /\ t \in Nat /\ read \in Nat /\ read <= f
          /\ p - b = t + f - read
      BY Zenon, <1>1, <1>2, <1>3
    <2> HIDE DEF p, b, f, t
    <2> QED BY <2>1
  <1>5. Len(buf[front]) \in 0 .. DblCapacity /\ Len(buf[back]) \in 0 .. DblCapacity
    BY <1>1, <1>3, DoubleConsts
  <1> QED BY <1>1, <1>3, <1>4, <1>5 DEF Handed

\* Every step keeps the types.
LEMMA DoubleTypes ==
  ASSUME DoubleAssumption, DblIInv, [DblNext]_dblVars
  PROVE  DblTypeOK'
  <1> USE DoubleConsts DEF DblIInv, DblTypeOK, DblGoto, DblThreads, OK, FULL
  <1>1. CASE UNCHANGED dblVars
    BY <1>1 DEF dblVars
  <1>2. ASSUME NEW w \in DblWriters, DblWriteCall(w)
        PROVE  DblTypeOK'
    BY <1>2 DEF DblWriteCall
  <1>3. ASSUME NEW w \in DblWriters, WriteFull(w)
        PROVE  DblTypeOK'
    BY Zenon, <1>3 DEF WriteFull
  <1>4. ASSUME NEW w \in DblWriters, Write(w)
        PROVE  DblTypeOK'
    <2>1. dbl_data[w] \in 1 .. DblMaxCalls
      BY <1>4, WrittenValue
    <2>2. dbl_pc' \in [DblThreads -> {"idle", "lock", "test", "asleep", "unlock", "use"}]
      BY Zenon, <1>4 DEF Write, WriteTo, DblNotifyOne, DblNotEmptyWaiters
    <2>3. dbl_put' \in Seq(1 .. DblMaxCalls)
      BY <1>4, <2>1 DEF Write, WriteTo
    <2>4. /\ buf' = [buf EXCEPT ![back] = Append(buf[back], dbl_data[w])]
          /\ Append(buf[back], dbl_data[w]) \in Seq(1 .. DblMaxCalls)
          /\ Len(Append(buf[back], dbl_data[w])) <= DblCapacity
      <3>1. Len(buf[back]) < DblCapacity /\ Len(buf[back]) \in Nat /\ buf[back] \in Seq(1 .. DblMaxCalls)
        BY SMTT(30), <1>4, BufferTypes DEF Write, WriteTo
      <3> QED BY <1>4, <2>1, <3>1 DEF Write, WriteTo
    <2>5. buf' \in [{0, 1} -> Seq(1 .. DblMaxCalls)] /\ \A b \in {0, 1} : Len(buf'[b]) <= DblCapacity
      BY <2>4
    <2> QED BY Zenon, <1>4, <2>1, <2>2, <2>3, <2>5 DEF Write, WriteTo
  <1>5. CASE DblReadCall \/ DblReadWait
    BY SMTT(30), <1>5 DEF DblReadCall, DblReadWait
  <1>6. CASE Look
    <2>1. read + 1 \in 0 .. DblCapacity /\ buf[front][read + 1] \in 1 .. DblMaxCalls
      <3> DEFINE F == buf[front]
      <3>1. /\ F \in Seq(1 .. DblMaxCalls) /\ Len(F) \in 0 .. DblCapacity
            /\ read \in Nat /\ read < Len(F)
        BY Zenon, <1>6, BufferTypes DEF Look
      <3> HIDE DEF F
      <3>2. read + 1 \in 0 .. DblCapacity /\ read + 1 \in 1 .. Len(F)
        BY <3>1
      <3>3. F[read + 1] \in 1 .. DblMaxCalls
        BY Zenon, <3>1, <3>2, ElementOfSeq
      <3> QED BY <3>2, <3>3 DEF F
    <2>2. dbl_taken' \in Seq(1 .. DblMaxCalls)
      BY <1>6, <2>1 DEF Look
    <2> QED BY Zenon, <1>6, <2>1, <2>2 DEF Look
  <1>7. CASE Swap
    <2>1. dbl_pc' \in [DblThreads -> {"idle", "lock", "test", "asleep", "unlock", "use"}]
      BY Zenon, <1>7 DEF Swap, DblNotifyOne, DblNotFullWaiters
    <2>2. buf' = [buf EXCEPT ![front] = <<>>] /\ <<>> \in Seq(1 .. DblMaxCalls) /\ Len(<<>>) = 0
      BY <1>7 DEF Swap
    <2>3. buf' \in [{0, 1} -> Seq(1 .. DblMaxCalls)] /\ \A b \in {0, 1} : Len(buf'[b]) <= DblCapacity
      BY <2>2
    <2> QED BY <1>7, <2>1, <2>3 DEF Swap
  <1>8. ASSUME NEW t \in DblThreads, DblLock(t) \/ DblUnlock(t) \/ DblSpurious(t)
        PROVE  DblTypeOK'
    <2>1. CASE DblLock(t)
      BY <2>1 DEF DblLock
    <2>2. CASE DblUnlock(t)
      BY <2>2 DEF DblUnlock
    <2>3. CASE DblSpurious(t)
      BY <2>3 DEF DblSpurious
    <2> QED BY Zenon, <1>8, <2>1, <2>2, <2>3
  <1> QED BY Zenon, <1>1, <1>2, <1>3, <1>4, <1>5, <1>6, <1>7, <1>8
          DEF DblNext, DblWriterStep, DblReaderStep

\* At most one thread is past muggle_mutex_lock.
LEMMA DoubleMutex ==
  ASSUME DoubleAssumption, DblIInv, [DblNext]_dblVars
  PROVE  DblMutexInv'
  <1> USE DoubleConsts DEF DblIInv, DblTypeOK, DblMutexInv, DblInside, DblGoto, DblThreads
  <1>1. CASE UNCHANGED dblVars
    BY <1>1 DEF dblVars
  <1>2. ASSUME NEW w \in DblWriters, DblWriteCall(w) \/ WriteFull(w)
        PROVE  DblMutexInv'
    <2>1. CASE DblWriteCall(w)
      BY <2>1 DEF DblWriteCall
    <2>2. CASE WriteFull(w)
      <3>1. dbl_pc[w] = "test" /\ dbl_mutex = {w} /\ w \in DblThreads
        BY <2>2 DEF WriteFull
      <3>2. \A t \in DblThreads : DblInside(t) => t = w
        BY Zenon, <3>1
      <3>3. /\ dbl_data' = dbl_data /\ dbl_pc'[w] \in {"idle", "asleep"}
            /\ \A t \in DblThreads : t # w => dbl_pc'[t] = dbl_pc[t]
        BY <2>2, <3>1 DEF WriteFull
      <3>4. \A t \in DblThreads : ~DblInside(t)'
        BY Zenon, <3>2, <3>3
      <3>5. \A v \in DblWriters : dbl_pc'[v] # "use" /\ (dbl_pc'[v] # "idle" => dbl_data'[v] # 0)
        BY Zenon, <3>1, <3>3
      <3> QED BY Zenon, <3>4, <3>5
    <2> QED BY <1>2, <2>1, <2>2
  <1>3. ASSUME NEW w \in DblWriters, Write(w)
        PROVE  DblMutexInv'
    BY Zenon, <1>3 DEF Write, WriteTo, DblNotifyOne, DblNotEmptyWaiters
  <1>4. CASE Look \/ DblReadCall \/ DblReadWait
    BY Zenon, <1>4 DEF Look, DblReadCall, DblReadWait
  <1>5. CASE Swap
    BY Zenon, <1>5 DEF Swap, DblNotifyOne, DblNotFullWaiters
  <1>6. ASSUME NEW t \in DblThreads, DblLock(t) \/ DblUnlock(t) \/ DblSpurious(t)
        PROVE  DblMutexInv'
    <2>1. CASE DblLock(t)
      BY <2>1 DEF DblLock
    <2>2. CASE DblUnlock(t)
      BY Zenon, <2>2 DEF DblUnlock
    <2>3. CASE DblSpurious(t)
      BY <2>3 DEF DblSpurious
    <2> QED BY <1>6, <2>1, <2>2, <2>3
  <1> QED BY Zenon, <1>1, <1>2, <1>3, <1>4, <1>5, <1>6 DEF DblNext, DblWriterStep, DblReaderStep

\* Every step keeps the two buffers, and what the reader has seen of them, consistent.
LEMMA DoubleBuffers ==
  ASSUME DoubleAssumption, DblIInv, [DblNext]_dblVars
  PROVE  BufferInv'
  <1> USE DoubleConsts DEF DblIInv, DblTypeOK, BufferInv, DblGoto, DblThreads
  <1>1. CASE UNCHANGED dblVars
    BY <1>1 DEF dblVars
  <1>2. ASSUME NEW w \in DblWriters, DblWriteCall(w) \/ WriteFull(w)
        PROVE  BufferInv'
    <2>1. UNCHANGED <<buf, front, back, read>>
      BY <1>2 DEF DblWriteCall, WriteFull
    <2>2. dbl_pc'[Reader] = dbl_pc[Reader]
      BY <1>2 DEF DblWriteCall, WriteFull
    <2> QED BY <2>1, <2>2
  <1>3. ASSUME NEW w \in DblWriters, Write(w)
        PROVE  BufferInv'
    <2>1. buf'[front] = buf[front] /\ front' = front /\ back' = back /\ read' = read
      BY <1>3, BufferTypes DEF Write, WriteTo
    <2>2. dbl_pc'[Reader] = dbl_pc[Reader] \/ dbl_pc[Reader] = "asleep"
      BY <1>3 DEF Write, WriteTo, DblNotifyOne, DblNotEmptyWaiters
    <2> QED BY <2>1, <2>2
  <1>4. CASE DblReadCall \/ DblReadWait
    BY <1>4 DEF DblReadCall, DblReadWait
  <1>5. CASE Look
    BY <1>5, BufferTypes DEF Look
  <1>6. CASE Swap
    <2>1. front' = back /\ back' = front /\ read' = 0
      BY <1>6 DEF Swap
    <2>2. dbl_pc'[Reader] = "unlock"
      BY <1>6 DEF Swap, DblNotifyOne, DblNotFullWaiters
    <2>3. buf'[back] = buf[back]
      BY <1>6, BufferTypes DEF Swap
    <2> QED BY <2>1, <2>2, <2>3, BufferTypes
  <1>7. ASSUME NEW t \in DblThreads, DblLock(t) \/ DblUnlock(t) \/ DblSpurious(t)
        PROVE  BufferInv'
    <2>1. CASE DblLock(t)
      BY <2>1 DEF DblLock
    <2>2. CASE DblUnlock(t)
      BY <2>2 DEF DblUnlock
    <2>3. CASE DblSpurious(t)
      BY <2>3 DEF DblSpurious
    <2> QED BY <1>7, <2>1, <2>2, <2>3
  <1> QED BY <1>1, <1>2, <1>3, <1>4, <1>5, <1>6, <1>7 DEF DblNext, DblWriterStep, DblReaderStep

\* A write adds its value to the end of the back buffer, and so of everything written.
LEMMA WriteSplit ==
  ASSUME DoubleAssumption, DblIInv, NEW w \in DblWriters, Write(w)
  PROVE  SplitInv' /\ Handed' = Handed
  <1>1. dbl_data[w] \in 1 .. DblMaxCalls /\ dbl_put \in Seq(1 .. DblMaxCalls)
    BY WrittenValue DEF DblIInv, DblTypeOK
  <1> DEFINE b == Append(buf[back], dbl_data[w])
             n == Len(dbl_put)
             m == Len(buf[back])
  <1>2. /\ front' = front /\ back' = back /\ read' = read /\ dbl_taken' = dbl_taken
        /\ dbl_put' = Append(dbl_put, dbl_data[w]) /\ buf'[front] = buf[front] /\ buf'[back] = b
    BY Zenon, BufferTypes DEF Write, WriteTo, DblIInv, DblTypeOK
  <1>3. /\ Len(b) = m + 1 /\ b[m + 1] = dbl_data[w] /\ \A i \in 1 .. m : b[i] = buf[back][i]
        /\ m \in Nat
    BY <1>1, BufferTypes
  <1>4. /\ Len(dbl_put') = n + 1 /\ dbl_put'[n + 1] = dbl_data[w] /\ \A i \in 1 .. n : dbl_put'[i] = dbl_put[i]
        /\ n \in Nat
    BY <1>1, <1>2
  <1>5. Handed' = Handed /\ Handed = n - m /\ Handed \in Nat
    BY <1>2, <1>3, <1>4, BufferTypes DEF Handed
  <1>6. /\ Handed = Len(dbl_taken) + Len(buf[front]) - read
        /\ \A i \in 1 .. Len(dbl_taken) : dbl_taken[i] = dbl_put[i]
        /\ \A i \in read + 1 .. Len(buf[front]) : buf[front][i] = dbl_put[Len(dbl_taken) - read + i]
        /\ \A i \in 1 .. m : buf[back][i] = dbl_put[Handed + i]
    BY DEF DblIInv, SplitInv
  <1> HIDE DEF b, n, m
  <1>7. \A i \in 1 .. Len(dbl_taken) : dbl_taken[i] = dbl_put'[i]
    BY SMTT(30), <1>4, <1>5, <1>6, BufferTypes DEF m
  <1>8. \A i \in read + 1 .. Len(buf[front]) : buf[front][i] = dbl_put'[Len(dbl_taken) - read + i]
    <2> SUFFICES ASSUME NEW i \in read + 1 .. Len(buf[front])
                 PROVE  buf[front][i] = dbl_put'[Len(dbl_taken) - read + i]
      OBVIOUS
    <2> DEFINE t == Len(dbl_taken)
               f == Len(buf[front])
    <2>0. /\ t \in Nat /\ f \in Nat /\ read \in Nat /\ m \in Nat /\ i \in Int
          /\ read + 1 <= i /\ i <= f /\ n - m = t + f - read
      BY <1>3, <1>5, <1>6, BufferTypes
    <2>1. t - read + i \in 1 .. n
      <3> HIDE DEF t, f
      <3> QED BY <1>4, <2>0
    <2> QED BY <1>4, <1>6, <2>1
  <1>9. \A i \in 1 .. m + 1 : b[i] = dbl_put'[Handed + i]
    BY <1>3, <1>4, <1>5, <1>6
  <1>10. Handed' = Len(dbl_taken') + Len(buf'[front']) - read'
    BY <1>2, <1>5, <1>6
  <1>11. \A i \in 1 .. Len(dbl_taken') : dbl_taken'[i] = dbl_put'[i]
    BY Zenon, <1>2, <1>7
  <1>12. \A i \in read' + 1 .. Len(buf'[front']) :
           buf'[front'][i] = dbl_put'[Len(dbl_taken') - read' + i]
    BY Zenon, <1>2, <1>8
  <1>13. \A i \in 1 .. Len(buf'[back']) : buf'[back'][i] = dbl_put'[Handed' + i]
    BY Zenon, <1>2, <1>3, <1>5, <1>9
  <1> QED BY <1>5, <1>10, <1>11, <1>12, <1>13 DEF SplitInv

\* The reader looks at the values in the order in which they were written.
LEMMA LookSplit ==
  ASSUME DoubleAssumption, DblIInv, Look
  PROVE  SplitInv' /\ Handed' = Handed
  <1>1. /\ buf' = buf /\ front' = front /\ back' = back /\ dbl_put' = dbl_put
        /\ read' = read + 1 /\ dbl_taken' = Append(dbl_taken, buf[front][read + 1])
        /\ read < Len(buf[front])
    BY DEF Look
  <1>2. buf[front][read + 1] = dbl_put[Len(dbl_taken) + 1]
    <2>1. read + 1 \in read + 1 .. Len(buf[front])
          /\ Len(dbl_taken) - read + (read + 1) = Len(dbl_taken) + 1
      BY <1>1, BufferTypes
    <2> QED BY <2>1 DEF DblIInv, SplitInv
  <1>3. /\ Len(dbl_taken') = Len(dbl_taken) + 1
        /\ \A i \in 1 .. Len(dbl_taken) : dbl_taken'[i] = dbl_taken[i]
        /\ dbl_taken'[Len(dbl_taken) + 1] = dbl_put[Len(dbl_taken) + 1]
    BY <1>1, <1>2 DEF DblIInv, DblTypeOK
  <1>4. Handed' = Handed
    BY <1>1 DEF Handed
  <1>5. Handed = Len(dbl_taken') + Len(buf[front]) - read'
    <2> DEFINE t == Len(dbl_taken)
               f == Len(buf[front])
    <2>1. Handed = t + f - read /\ t \in Nat /\ f \in Nat /\ read \in Nat
      BY BufferTypes DEF DblIInv, SplitInv
    <2>2. t + f - read = (t + 1) + f - (read + 1)
      <3> HIDE DEF t, f
      <3> QED BY <2>1
    <2> QED BY Zenon, <1>1, <1>3, <2>1, <2>2
  <1>6. ASSUME NEW i \in 1 .. Len(dbl_taken')
        PROVE  dbl_taken'[i] = dbl_put[i]
    <2>1. \A j \in 1 .. Len(dbl_taken) : dbl_taken[j] = dbl_put[j]
      BY DEF DblIInv, SplitInv
    <2>2. i \in 1 .. Len(dbl_taken) \/ i = Len(dbl_taken) + 1
      BY <1>3, BufferTypes
    <2>3. CASE i \in 1 .. Len(dbl_taken)
      <3>1. dbl_taken'[i] = dbl_taken[i]
        BY <1>3, <2>3
      <3> QED BY <2>1, <2>3, <3>1
    <2>4. CASE i = Len(dbl_taken) + 1
      BY <1>3, <2>4
    <2> QED BY <2>2, <2>3, <2>4
  <1>7. ASSUME NEW i \in read' + 1 .. Len(buf[front])
        PROVE  buf[front][i] = dbl_put[Len(dbl_taken') - read' + i]
    <2> DEFINE t == Len(dbl_taken)
               f == Len(buf[front])
    <2>0. t \in Nat /\ f \in Nat /\ read \in Nat /\ i \in (read + 1) + 1 .. f
      BY <1>1, BufferTypes
    <2>a. i \in read + 1 .. f /\ (t + 1) - (read + 1) + i = t - read + i
      <3> HIDE DEF t, f
      <3> QED BY <2>0
    <2>1. i \in read + 1 .. Len(buf[front])
          /\ Len(dbl_taken') - read' + i = Len(dbl_taken) - read + i
      BY <1>1, <1>3, <2>a
    <2> QED BY <2>1 DEF DblIInv, SplitInv
  <1>8. \A i \in 1 .. Len(buf[back]) : buf[back][i] = dbl_put[Handed + i]
    BY DEF DblIInv, SplitInv
  <1> QED BY <1>1, <1>4, <1>5, <1>6, <1>7, <1>8 DEF SplitInv

\* A swap hands the reader what follows the values it has looked at.
LEMMA SwapSplit ==
  ASSUME DoubleAssumption, DblIInv, Swap
  PROVE  SplitInv' /\ Handed' = Len(dbl_put)
  <1>1. /\ front' = back /\ back' = front /\ read' = 0 /\ dbl_put' = dbl_put /\ dbl_taken' = dbl_taken
        /\ buf'[back] = buf[back] /\ buf'[front] = <<>>
    BY BufferTypes DEF Swap, DblIInv, DblTypeOK
  <1>2. read = Len(buf[front])
    BY DEF Swap, DblIInv, BufferInv
  <1>3. Handed = Len(dbl_taken) /\ Handed' = Len(dbl_put) /\ Len(dbl_put) = Len(dbl_taken) + Len(buf[back])
    BY <1>1, <1>2, BufferTypes DEF DblIInv, SplitInv, Handed
  <1>4. \A i \in 1 .. Len(dbl_taken) : dbl_taken[i] = dbl_put[i]
    BY DEF DblIInv, SplitInv
  <1>5. ASSUME NEW i \in 0 + 1 .. Len(buf[back])
        PROVE  buf[back][i] = dbl_put[Len(dbl_taken) - 0 + i]
    <2>1. i \in 1 .. Len(buf[back]) /\ Len(dbl_taken) - 0 + i = Handed + i
      BY <1>3, BufferTypes
    <2> QED BY <2>1 DEF DblIInv, SplitInv
  <1>6. Len(dbl_put) = Len(dbl_taken) + Len(buf[back]) - 0
    BY <1>3, BufferTypes
  <1> QED BY <1>1, <1>3, <1>4, <1>5, <1>6 DEF SplitInv

\* Every step keeps the invariant.
LEMMA DoubleInv ==
  ASSUME DoubleAssumption, DblIInv, [DblNext]_dblVars
  PROVE  DblIInv'
  <1>1. CASE Look \/ Swap \/ \E w \in DblWriters : Write(w)
    BY <1>1, WriteSplit, LookSplit, SwapSplit, DoubleTypes, DoubleMutex, DoubleBuffers
       DEF DblIInv
  <1>2. CASE ~(Look \/ Swap \/ \E w \in DblWriters : Write(w))
    <2>1. UNCHANGED <<buf, front, back, read, dbl_put, dbl_taken>>
      BY <1>2 DEF DblNext, dblVars, DblWriterStep, DblReaderStep, DblWriteCall, WriteFull,
         DblReadCall, DblReadWait,
         DblLock, DblUnlock, DblSpurious
    <2>2. SplitInv'
      BY Zenon, <2>1 DEF DblIInv, SplitInv, Handed
    <2> QED BY <2>2, DoubleTypes, DoubleMutex, DoubleBuffers DEF DblIInv
  <1> QED BY <1>1, <1>2

\* muggle_double_buffer_init establishes the invariant.
LEMMA DoubleInit ==
  ASSUME DoubleAssumption
  PROVE  DblInit => DblIInv
  BY DoubleConsts DEF DblInit, DblIInv, DblTypeOK, DblMutexInv, BufferInv, SplitInv,
     Handed, DblInside, DblThreads,
     OK, FULL

\* The double buffer's inductive invariant: the thread inside owns the mutex, the buffers
\* are apart, and what the reader saw, was handed and will be handed is what was written.
THEOREM DoubleInductive ==
  ASSUME DoubleAssumption
  PROVE  DblSpec => []DblIInv
  BY DoubleInit, DoubleInv, PTL DEF DblSpec

-----------------------------------------------------------------------------
(* Double buffer: what its users rely on.                                  *)

\* What the concatenation of two sequences holds.
LEMMA Joined ==
  ASSUME NEW S, NEW s \in Seq(S), NEW u \in Seq(S), NEW a, a = s \o u
  PROVE  /\ a \in Seq(S)
         /\ Len(a) = Len(s) + Len(u)
         /\ \A i \in 1 .. Len(s) + Len(u) : a[i] = IF i <= Len(s) THEN s[i] ELSE u[i - Len(s)]
  BY ConcatProperties, Zenon

\* p holds the values of s, those of u and those of e, in this order.
IsSplit(S, p, s, u, e) ==
  /\ p \in Seq(S) /\ s \in Seq(S) /\ u \in Seq(S) /\ e \in Seq(S)
  /\ Len(p) = Len(s) + Len(u) + Len(e)
  /\ \A i \in 1 .. Len(s) : s[i] = p[i]
  /\ \A i \in 1 .. Len(u) : u[i] = p[Len(s) + i]
  /\ \A i \in 1 .. Len(e) : e[i] = p[Len(s) + Len(u) + i]

\* A sequence that is so split is the concatenation of the three.
LEMMA ThreeParts ==
  ASSUME NEW S, NEW p, NEW s, NEW u, NEW e, IsSplit(S, p, s, u, e)
  PROVE  p = s \o u \o e
  <1> DEFINE a == s \o u
             c == a \o e
             l == Len(u)
             t == Len(s)
             k == Len(e)
  <1>0. /\ p \in Seq(S) /\ s \in Seq(S) /\ u \in Seq(S) /\ e \in Seq(S)
        /\ l \in Nat /\ t \in Nat /\ k \in Nat /\ Len(p) = t + l + k
    BY DEF IsSplit
  <1>1. /\ a \in Seq(S) /\ Len(a) = t + l
        /\ \A i \in 1 .. t + l : a[i] = IF i <= t THEN s[i] ELSE u[i - t]
    BY <1>0, Joined
  <1> HIDE DEF a
  <1>2. /\ c \in Seq(S) /\ Len(c) = t + l + k
        /\ \A i \in 1 .. t + l + k : c[i] = IF i <= t + l THEN a[i] ELSE e[i - (t + l)]
    <2>1. /\ c \in Seq(S) /\ Len(c) = Len(a) + Len(e)
          /\ \A i \in 1 .. Len(a) + Len(e) : c[i] = IF i <= Len(a) THEN a[i] ELSE e[i - Len(a)]
      BY <1>0, <1>1, ConcatProperties, Zenon
    <2> QED BY <1>1, <2>1
  <1> HIDE DEF c
  <1>3. ASSUME NEW i \in 1 .. t + l + k
        PROVE  p[i] = c[i]
    <2>1. CASE i <= t
      <3>1. i \in 1 .. t /\ i \in 1 .. t + l
        BY <1>0, <2>1
      <3>2. c[i] = a[i] /\ a[i] = s[i]
        BY <1>1, <1>2, <2>1, <3>1
      <3> QED BY <3>1, <3>2 DEF IsSplit
    <2>2. CASE ~(i <= t) /\ i <= t + l
      <3>1. i \in 1 .. t + l /\ i - t \in 1 .. l /\ t + (i - t) = i
        BY <1>0, <2>2
      <3>2. c[i] = a[i] /\ a[i] = u[i - t]
        BY <1>1, <1>2, <2>2, <3>1
      <3> QED BY <3>1, <3>2 DEF IsSplit
    <2>3. CASE ~(i <= t + l)
      <3>1. i - (t + l) \in 1 .. k /\ (t + l) + (i - (t + l)) = i
        BY <1>0, <2>3
      <3>2. c[i] = e[i - (t + l)]
        BY <1>2, <2>3
      <3> QED BY <3>1, <3>2 DEF IsSplit
    <2> QED BY <1>0, <2>1, <2>2, <2>3
  <1>4. p = c
    BY <1>0, <1>2, <1>3, SeqEqual
  <1> QED BY <1>4 DEF a, c

\* The values the reader saw, those left of its buffer and the back buffer make up, in
\* this order, everything that was written.
LEMMA DoubleKeepsAll ==
  ASSUME DoubleAssumption, DblIInv
  PROVE  NothingLost
  <1> DEFINE n == Len(dbl_put)
             t == Len(dbl_taken)
             f == Len(buf[front])
             k == Len(buf[back])
             S == 1 .. DblMaxCalls
  <1>1. /\ dbl_put \in Seq(S) /\ dbl_taken \in Seq(S) /\ buf[back] \in Seq(S) /\ buf[front] \in Seq(S)
        /\ n \in Nat /\ t \in Nat /\ f \in Nat /\ k \in Nat /\ read \in 0 .. f
    BY BufferTypes DEF DblIInv, DblTypeOK
  <1>2. /\ Handed = t + f - read /\ Handed = n - k
        /\ \A i \in 1 .. t : dbl_taken[i] = dbl_put[i]
        /\ \A i \in read + 1 .. f : buf[front][i] = dbl_put[t - read + i]
        /\ \A i \in 1 .. k : buf[back][i] = dbl_put[Handed + i]
    BY Zenon DEF DblIInv, SplitInv, Handed
  <1>3. n = t + (f - read) + k /\ Handed = t + (f - read)
    <2> HIDE DEF n, t, f, k
    <2> QED BY <1>1, <1>2
  <1>4. /\ Unread \in Seq(S) /\ Len(Unread) = f - read
        /\ \A i \in 1 .. f - read : Unread[i] = buf[front][read + i]
    <2>1. \A i \in read + 1 .. f : buf[front][i] \in S
      <3> DEFINE F == buf[front]
      <3>1. F \in Seq(S) /\ read \in 0 .. Len(F)
        BY <1>1
      <3> HIDE DEF F, S
      <3>2. \A i \in read + 1 .. Len(F) : F[i] \in S
        BY <3>1, ElementOfSeq
      <3> QED BY <3>2 DEF F
    <2>2. /\ Unread \in Seq(S) /\ Len(Unread) = IF read + 1 <= f THEN f - (read + 1) + 1 ELSE 0
          /\ \A i \in 1 .. f - (read + 1) + 1 : Unread[i] = buf[front][(read + 1) + i - 1]
      <3> DEFINE F == buf[front]
                 m == read + 1
      <3>1. F \in Seq(S) /\ m \in Int /\ f \in Int /\ \A i \in m .. f : F[i] \in S
        BY <1>1, <2>1
      <3>2. Unread = SubSeq(F, m, f)
        BY Zenon DEF Unread
      <3> HIDE DEF F, m, f, S
      <3>3. /\ SubSeq(F, m, f) \in Seq(S)
            /\ Len(SubSeq(F, m, f)) = IF m <= f THEN f - m + 1 ELSE 0
            /\ \A i \in 1 .. f - m + 1 : SubSeq(F, m, f)[i] = F[m + i - 1]
        BY <3>1, SubSeqProperties
      <3> QED BY Zenon, <3>2, <3>3 DEF F, m
    <2> HIDE DEF f
    <2>3. /\ f - (read + 1) + 1 = f - read
          /\ (IF read + 1 <= f THEN f - (read + 1) + 1 ELSE 0) = f - read
      BY <1>1
    <2>4. ASSUME NEW i \in 1 .. f - read PROVE Unread[i] = buf[front][read + i]
      <3>1. (read + 1) + i - 1 = read + i
        BY <1>1
      <3> QED BY <2>2, <2>3, <3>1
    <2> QED BY <2>2, <2>3, <2>4
  <1>5. \A i \in 1 .. f - read : Unread[i] = dbl_put[t + i]
    <2> HIDE DEF n, t, f, k
    <2> TAKE i \in 1 .. f - read
    <2>1. read + i \in read + 1 .. f /\ t - read + (read + i) = t + i
      BY <1>1
    <2> QED BY <1>2, <1>4, <2>1
  <1>6. IsSplit(S, dbl_put, dbl_taken, Unread, buf[back])
    <2> HIDE DEF S
    <2> QED BY <1>1, <1>2, <1>3, <1>4, <1>5 DEF IsSplit
  <1>7. dbl_put = dbl_taken \o Unread \o buf[back]
    <2> DEFINE u == Unread
               b == buf[back]
    <2> HIDE DEF S, u, b
    <2>1. IsSplit(S, dbl_put, dbl_taken, u, b)
      BY <1>6 DEF u, b
    <2>2. dbl_put = dbl_taken \o u \o b
      BY <2>1, ThreeParts
    <2> QED BY <2>2 DEF u, b
  <1> QED BY <1>7 DEF NothingLost

\* A sleeping writer has a full back buffer before it, or another writer on its way in:
\* the writer that a swap wakes is one.
LEMMA DoubleWriters ==
  ASSUME DoubleAssumption, DblIInv, NoWriterForgotten, [DblNext]_dblVars
  PROVE  NoWriterForgotten'
  <1> USE DoubleConsts DEF NoWriterForgotten, DblNotFullWaiters, DblGoto, DblThreads
  <1>0. dbl_pc \in [DblThreads -> {"idle", "lock", "test", "asleep", "unlock", "use"}]
    BY DEF DblIInv, DblTypeOK
  <1>1. ASSUME NEW w \in DblWriters, DblWriteCall(w)
        PROVE  NoWriterForgotten'
    BY <1>0, <1>1 DEF DblWriteCall
  <1>2. ASSUME NEW w \in DblWriters, WriteFull(w)
        PROVE  NoWriterForgotten'
    <2>1. buf'[back'] # <<>>
      BY <1>2, BufferTypes DEF WriteFull
    <2> QED BY <2>1
  <1>3. ASSUME NEW w \in DblWriters, Write(w)
        PROVE  NoWriterForgotten'
    <2>1. buf'[back'] # <<>>
      <3>1. buf'[back'] = Append(buf[back], dbl_data[w]) /\ buf[back] \in Seq(1 .. DblMaxCalls)
        BY <1>3, BufferTypes DEF Write, WriteTo, DblIInv, DblTypeOK
      <3> QED BY <1>3, <3>1, WrittenValue
    <2> QED BY <2>1
  <1>4. CASE Swap
    <2>1. CASE DblNotFullWaiters = {}
      <3>1. DblNotFullWaiters' = {}
        BY <1>0, <1>4, <2>1 DEF Swap, DblNotifyOne
      <3> QED BY <3>1
    <2>2. CASE DblNotFullWaiters # {}
      <3>1. \E w \in DblWriters : dbl_pc'[w] = "lock"
        BY <1>0, <1>4, <2>2 DEF Swap, DblNotifyOne
      <3> QED BY <3>1
    <2> QED BY <2>1, <2>2
  <1>5. CASE UNCHANGED dblVars \/ Look \/ DblReadCall \/ DblReadWait
    BY <1>0, <1>5 DEF dblVars, Look, DblReadCall, DblReadWait
  <1>6. ASSUME NEW t \in DblThreads, DblLock(t) \/ DblUnlock(t) \/ DblSpurious(t)
        PROVE  NoWriterForgotten'
    <2>0. UNCHANGED <<buf, back>>
      BY Zenon, <1>6 DEF DblLock, DblUnlock, DblSpurious
    <2>1. CASE DblLock(t)
      BY <1>0, <2>0, <2>1 DEF DblLock
    <2>2. CASE DblUnlock(t)
      BY <1>0, <2>0, <2>2 DEF DblUnlock
    <2>3. CASE DblSpurious(t)
      BY <1>0, <2>0, <2>3 DEF DblSpurious
    <2> QED BY Zenon, <1>6, <2>1, <2>2, <2>3
  <1> QED BY Zenon, <1>1, <1>2, <1>3, <1>4, <1>5, <1>6 DEF DblNext, DblWriterStep, DblReaderStep

\* Nothing is lost or repeated between the two buffers, and one writer woken per swap
\* is enough: no writer sleeps beside an empty back buffer without another one on its
\* way to fill it.
THEOREM DoubleKeeps ==
  ASSUME DoubleAssumption
  PROVE  DblSpec => []BufferKeeps
  <1>1. DblInit => NoWriterForgotten
    BY DEF DblInit, NoWriterForgotten, DblNotFullWaiters, DblThreads
  <1>2. DblIInv /\ NoWriterForgotten /\ [DblNext]_dblVars => NoWriterForgotten'
    BY DoubleWriters
  <1>3. DblIInv /\ NoWriterForgotten => BufferKeeps
    BY DoubleKeepsAll DEF BufferKeeps
  <1> QED BY <1>1, <1>2, <1>3, DoubleInductive, PTL DEF DblSpec

-----------------------------------------------------------------------------
(* Double buffer: it is a FIFO.                                            *)

\* The first m values of a sequence that grew, or did not.
LEMMA SamePrefix ==
  ASSUME NEW S, NEW s \in Seq(S), NEW e \in S, NEW m \in 0 .. Len(s)
  PROVE  SubSeq(Append(s, e), 1, m) = SubSeq(s, 1, m)
  OBVIOUS

\* A prefix is as long as it says, and the whole is a prefix of itself.
LEMMA PrefixLength ==
  ASSUME NEW S, NEW s \in Seq(S), NEW m \in 0 .. Len(s)
  PROVE  Len(SubSeq(s, 1, m)) = m
  OBVIOUS

\* A write is the Put of the FIFO: what was handed to the reader stays as it was.
LEMMA WriteIsPut ==
  ASSUME DoubleAssumption, DblIInv, NEW w \in DblWriters, Write(w)
  PROVE  DblFifo!Put(dbl_data[w])
  <1> DEFINE D == 1 .. DblMaxCalls
             n == Len(dbl_put)
             k == Len(buf[back])
  <1>1. dbl_put \in Seq(D) /\ dbl_data[w] \in D /\ buf[back] \in Seq(D)
    BY WrittenValue, BufferTypes DEF DblIInv, DblTypeOK
  <1>2. /\ n \in Nat /\ k \in Nat /\ k <= n /\ k < DblCapacity /\ Handed = n - k
    BY BufferTypes DEF Write, WriteTo, Handed
  <1>3. /\ dbl_put' = Append(dbl_put, dbl_data[w])
        /\ back' = back /\ buf'[back] = Append(buf[back], dbl_data[w])
    BY BufferTypes DEF Write, WriteTo, DblIInv, DblTypeOK
  <1>4. Len(dbl_put') = n + 1 /\ Len(buf'[back]) = k + 1
    BY <1>1, <1>3
  <1>5. Handed' = Handed /\ Handed \in 0 .. n
    <2>1. Handed' = Len(dbl_put') - Len(buf'[back])
      BY <1>3 DEF Handed
    <2> HIDE DEF n, k
    <2> QED BY <1>2, <1>4, <2>1
  <1>6. SubSeq(dbl_put', 1, Handed') = SubSeq(dbl_put, 1, Handed)
    <2>1. SubSeq(Append(dbl_put, dbl_data[w]), 1, Handed) = SubSeq(dbl_put, 1, Handed)
      BY <1>1, <1>5, SamePrefix
    <2> QED BY <1>3, <1>5, <2>1
  <1>7. DblFifo!Inside < DblCapacity
    <2>1. Len(SubSeq(dbl_put, 1, Handed)) = Handed
      BY <1>1, <1>5, PrefixLength
    <2> HIDE DEF n, k
    <2> QED BY <1>2, <2>1 DEF DblFifo!Inside, n
  <1> QED BY Zenon, <1>3, <1>6, <1>7 DEF DblFifo!Put

\* A swap is the Get of the FIFO: it hands the whole back buffer to the reader.
LEMMA SwapIsGet ==
  ASSUME DoubleAssumption, DblIInv, Swap
  PROVE  Len(buf[back]) \in 1 .. DblCapacity /\ DblFifo!Get(Len(buf[back]))
  <1> DEFINE D == 1 .. DblMaxCalls
             n == Len(dbl_put)
             k == Len(buf[back])
  <1>1. /\ dbl_put \in Seq(D) /\ buf[back] \in Seq(D) /\ buf[back] # <<>>
        /\ n \in Nat /\ k \in 0 .. DblCapacity /\ k <= n
    BY BufferTypes DEF DblIInv, DblTypeOK, Swap
  <1>2. k \in 1 .. DblCapacity
    BY <1>1, DoubleConsts, EmptySeq
  <1>3. dbl_put' = dbl_put /\ back' = front /\ buf'[front] = <<>>
    BY BufferTypes DEF Swap, DblIInv, DblTypeOK
  <1>4. Handed' = n
    BY <1>1, <1>3 DEF Handed
  <1>5. Len(SubSeq(dbl_put, 1, Handed)) = Handed /\ Handed = n - k
    <2>1. Handed = n - k
      BY DEF Handed
    <2>2. n - k \in 0 .. n
      <3> HIDE DEF n, k
      <3> QED BY <1>1, DoubleConsts
    <2> QED BY Zenon, <1>1, <2>1, <2>2, PrefixLength
  <1>6. Handed + k = n /\ k <= n - Handed
    <2> HIDE DEF n, k
    <2> QED BY <1>1, <1>5, DoubleConsts
  <1> QED BY Zenon, <1>2, <1>3, <1>4, <1>5, <1>6 DEF DblFifo!Get, DblFifo!Inside

\* The other steps change neither what was written nor what was handed out.
LEMMA DoubleStepIsFifo ==
  ASSUME DoubleAssumption, DblIInv, [DblNext]_dblVars
  PROVE  [DblFifo!Next]_<<dbl_put, SubSeq(dbl_put, 1, Handed)>>
  <1>1. ASSUME NEW w \in DblWriters, Write(w)
        PROVE  DblFifo!Next
    BY <1>1, WriteIsPut, WrittenValue DEF DblFifo!Next
  <1>2. CASE Swap
    BY <1>2, SwapIsGet DEF DblFifo!Next
  <1>3. CASE ~(\E w \in DblWriters : Write(w)) /\ ~Swap
    <2>1. dbl_put' = dbl_put /\ buf' = buf /\ back' = back
      BY Zenon, <1>3 DEF DblNext, dblVars, DblWriterStep, DblReaderStep, DblWriteCall,
           WriteFull, Look, DblReadCall,
         DblReadWait, DblLock, DblUnlock, DblSpurious
    <2> QED BY <2>1 DEF Handed
  <1> QED BY Zenon, <1>1, <1>2, <1>3

\* What muggle_double_buffer_read handed out does not change until the next call of it.
LEMMA DoubleFrontStable ==
  ASSUME DoubleAssumption
  PROVE  DblSpec => FrontIsStable
  <1>1. ASSUME DblIInv, [DblNext]_dblVars, dbl_pc[Reader] = "use"
        PROVE  front' = front /\ buf'[front] = buf[front]
    <2>1. ASSUME NEW w \in DblWriters, Write(w)
          PROVE  front' = front /\ buf'[front] = buf[front]
      BY <1>1, <2>1, BufferTypes DEF Write, WriteTo, DblIInv, DblTypeOK
    <2>2. CASE ~(\E w \in DblWriters : Write(w))
      BY Zenon, <1>1, <2>2 DEF DblNext, dblVars, DblWriterStep, DblReaderStep, DblWriteCall,
         WriteFull, Look, DblReadCall,
         DblReadWait, Swap, DblLock, DblUnlock, DblSpurious
    <2> QED BY <2>1, <2>2
  <1>2. DblIInv /\ [DblNext]_dblVars =>
          [dbl_pc[Reader] = "use" => front' = front /\ buf'[front] = buf[front]]_dblVars
    BY <1>1
  <1> QED BY <1>2, DoubleInductive, PTL DEF DblSpec, FrontIsStable

\* muggle_double_buffer_t is a FIFO of DblCapacity places that hands out whole buffers,
\* which stay as they are while the reader uses them.
THEOREM DoubleIsFifo ==
  ASSUME DoubleAssumption
  PROVE  DblSpec => BatchesInOrder
  <1>1. DblInit => DblFifo!Init
    BY DEF DblInit, DblFifo!Init, Handed
  <1>2. DblSpec => DblImplementsFifo
    BY <1>1, DoubleStepIsFifo, DoubleInductive, PTL DEF DblSpec, DblImplementsFifo, DblFifo!Spec
  <1> QED BY <1>2, DoubleFrontStable, PTL DEF BatchesInOrder
=============================================================================
