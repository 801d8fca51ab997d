------------------------- MODULE ArrayBlockingQueue -------------------------
(***************************************************************************)
(* muggle_array_blocking_queue_t (muggle/c/sync/array_blocking_queue.c): a *)
(* circular array under one mutex with two condition variables.            *)
(*                                                                         *)
(* All fields are used under the mutex, so what a thread does between two  *)
(* releases of it is one step.  The n-th call of put passes the value n.   *)
(***************************************************************************)
EXTENDS Integers, Sequences, FiniteSets

CONSTANTS
  Producers, Consumers,
  Capacity,    \* queue->capacity
  MaxCalls     \* bound on the calls of muggle_array_blocking_queue_put

ASSUME QueueAssumption ==
  /\ Capacity \in Nat \ {0}
  /\ MaxCalls \in Nat
  /\ Producers \cap Consumers = {}
  /\ IsFiniteSet(Producers) /\ IsFiniteSet(Consumers)

VARIABLES
  datas, take_idx, put_idx, cnt,
  mutex,     \* {} or the set holding the owner of queue->mutex
  pc, data,
  calls,
  put, taken \* history: the values enqueued and the values dequeued

queue == <<datas, take_idx, put_idx, cnt>>
vars == <<queue, mutex, pc, data, calls, put, taken>>

Threads == Producers \cup Consumers
Goto(t, l) == pc' = [pc EXCEPT ![t] = l]

\* The threads that wait on cv_not_full and on cv_not_empty.
NotFullWaiters == {p \in Producers : pc[p] = "asleep"}
NotEmptyWaiters == {c \in Consumers : pc[c] = "asleep"}

\* Mutant: nobody is notified.
NotifyNone(waiters, t, l) == Goto(t, l)

\* muggle_condition_variable_notify_one on the condition variable with the given
\* waiters, while thread t goes on at label l.
NotifyOne(waiters, t, l) ==
  \/ waiters = {} /\ Goto(t, l)
  \/ \E v \in waiters : pc' = [pc EXCEPT ![t] = l, ![v] = "lock"]

\* if (++idx == queue->capacity) idx = 0
Step(i) == IF i + 1 = Capacity THEN 0 ELSE i + 1

-----------------------------------------------------------------------------
\* muggle_array_blocking_queue_init; the array holds what malloc returned.
Init ==
  /\ datas = [i \in 0 .. Capacity - 1 |-> 0]
  /\ take_idx = 0 /\ put_idx = 0 /\ cnt = 0
  /\ mutex = {}
  /\ pc = [t \in Threads |-> "idle"]
  /\ data = [p \in Producers |-> 0]
  /\ calls = 0
  /\ put = <<>> /\ taken = <<>>

PutCall(p) ==
  /\ pc[p] = "idle"
  /\ calls < MaxCalls
  /\ calls' = calls + 1
  /\ data' = [data EXCEPT ![p] = calls + 1]
  /\ Goto(p, "lock")
  /\ UNCHANGED <<queue, mutex, put, taken>>

TakeCall(c) ==
  /\ pc[c] = "idle"
  /\ Goto(c, "lock")
  /\ UNCHANGED <<queue, mutex, data, calls, put, taken>>

\* muggle_mutex_lock, on entry and on the way out of a condition variable.
Lock(t) ==
  /\ pc[t] = "lock"
  /\ mutex = {}
  /\ mutex' = {t}
  /\ Goto(t, "test")
  /\ UNCHANGED <<queue, data, calls, put, taken>>

\* muggle_condition_variable_wait releases the mutex and sleeps in one step.
Wait(t) ==
  /\ mutex' = {}
  /\ Goto(t, "asleep")
  /\ UNCHANGED <<queue, data, calls, put, taken>>

\* while (queue->cnt == queue->capacity) wait(&queue->cv_not_full)
PutWait(p) ==
  /\ pc[p] = "test"
  /\ cnt = Capacity
  /\ Wait(p)

\* muggle_array_blocking_queue_enqueue
EnqueueTo(p, room) ==
  /\ pc[p] = "test"
  /\ cnt < room
  /\ datas' = [datas EXCEPT ![put_idx] = data[p]]
  /\ put_idx' = Step(put_idx)
  /\ cnt' = cnt + 1
  /\ NotifyOne(NotEmptyWaiters, p, "unlock")
  /\ put' = Append(put, data[p])
  /\ UNCHANGED <<take_idx, mutex, data, calls, taken>>

\* Mutant: one value too many is let in.
EnqueueOver(p) == EnqueueTo(p, Capacity + 1)
Enqueue(p) == EnqueueTo(p, Capacity)

\* while (queue->cnt == 0) wait(&queue->cv_not_empty)
TakeWait(c) ==
  /\ pc[c] = "test"
  /\ cnt = 0
  /\ Wait(c)

\* muggle_array_blocking_queue_dequeue
Dequeue(c) ==
  /\ pc[c] = "test"
  /\ cnt # 0
  /\ taken' = Append(taken, datas[take_idx])
  /\ take_idx' = Step(take_idx)
  /\ cnt' = cnt - 1
  /\ NotifyOne(NotFullWaiters, c, "unlock")
  /\ UNCHANGED <<datas, put_idx, mutex, data, calls, put>>

\* muggle_mutex_unlock and return
Unlock(t) ==
  /\ pc[t] = "unlock"
  /\ mutex' = {}
  /\ Goto(t, "idle")
  /\ UNCHANGED <<queue, data, calls, put, taken>>

\* pthread_cond_wait may return without a notification.
Spurious(t) ==
  /\ pc[t] = "asleep"
  /\ Goto(t, "lock")
  /\ UNCHANGED <<queue, mutex, data, calls, put, taken>>

-----------------------------------------------------------------------------
ProducerStep(p) == PutWait(p) \/ Enqueue(p)
ConsumerStep(c) == TakeCall(c) \/ TakeWait(c) \/ Dequeue(c)

Next ==
  \/ \E p \in Producers : PutCall(p) \/ ProducerStep(p)
  \/ \E c \in Consumers : ConsumerStep(c)
  \/ \E t \in Threads : Lock(t) \/ Unlock(t) \/ Spurious(t)

Spec == Init /\ [][Next]_vars

\* Threads that can run do run, the consumers keep calling take, and a thread
\* that asks for a mutex which is released again and again gets it.
Fairness ==
  /\ \A p \in Producers : WF_vars(ProducerStep(p))
  /\ \A c \in Consumers : WF_vars(ConsumerStep(c))
  /\ \A t \in Threads : SF_vars(Lock(t)) /\ WF_vars(Unlock(t))

FairSpec == Spec /\ Fairness

-----------------------------------------------------------------------------
(* Properties.                                                             *)

TypeOK ==
  /\ datas \in [0 .. Capacity - 1 -> 0 .. MaxCalls]
  /\ take_idx \in 0 .. Capacity - 1
  /\ put_idx \in 0 .. Capacity - 1
  /\ cnt \in 0 .. Capacity
  /\ mutex \in SUBSET Threads
  /\ pc \in [Threads -> {"idle", "lock", "test", "asleep", "unlock"}]
  /\ data \in [Producers -> 0 .. MaxCalls]
  /\ calls \in 0 .. MaxCalls
  /\ put \in Seq(1 .. MaxCalls)
  /\ taken \in Seq(0 .. MaxCalls)

Inside(t) == pc[t] \in {"test", "unlock"}

\* The thread inside owns the mutex; indices and count agree with the history,
\* and the slots between them hold the values put and not yet taken, in order.
QueueInv ==
  /\ \A t \in Threads : Inside(t) => mutex = {t}
  /\ \A p \in Producers : pc[p] # "idle" => data[p] # 0
  /\ cnt = Len(put) - Len(taken)
  /\ take_idx = Len(taken) % Capacity
  /\ put_idx = Len(put) % Capacity
  /\ \A i \in Len(taken) + 1 .. Len(put) : datas[(i - 1) % Capacity] = put[i]
  /\ \A i \in 1 .. Len(taken) : taken[i] = put[i]

IInv == TypeOK /\ QueueInv

\* No lost wake-up: while a producer sleeps on cv_not_full, every free slot is
\* spoken for by a producer that has been woken or is entering.
Entering(S) == {t \in S : pc[t] \in {"lock", "test"}}
ProducersCovered ==
  NotFullWaiters # {} => Capacity - cnt <= Cardinality(Entering(Producers))

\* ... and while a consumer sleeps on cv_not_empty, every value in the queue is.
ConsumersCovered ==
  NotEmptyWaiters # {} => cnt <= Cardinality(Entering(Consumers))

\* put and take notify one thread; yet no thread sleeps with nobody left to wake it
\* while it could go on, and the array holds what was put and not taken.
NobodyForgotten == IInv /\ ProducersCovered /\ ConsumersCovered

\* The queue is a FIFO of Capacity places.
Fifo == INSTANCE BoundedFifo WITH
  Data <- 1 .. MaxCalls, Bound <- Capacity, MaxBatch <- 1,
  accepted <- put, delivered <- taken

ImplementsFifo == Fifo!Spec

\* Every put returns, and every value put is taken.
PutsReturn == \A p \in Producers : []<>(pc[p] = "idle")
PutIsTaken == []<>(Len(taken) = Len(put))
=============================================================================
