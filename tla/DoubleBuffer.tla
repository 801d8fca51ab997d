---------------------------- MODULE DoubleBuffer ----------------------------
(***************************************************************************)
(* muggle_double_buffer_t (muggle/c/sync/double_buffer.c): many writers    *)
(* fill the back buffer, one reader swaps the buffers and reads the front  *)
(* one without a lock.                                                     *)
(*                                                                         *)
(* All fields are used under the mutex except the buffer handed out, so    *)
(* what a thread does between two releases is one step.  The n-th call of  *)
(* write passes the value n.                                               *)
(***************************************************************************)
EXTENDS Integers, Sequences, FiniteSets

CONSTANTS
  DblWriters,
  DblCapacity,     \* buf->capacity
  DblMaxCalls      \* bound on the calls of muggle_double_buffer_write

Reader == "reader"

DoubleAssumption ==
  /\ DblCapacity \in Nat \ {0}
  /\ DblMaxCalls \in Nat
  /\ Reader \notin DblWriters

VARIABLES
  buf,         \* buf->buf[2]: the first cnt elements of datas of each
  front, back, \* the pointers, as indices of buf
  non_blocking,
  dbl_mutex,
  dbl_pc, dbl_data, ret,
  read,        \* how much of the front buffer the reader has looked at
  dbl_calls,
  dbl_put, dbl_taken   \* history: the values written and those the reader looked at

dblVars ==
  <<buf, front, back, non_blocking, dbl_mutex, dbl_pc, dbl_data, ret, read, dbl_calls,
  dbl_put, dbl_taken>>

OK == "OK"
FULL == "FULL"
DblThreads == DblWriters \cup {Reader}
DblGoto(t, l) == dbl_pc' = [dbl_pc EXCEPT ![t] = l]

DblNotFullWaiters == {w \in DblWriters : dbl_pc[w] = "asleep"}
DblNotEmptyWaiters == {t \in {Reader} : dbl_pc[t] = "asleep"}


\* muggle_condition_variable_notify_one, while thread t goes on at label l.
DblNotifyOne(waiters, t, l) ==
  \/ waiters = {} /\ DblGoto(t, l)
  \/ \E v \in waiters : dbl_pc' = [dbl_pc EXCEPT ![t] = l, ![v] = "lock"]

-----------------------------------------------------------------------------
\* muggle_double_buffer_init
DblInit ==
  /\ buf = [b \in {0, 1} |-> <<>>]
  /\ front = 0 /\ back = 1
  /\ non_blocking \in BOOLEAN
  /\ dbl_mutex = {}
  /\ dbl_pc = [t \in DblThreads |-> "idle"]
  /\ dbl_data = [w \in DblWriters |-> 0]
  /\ ret = [w \in DblWriters |-> OK]
  /\ read = 0
  /\ dbl_calls = 0
  /\ dbl_put = <<>> /\ dbl_taken = <<>>

DblWriteCall(w) ==
  /\ dbl_pc[w] = "idle"
  /\ dbl_calls < DblMaxCalls
  /\ dbl_calls' = dbl_calls + 1
  /\ dbl_data' = [dbl_data EXCEPT ![w] = dbl_calls + 1]
  /\ DblGoto(w, "lock")
  /\ UNCHANGED <<buf, front, back, non_blocking, dbl_mutex, ret, read, dbl_put, dbl_taken>>

\* muggle_mutex_lock, on entry and on the way out of a condition variable.
DblLock(t) ==
  /\ dbl_pc[t] = "lock"
  /\ dbl_mutex = {}
  /\ dbl_mutex' = {t}
  /\ DblGoto(t, "test")
  /\ UNCHANGED <<buf, front, back, non_blocking, dbl_data, ret, read, dbl_calls, dbl_put,
                 dbl_taken>>

\* The back buffer is full: return MUGGLE_ERR_FULL, or wait on cv_not_full.
WriteFull(w) ==
  /\ dbl_pc[w] = "test"
  /\ Len(buf[back]) = DblCapacity
  /\ dbl_mutex' = {}
  /\ IF non_blocking
       THEN DblGoto(w, "idle") /\ ret' = [ret EXCEPT ![w] = FULL]
       ELSE DblGoto(w, "asleep") /\ UNCHANGED ret
  /\ UNCHANGED <<buf, front, back, non_blocking, dbl_data, read, dbl_calls, dbl_put, dbl_taken>>

\* p_back->datas[p_back->cnt++] = data; notify_one(cv_not_empty)
WriteTo(w, b, room) ==
  /\ dbl_pc[w] = "test"
  /\ Len(buf[b]) < room
  /\ buf' = [buf EXCEPT ![b] = Append(@, dbl_data[w])]
  /\ DblNotifyOne(DblNotEmptyWaiters, w, "unlock")
  /\ ret' = [ret EXCEPT ![w] = OK]
  /\ dbl_put' = Append(dbl_put, dbl_data[w])
  /\ UNCHANGED <<front, back, non_blocking, dbl_mutex, dbl_data, read, dbl_calls, dbl_taken>>

\* Mutants: one value too many; p_back is not loaded again after a wait.
WriteOver(w) == WriteTo(w, back, DblCapacity + 1)
WriteAny(w) == \E b \in {0, 1} : WriteTo(w, b, DblCapacity)
Write(w) == WriteTo(w, back, DblCapacity)

\* muggle_mutex_unlock and return
DblUnlock(t) ==
  /\ dbl_pc[t] = "unlock"
  /\ dbl_mutex' = {}
  /\ DblGoto(t, IF t = Reader THEN "use" ELSE "idle")
  /\ UNCHANGED <<buf, front, back, non_blocking, dbl_data, ret, read, dbl_calls, dbl_put,
                 dbl_taken>>

-----------------------------------------------------------------------------
\* The reader looks at the next value of the buffer it was handed ...
Look ==
  /\ dbl_pc[Reader] = "use"
  /\ read < Len(buf[front])
  /\ read' = read + 1
  /\ dbl_taken' = Append(dbl_taken, buf[front][read + 1])
  /\ UNCHANGED <<buf, front, back, non_blocking, dbl_mutex, dbl_pc, dbl_data, ret,
                 dbl_calls, dbl_put>>

\* ... and calls muggle_double_buffer_read again once it has seen them all.
DblReadCall ==
  /\ dbl_pc[Reader] \in {"idle", "use"}
  /\ read = Len(buf[front])
  /\ DblGoto(Reader, "lock")
  /\ UNCHANGED <<buf, front, back, non_blocking, dbl_mutex, dbl_data, ret, read, dbl_calls,
                 dbl_put, dbl_taken>>

\* while (buf->back->cnt == 0) wait(&buf->cv_not_empty)
DblReadWait ==
  /\ dbl_pc[Reader] = "test"
  /\ buf[back] = <<>>
  /\ dbl_mutex' = {}
  /\ DblGoto(Reader, "asleep")
  /\ UNCHANGED <<buf, front, back, non_blocking, dbl_data, ret, read, dbl_calls, dbl_put,
                 dbl_taken>>

\* front->cnt = 0; swap front and back; notify_one(cv_not_full)
Swap ==
  /\ dbl_pc[Reader] = "test"
  /\ buf[back] # <<>>
  /\ buf' = [buf EXCEPT ![front] = <<>>]
  /\ front' = back
  /\ back' = front
  /\ read' = 0
  /\ DblNotifyOne(DblNotFullWaiters, Reader, "unlock")
  /\ UNCHANGED <<non_blocking, dbl_mutex, dbl_data, ret, dbl_calls, dbl_put, dbl_taken>>

\* pthread_cond_wait may return without a notification.
DblSpurious(t) ==
  /\ dbl_pc[t] = "asleep"
  /\ DblGoto(t, "lock")
  /\ UNCHANGED <<buf, front, back, non_blocking, dbl_mutex, dbl_data, ret, read, dbl_calls,
                 dbl_put, dbl_taken>>

-----------------------------------------------------------------------------
DblWriterStep(w) == WriteFull(w) \/ Write(w)
DblReaderStep == Look \/ DblReadCall \/ DblReadWait \/ Swap

DblNext ==
  \/ \E w \in DblWriters : DblWriteCall(w) \/ DblWriterStep(w)
  \/ DblReaderStep
  \/ \E t \in DblThreads : DblLock(t) \/ DblUnlock(t) \/ DblSpurious(t)

DblSpec == DblInit /\ [][DblNext]_dblVars

\* Threads that can run do run, the reader keeps reading, and a thread that
\* asks for a mutex which is released again and again gets it.
DblFairness ==
  /\ \A w \in DblWriters : WF_dblVars(DblWriterStep(w))
  /\ WF_dblVars(DblReaderStep)
  /\ \A t \in DblThreads : SF_dblVars(DblLock(t)) /\ WF_dblVars(DblUnlock(t))

DblFairSpec == DblSpec /\ DblFairness

-----------------------------------------------------------------------------
(* Properties.                                                             *)

DblTypeOK ==
  /\ buf \in [{0, 1} -> Seq(1 .. DblMaxCalls)]
  /\ \A b \in {0, 1} : Len(buf[b]) <= DblCapacity
  /\ front \in {0, 1} /\ back \in {0, 1}
  /\ non_blocking \in BOOLEAN
  /\ dbl_mutex \in SUBSET DblThreads
  /\ dbl_pc \in [DblThreads -> {"idle", "lock", "test", "asleep", "unlock", "use"}]
  /\ dbl_data \in [DblWriters -> 0 .. DblMaxCalls]
  /\ ret \in [DblWriters -> {OK, FULL}]
  /\ read \in 0 .. DblCapacity
  /\ dbl_calls \in 0 .. DblMaxCalls
  /\ dbl_put \in Seq(1 .. DblMaxCalls)
  /\ dbl_taken \in Seq(1 .. DblMaxCalls)

\* What the reader has seen, what is left of the buffer it was handed and the
\* back buffer are, in this order, everything that was written.
Unread == SubSeq(buf[front], read + 1, Len(buf[front]))
NothingLost == dbl_put = dbl_taken \o Unread \o buf[back]

\* The thread inside owns the mutex, and a writer that was called has its value.
DblInside(t) == dbl_pc[t] \in {"test", "unlock"}
DblMutexInv ==
  /\ \A t \in DblThreads : DblInside(t) => dbl_mutex = {t}
  /\ \A w \in DblWriters : dbl_pc[w] # "use" /\ (dbl_pc[w] # "idle" => dbl_data[w] # 0)

\* The two buffers are apart, and the reader has seen all of the front buffer when it
\* asks for the next one.
BufferInv ==
  /\ front # back
  /\ read <= Len(buf[front])
  /\ dbl_pc[Reader] \notin {"use", "unlock"} => read = Len(buf[front])

\* NothingLost, value by value: Handed is the number of values handed to the reader.
Handed == Len(dbl_put) - Len(buf[back])
SplitInv ==
  /\ Handed = Len(dbl_taken) + Len(buf[front]) - read
  /\ \A i \in 1 .. Len(dbl_taken) : dbl_taken[i] = dbl_put[i]
  /\ \A i \in read + 1 .. Len(buf[front]) : buf[front][i] = dbl_put[Len(dbl_taken) - read + i]
  /\ \A i \in 1 .. Len(buf[back]) : buf[back][i] = dbl_put[Handed + i]

DblIInv == DblTypeOK /\ DblMutexInv /\ BufferInv /\ SplitInv

\* A swap notifies one writer although it frees the whole back buffer.  No
\* writer is forgotten all the same: while one sleeps, the next swap is due, or
\* another writer is on its way in and will make it due.
NoWriterForgotten ==
  DblNotFullWaiters # {} =>
    buf[back] # <<>> \/ \E w \in DblWriters : dbl_pc[w] \in {"lock", "test"}

\* Nothing is lost or repeated between the two buffers, and no writer is forgotten.
BufferKeeps == DblIInv /\ NothingLost /\ NoWriterForgotten

\* The buffer that was handed to the reader does not change under it: only the
\* reader's own next swap touches it.
FrontIsStable ==
  [][dbl_pc[Reader] = "use" => front' = front /\ buf'[front] = buf[front]]_dblVars

\* The reader gets the values in the order of the writes, at most DblCapacity of
\* them wait in the back buffer, and it is handed whole buffers ...
DblFifo == INSTANCE BoundedFifo WITH
  Data <- 1 .. DblMaxCalls, Bound <- DblCapacity, MaxBatch <- DblCapacity,
  accepted <- dbl_put, delivered <- SubSeq(dbl_put, 1, Handed)

DblImplementsFifo == DblFifo!Spec

\* ... that stay as they are while it reads them.
BatchesInOrder == DblImplementsFifo /\ FrontIsStable

\* Every write returns, and every value written is read.
DblWritesReturn == \A w \in DblWriters : []<>(dbl_pc[w] = "idle")
DblPutIsTaken == []<>(Len(dbl_taken) = Len(dbl_put))
=============================================================================
