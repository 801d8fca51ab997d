--------------------------- MODULE ChannelProofs ---------------------------
(***************************************************************************)
(* Proofs about Channel for every set of writers, capacity, cursor width   *)
(* and number of calls.                                                    *)
(***************************************************************************)
EXTENDS Channel, ModLemmas, SequenceTheorems

USE DEF OK, FULL, fns, shared, UNLOCK, LOCK

-----------------------------------------------------------------------------
(* Type correctness.                                                       *)

\* The types of the constants, without the divisibility.
LEMMA ConstTypes ==
  /\ Capacity \in Nat \ {0} /\ CursorMod \in Nat \ {0} /\ CursorMod > Capacity
  /\ MaxCalls \in Nat
  BY CapacityAssumption, CallsAssumption

\* The cursors, masked or incremented, stay in their range.
LEMMA IndexType ==
  ASSUME NEW c \in Nat
  PROVE  /\ Idx(c) \in 0 .. Capacity - 1 /\ Idx(c) \in Nat
         /\ Inc(c) \in 0 .. CursorMod - 1 /\ Inc(c) \in Nat
  BY ConstTypes DEF Idx, Inc

\* A step of a writer keeps the types.
LEMMA WriterTypes ==
  ASSUME TypeOK, NEW w \in Writers, WriteCall(w) \/ WriterStep(w)
  PROVE  TypeOK'
  <1> USE DEF TypeOK, Goto, Labels, wvars, rvars
  <1>1. CASE WriteCall(w)
    BY <1>1, CallsAssumption DEF WriteCall
  <1>2. CASE LockMutex(w)
    BY <1>2 DEF LockMutex
  <1>3. CASE LockCas(w)
    BY Zenon, <1>3 DEF LockCas
  <1>4. CASE LockWait(w)
    BY <1>4 DEF LockWait
  <1>5. CASE CheckFull(w)
    BY Zenon, <1>5 DEF CheckFull, TestFull
  <1>6. CASE StoreData(w)
    <2>a. cur[w] \in Nat /\ data[w] \in Nat
      BY ConstTypes
    <2>1. Idx(cur[w]) \in 0 .. Capacity - 1
      BY Zenon, <2>a, IndexType
    <2> QED BY <1>6, <2>a, <2>1 DEF StoreData
  <1>7. CASE Publish(w)
    <2>a. cur[w] \in Nat /\ data[w] \in Nat
      BY ConstTypes
    <2>1. Inc(cur[w]) \in 0 .. CursorMod - 1
      BY Zenon, <2>a, IndexType
    <2>2. Append(sent, data[w]) \in Seq(Nat)
      BY <2>a
    <2> QED BY <1>7, <2>1, <2>2 DEF Publish
  <1>8. CASE UnlockMutex(w)
    BY <1>8 DEF UnlockMutex, AfterUnlock
  <1>9. CASE UnlockStore(w)
    BY <1>9 DEF UnlockStore
  <1>10. CASE UnlockWake(w)
    BY Zenon, <1>10 DEF UnlockWake, AfterUnlock
  <1>11. CASE Wake(w)
    BY <1>11 DEF Wake
  <1> QED BY Zenon, <1>1, <1>2, <1>3, <1>4, <1>5, <1>6, <1>7, <1>8, <1>9, <1>10,
             <1>11 DEF WriterStep

\* A step of the reader, or a signal, keeps the types.
LEMMA ReaderTypes ==
  ASSUME TypeOK, ReaderStep \/ Interrupted
  PROVE  TypeOK'
  <1> USE DEF TypeOK, Goto, Labels, wvars, rvars
  <1>a. read_cursor \in Nat /\ blocks[r_pos] \in Nat
    BY ConstTypes
  <1>b. Inc(read_cursor) \in 0 .. CursorMod - 1 /\ Inc(read_cursor) \in Nat
    BY <1>a, IndexType
  <1>0. Inc(read_cursor) \in 0 .. CursorMod - 1 /\ blocks[r_pos] \in Nat
    BY <1>a, <1>b
  <1>1. CASE ReadCall
    <2>1. Idx(Inc(read_cursor)) \in 0 .. Capacity - 1
      BY Zenon, <1>b, IndexType
    <2> QED BY <1>1, <2>1 DEF ReadCall
  <1>2. CASE ReadLoad
    BY <1>2 DEF ReadLoad, TestEmpty
  <1>3. CASE ReadWait
    BY <1>3 DEF ReadWait
  <1>4. CASE ReadData
    BY <1>4, <1>0 DEF ReadData
  <1>5. CASE ReadAdvance
    BY <1>5, <1>0 DEF ReadAdvance
  <1>6. CASE ReadAdvanceEarly
    BY <1>6, <1>0 DEF ReadAdvanceEarly
  <1>7. CASE ReadDataLate
    BY <1>7, <1>0 DEF ReadDataLate
  <1>8. CASE Interrupted
    BY Zenon, <1>8 DEF Interrupted
  <1> QED BY Zenon, <1>1, <1>2, <1>3, <1>4, <1>5, <1>6, <1>7, <1>8 DEF ReaderStep

\* muggle_channel_init establishes the types.
LEMMA TypeInit == Init => TypeOK
  BY CapacityAssumption, CallsAssumption DEF Init, TypeOK, Labels

\* Every step keeps the types.
LEMMA TypeNext == TypeOK /\ [Next]_vars => TypeOK'
  <1>1. CASE UNCHANGED vars
    BY <1>1 DEF vars, wvars, rvars, TypeOK
  <1> QED BY <1>1, WriterTypes, ReaderTypes DEF Next

\* Type correctness: the cursors of muggle_channel_t never leave the range of
\* their words, and the slot indices never leave the array of blocks.
THEOREM TypeCorrect == Spec => []TypeOK
  BY TypeInit, TypeNext, PTL DEF Spec

-----------------------------------------------------------------------------
(* The write lock.                                                         *)

\* The condition under which the write lock excludes: the compare-and-swap of
\* muggle_channel_lock_write does not fail spuriously.
StrongLock == ~WeakCas

\* No lock is held at first.
LEMMA LockInit == Init => LockInv
  BY DEF Init, LockInv, WriteExclusion, InCritical

\* A step of a writer keeps the lock invariant.
LEMMA WriterLock ==
  ASSUME StrongLock, TypeOK, LockInv,
         NEW w \in Writers, WriteCall(w) \/ WriterStep(w)
  PROVE  LockInv'
  <1> USE DEF LockInv, WriteExclusion, InCritical, Goto, TypeOK
  <1>1. CASE WriteCall(w)
    BY <1>1 DEF WriteCall
  <1>2. CASE LockMutex(w)
    BY <1>2 DEF LockMutex
  <1>3. CASE LockCas(w)
    BY <1>3 DEF LockCas, StrongLock
  <1>4. CASE LockWait(w)
    BY <1>4 DEF LockWait
  <1>5. CASE CheckFull(w)
    <2>1. \A v \in Writers : /\ InCritical(v)' => InCritical(v)
                             /\ pc'[v] # "idle" => pc[v] # "idle"
      BY <1>5 DEF CheckFull, TestFull
    <2>2. UNCHANGED <<fn_write, write_mutex, write_futex>>
      BY <1>5 DEF CheckFull, TestFull
    <2> HIDE DEF InCritical
    <2> QED BY <2>1, <2>2
  <1>6. CASE StoreData(w)
    BY <1>6 DEF StoreData
  <1>7. CASE Publish(w)
    BY ZenonT(30), <1>7 DEF Publish
  <1>8. CASE UnlockMutex(w)
    BY <1>8 DEF UnlockMutex, AfterUnlock
  <1>9. CASE UnlockStore(w)
    BY <1>9 DEF UnlockStore
  <1>10. CASE UnlockWake(w)
    <2>1. \A v \in Writers : /\ InCritical(v)' => InCritical(v)
                             /\ pc'[v] # "idle" => pc[v] # "idle"
      BY Zenon, <1>10 DEF UnlockWake, AfterUnlock
    <2>2. UNCHANGED <<fn_write, write_mutex, write_futex>>
      BY <1>10 DEF UnlockWake
    <2> HIDE DEF InCritical
    <2> QED BY <2>1, <2>2
  <1>11. CASE Wake(w)
    BY <1>11 DEF Wake
  <1> QED BY <1>1, <1>2, <1>3, <1>4, <1>5, <1>6, <1>7, <1>8, <1>9, <1>10,
             <1>11 DEF WriterStep

\* A step of the reader, or a signal, keeps the lock invariant.
LEMMA ReaderLock ==
  ASSUME TypeOK, LockInv, ReaderStep \/ Interrupted
  PROVE  LockInv'
  <1> USE DEF LockInv, WriteExclusion, InCritical, Goto, TypeOK, wvars
  <1>1. CASE ReaderStep
    <2>1. UNCHANGED <<fn_write, pc, write_mutex, write_futex>>
      BY <1>1 DEF ReaderStep, ReadCall, ReadLoad, TestEmpty, ReadWait, ReadData,
                  ReadAdvance, ReadAdvanceEarly, ReadDataLate
    <2> QED BY <2>1
  <1>2. CASE Interrupted
    <2>1. \A v \in Writers : /\ InCritical(v)' => InCritical(v)
                             /\ pc'[v] # "idle" => pc[v] # "idle"
      BY <1>2 DEF Interrupted
    <2>2. UNCHANGED <<fn_write, write_mutex, write_futex>>
      BY <1>2 DEF Interrupted
    <2> HIDE DEF InCritical
    <2> QED BY <2>1, <2>2
  <1> QED BY <1>1, <1>2

\* At most one writer is past the lock.
LEMMA LockNext ==
  StrongLock /\ TypeOK /\ LockInv /\ [Next]_vars => LockInv'
  <1>1. CASE UNCHANGED vars
    BY <1>1 DEF vars, wvars, LockInv, WriteExclusion, InCritical
  <1> QED BY <1>1, WriterLock, ReaderLock DEF Next

\* The mutex, the futex with a strong compare-and-swap, and the single-writer
\* promise each keep two writers out of the critical section of
\* muggle_channel_write, for any number of writers.
THEOREM WritersExclude ==
  ASSUME StrongLock
  PROVE  Spec => []WriteExclusion
  <1>1. LockInv => WriteExclusion
    BY DEF LockInv
  <1>2. TypeOK /\ LockInv /\ [Next]_vars => LockInv'
    BY LockNext
  <1> QED BY <1>1, <1>2, TypeInit, TypeNext, LockInit, PTL DEF Spec

-----------------------------------------------------------------------------
(* The cursors and the slots.                                              *)

\* What relates the cursors, the slots and the histories.
DataInv == CursorInv /\ SlotInv /\ ReadsAreFifo

\* A step that leaves the cursors, the slots and the histories alone, moves no
\* writer past the full test and takes the reader at most back to its loop.
QuietStep ==
  /\ UNCHANGED <<write_cursor, read_cursor, blocks, cur, sent, got, r_pos,
                 r_data>>
  /\ \A v \in Writers : pc'[v] \in {"store", "publish"} =>
       pc[v] = pc'[v] /\ data'[v] = data[v]
  /\ \A v \in Writers : pc'[v] # "idle" => data'[v] # 0
  /\ \/ rpc' = rpc
     \/ rpc \in {"wait", "asleep"} /\ rpc' \in {"load", "asleep"}

\* A step that leaves the messages and the cursors alone keeps the ring as it is.
LEMMA QuietData ==
  ASSUME DataInv, QuietStep
  PROVE  DataInv'
  <1>1. Taken' = Taken /\ Waiting' = Waiting
    BY DEF QuietStep, Taken, Waiting
  <1>2. CursorInv'
    BY <1>1 DEF DataInv, CursorInv, QuietStep
  <1>3. SlotInv'
    BY DEF DataInv, SlotInv, QuietStep, Idx
  <1>4. ReadsAreFifo'
    BY DEF DataInv, ReadsAreFifo, QuietStep
  <1> QED BY <1>2, <1>3, <1>4 DEF DataInv

\* The writers' steps outside the critical section, the wake-ups and the
\* signals are quiet.
LEMMA WriterQuiet ==
  ASSUME TypeOK, DataInv, NEW w \in Writers,
         \/ WriteCall(w) \/ LockMutex(w) \/ LockCas(w) \/ LockWait(w)
         \/ UnlockMutex(w) \/ UnlockStore(w) \/ UnlockWake(w) \/ Wake(w)
  PROVE  QuietStep
  <1> USE DEF QuietStep, TypeOK, Goto, rvars, DataInv, SlotInv
  <1>1. CASE WriteCall(w)
    BY <1>1, ConstTypes DEF WriteCall
  <1>2. CASE LockMutex(w)
    BY <1>2 DEF LockMutex
  <1>3. CASE LockCas(w)
    BY Zenon, <1>3 DEF LockCas
  <1>4. CASE LockWait(w)
    BY <1>4 DEF LockWait
  <1>5. CASE UnlockMutex(w)
    BY <1>5 DEF UnlockMutex, AfterUnlock
  <1>6. CASE UnlockStore(w)
    BY <1>6 DEF UnlockStore
  <1>7. CASE UnlockWake(w)
    BY Zenon, <1>7 DEF UnlockWake, AfterUnlock
  <1>8. CASE Wake(w)
    BY <1>8 DEF Wake
  <1> QED BY Zenon, <1>1, <1>2, <1>3, <1>4, <1>5, <1>6, <1>7, <1>8

\* Waiting takes no message out of the ring.
LEMMA ReaderQuiet ==
  ASSUME TypeOK, DataInv, ReadWait \/ Interrupted
  PROVE  QuietStep
  <1> USE DEF QuietStep, TypeOK, Goto, rvars, wvars, DataInv, SlotInv
  <1>1. CASE ReadWait
    BY <1>1 DEF ReadWait
  <1>2. CASE Interrupted
    BY <1>2 DEF Interrupted
  <1> QED BY <1>1, <1>2

\* The lengths of the histories, as numbers.
LEMMA Lengths ==
  ASSUME TypeOK
  PROVE  /\ Len(sent) \in Nat /\ Len(got) \in Nat
         /\ Taken \in Nat /\ Taken >= Len(got) /\ Taken <= Len(got) + 1
         /\ Waiting = Len(sent) - Taken
  BY DEF TypeOK, Taken, Waiting

\* The slot of write_cursor.
LEMMA WriteSlot ==
  ASSUME TypeOK, CursorInv
  PROVE  Idx(write_cursor) = Len(sent) % Capacity
  BY Lengths, ModMod, CapacityAssumption DEF CursorInv, Idx

\* The slot the reader looks at next.
LEMMA ReadSlot ==
  ASSUME TypeOK, CursorInv, rpc # "late"
  PROVE  Idx(Inc(read_cursor)) = Len(got) % Capacity
  <1> DEFINE n == Len(got) + Capacity - 1
             m == Len(got) + Capacity
  <1>1. n \in Nat /\ m \in Nat /\ m = n + 1 /\ read_cursor = n % CursorMod
    BY Lengths, ConstTypes DEF CursorInv, Taken
  <1>2. m % Capacity = Len(got) % Capacity
    BY Zenon, Lengths, ConstTypes, ModLap
  <1> HIDE DEF n, m
  <1>3. Inc(read_cursor) = m % CursorMod
    BY Zenon, <1>1, ConstTypes, ModSucc DEF Inc
  <1>4. (m % CursorMod) % Capacity = m % Capacity
    BY Zenon, <1>1, ModMod, CapacityAssumption
  <1> QED BY <1>2, <1>3, <1>4 DEF Idx

\* Comparing the raw cursors tells exactly when Capacity - 2 values wait, also
\* across a wrap-around of the cursors.
LEMMA FullExact ==
  ASSUME Capacity >= 2, TypeOK, CursorInv
  PROVE  Inc(write_cursor) = read_cursor <=> Waiting = Capacity - 2
  <1> DEFINE a == Len(sent) + 1
             b == Taken + Capacity - 1
  <1>0. Waiting \in 0 .. Capacity - 2
    BY DEF CursorInv
  <1>1. a \in Nat /\ b \in Nat /\ a <= b /\ b < a + CursorMod
    BY SMTT(30), <1>0, Lengths, ConstTypes
  <1>2. a = b <=> Waiting = Capacity - 2
    BY Lengths, ConstTypes
  <1>3. read_cursor = b % CursorMod
    BY DEF CursorInv
  <1>4. Inc(write_cursor) = a % CursorMod
    BY Zenon, Lengths, ConstTypes, ModSucc DEF CursorInv, Inc
  <1> HIDE DEF a, b
  <1>5. a % CursorMod = b % CursorMod <=> a = b
    <2>1. CASE a < b
      BY Zenon, <1>1, <2>1, ConstTypes, ModApart
    <2> QED BY <2>1, <1>1
  <1> QED BY <1>2, <1>3, <1>4, <1>5

\* The full test lets a writer through only when a slot is free.
LEMMA CheckFullData ==
  ASSUME Capacity >= 2, TypeOK, DataInv, NEW w \in Writers, CheckFull(w)
  PROVE  DataInv'
  <1> USE DEF CheckFull, TestFull
  <1>1. UNCHANGED <<write_cursor, read_cursor, blocks, data, rvars, sent, got>>
    OBVIOUS
  <1>2. Taken' = Taken /\ Waiting' = Waiting
    BY <1>1 DEF Taken, Waiting, rvars
  <1>3. CursorInv'
    <2>1. pc'[w] \in {"store", "publish"} => Waiting < Capacity - 2
      <3>1. Waiting \in 0 .. Capacity - 2
        BY DEF DataInv, CursorInv
      <3>2. pc'[w] \in {"store", "publish"} => Waiting # Capacity - 2
        BY Zenon, FullExact DEF DataInv, TypeOK, Goto
      <3> QED BY <3>1, <3>2, ConstTypes
    <2>2. \A v \in Writers : v # w => pc'[v] = pc[v] /\ cur'[v] = cur[v]
      BY DEF TypeOK, Goto
    <2>3. cur'[w] = write_cursor
      BY DEF TypeOK
    <2> QED BY <1>1, <1>2, <2>1, <2>2, <2>3 DEF DataInv, CursorInv
  <1>4. SlotInv'
    <2>1. \A v \in Writers : pc'[v] = "publish" =>
            pc[v] = "publish" /\ cur'[v] = cur[v]
      BY DEF TypeOK, Goto
    <2>2. \A v \in Writers : pc'[v] # "idle" => pc[v] # "idle"
      BY DEF TypeOK, Goto
    <2> QED BY <1>1, <2>1, <2>2 DEF DataInv, SlotInv, rvars
  <1>5. ReadsAreFifo'
    BY <1>1 DEF DataInv, ReadsAreFifo
  <1> QED BY <1>3, <1>4, <1>5 DEF DataInv

\* Filling the slot of write_cursor leaves the waiting values alone.
LEMMA StoreDataData ==
  ASSUME Capacity >= 2, TypeOK, LockInv, DataInv,
         NEW w \in Writers, StoreData(w)
  PROVE  DataInv'
  <1> USE DEF StoreData
  <1>1. UNCHANGED <<write_cursor, read_cursor, data, cur, rvars, sent, got>>
    OBVIOUS
  <1>2. Taken' = Taken /\ Waiting' = Waiting
    BY <1>1 DEF Taken, Waiting, rvars
  <1>3. /\ pc[w] = "store" /\ pc'[w] = "publish"
        /\ \A v \in Writers : v # w => pc'[v] = pc[v]
        /\ \A v \in Writers : v # w => pc[v] # "publish"
    BY DEF TypeOK, Goto, LockInv, WriteExclusion, InCritical
  <1>4. CursorInv'
    BY <1>1, <1>2, <1>3 DEF DataInv, CursorInv
  <1>5. cur[w] = write_cursor /\ Waiting < Capacity - 2
    BY Zenon, <1>3 DEF DataInv, CursorInv
  <1>6. Idx(cur[w]) = Len(sent) % Capacity /\ Idx(cur[w]) \in 0 .. Capacity - 1
    <2>1. write_cursor \in Nat
      BY ConstTypes DEF TypeOK
    <2> QED BY <2>1, <1>5, WriteSlot, IndexType DEF DataInv
  <1>7. /\ blocks'[Idx(cur[w])] = data[w]
        /\ \A j \in 0 .. Capacity - 1 : j # Idx(cur[w]) => blocks'[j] = blocks[j]
    BY <1>6 DEF TypeOK
  <1>8. \A i \in Len(got) + 1 .. Len(sent) :
          blocks'[(i - 1) % Capacity] = blocks[(i - 1) % Capacity]
    <2> TAKE i \in Len(got) + 1 .. Len(sent)
    <2> DEFINE k == i - 1
               n == Len(sent)
    <2>1. k \in Nat /\ n \in Nat /\ k < n /\ n < k + Capacity
      BY Lengths, ConstTypes, <1>5
    <2> HIDE DEF k, n
    <2>2. k % Capacity # n % Capacity
      BY <2>1, ConstTypes, ModApart
    <2>3. k % Capacity \in 0 .. Capacity - 1
      BY <2>1, ConstTypes
    <2> QED BY <2>2, <2>3, <1>6, <1>7 DEF k, n
  <1>9. SlotInv'
    <2>1. \A v \in Writers : pc'[v] = "publish" => v = w
      BY <1>3
    <2>2. \A v \in Writers : pc'[v] # "idle" => pc[v] # "idle"
      BY <1>3
    <2> QED BY <1>1, <1>7, <1>8, <2>1, <2>2 DEF DataInv, SlotInv, rvars, Idx
  <1>10. ReadsAreFifo'
    BY <1>1 DEF DataInv, ReadsAreFifo
  <1> QED BY <1>4, <1>9, <1>10 DEF DataInv

\* Publishing appends the value in the slot of write_cursor.
LEMMA PublishData ==
  ASSUME Capacity >= 2, TypeOK, LockInv, DataInv,
         NEW w \in Writers, Publish(w)
  PROVE  DataInv'
  <1> USE DEF Publish
  <1>1. UNCHANGED <<read_cursor, blocks, data, cur, rvars, got>>
    OBVIOUS
  <1>2. /\ pc[w] = "publish" /\ pc'[w] \notin {"store", "publish"}
        /\ \A v \in Writers : v # w => pc'[v] = pc[v]
        /\ \A v \in Writers : v # w => pc[v] \notin {"store", "publish"}
    BY DEF TypeOK, Goto, LockInv, WriteExclusion, InCritical
  <1>3. data[w] \in Nat /\ sent \in Seq(Nat)
    BY ConstTypes DEF TypeOK
  <1>4. /\ Len(sent') = Len(sent) + 1
        /\ \A i \in 1 .. Len(sent) : sent'[i] = sent[i]
        /\ sent'[Len(sent) + 1] = data[w]
    BY <1>3
  <1>5. Taken' = Taken /\ Waiting' = Waiting + 1
    BY <1>1, <1>4, Lengths DEF Taken, Waiting, rvars
  <1>6. cur[w] = write_cursor /\ Waiting < Capacity - 2 /\ Waiting >= 0
    BY <1>2, ConstTypes DEF DataInv, CursorInv
  <1>7. CursorInv'
    <2>1. write_cursor' = (Len(sent) + 1) % CursorMod
      <3>1. write_cursor = Len(sent) % CursorMod
        BY DEF DataInv, CursorInv
      <3>2. write_cursor' = ((Len(sent) % CursorMod) + 1) % CursorMod
        BY <1>6, <3>1 DEF Inc
      <3> QED BY Zenon, <3>2, Lengths, ConstTypes, ModSucc
    <2>2. Waiting' \in 0 .. Capacity - 2
      BY <1>5, <1>6, Lengths, ConstTypes
    <2> QED BY Zenon, <1>1, <1>2, <1>4, <1>5, <2>1, <2>2 DEF DataInv, CursorInv
  <1>8. SlotInv'
    <2>1. blocks[Len(sent) % Capacity] = data[w]
      BY Zenon, <1>2, <1>6, WriteSlot DEF DataInv, SlotInv
    <2>2. \A i \in Len(got) + 1 .. Len(sent) + 1 :
            blocks[(i - 1) % Capacity] = sent'[i]
      <3> TAKE i \in Len(got) + 1 .. Len(sent) + 1
      <3>1. CASE i = Len(sent) + 1
        BY <3>1, <2>1, <1>4, Lengths
      <3>2. CASE i # Len(sent) + 1
        <4>1. i \in Len(got) + 1 .. Len(sent) /\ i \in 1 .. Len(sent)
          BY <3>2, Lengths
        <4> QED BY <4>1, <1>4 DEF DataInv, SlotInv
      <3> QED BY <3>1, <3>2
    <2>3. rpc \in {"take", "advance", "late"} => Len(got) < Len(sent')
      BY <1>4, Lengths DEF DataInv, SlotInv
    <2>4. rpc = "advance" => r_data = sent'[Len(got) + 1]
      <3> SUFFICES ASSUME rpc = "advance" PROVE r_data = sent'[Len(got) + 1]
        BY Zenon
      <3>1. Len(got) + 1 \in 1 .. Len(sent)
        BY Lengths DEF DataInv, SlotInv
      <3> QED BY <3>1, <1>4 DEF DataInv, SlotInv
    <2>5. \A v \in Writers : pc'[v] # "idle" => pc[v] # "idle"
      BY <1>2
    <2> QED BY <1>1, <1>2, <1>4, <2>2, <2>3, <2>4, <2>5
            DEF DataInv, SlotInv, rvars
  <1>9. ReadsAreFifo'
    BY <1>1, <1>4, Lengths DEF DataInv, ReadsAreFifo
  <1> QED BY <1>7, <1>8, <1>9 DEF DataInv

\* The reader's steps that only look: the locals name the next waiting slot.
LEMMA ReaderLooks ==
  ASSUME Capacity >= 2, TypeOK, DataInv, ReadCall \/ ReadLoad \/ ReadData
  PROVE  DataInv'
  <1> USE DEF ReadCall, ReadLoad, TestEmpty, ReadData
  <1>1. UNCHANGED <<write_cursor, read_cursor, blocks, wvars, sent, got>>
    OBVIOUS
  <1>2. rpc # "late" /\ rpc' # "late"
    OBVIOUS
  <1>3. Taken' = Taken /\ Waiting' = Waiting
    BY <1>1, <1>2 DEF Taken, Waiting
  <1>4. CursorInv'
    BY <1>1, <1>3 DEF DataInv, CursorInv, wvars
  <1>5. r_pos' = Len(got) % Capacity
    <2>1. CASE ReadCall
      BY <2>1, <1>2, ReadSlot DEF DataInv
    <2>2. CASE ReadLoad \/ ReadData
      BY <2>2 DEF DataInv, SlotInv
    <2> QED BY Zenon, <2>1, <2>2
  <1>6. rpc' \in {"take", "advance"} => Len(got) < Len(sent)
    <2>1. CASE ReadLoad
      <3>1. rpc' = "take" => Len(sent) % Capacity # Len(got) % Capacity
        BY <2>1, WriteSlot DEF DataInv, SlotInv
      <3>2. Len(got) <= Len(sent)
        BY Zenon DEF DataInv, ReadsAreFifo
      <3> QED BY SMTT(30), <2>1, <3>1, <3>2, Lengths
    <2>2. CASE ReadCall
      BY <2>2
    <2>3. CASE ReadData
      BY <2>3 DEF DataInv, SlotInv
    <2> QED BY Zenon, <2>1, <2>2, <2>3
  <1>7. rpc' = "advance" => r_data' = sent[Len(got) + 1]
    <2> SUFFICES ASSUME ReadData PROVE r_data' = sent[Len(got) + 1]
      OBVIOUS
    <2>1. Len(got) + 1 \in Len(got) + 1 .. Len(sent)
      BY Lengths DEF DataInv, SlotInv
    <2>2. (Len(got) + 1) - 1 = Len(got)
      BY Lengths
    <2>3. blocks[Len(got) % Capacity] = sent[Len(got) + 1]
      BY <2>1, <2>2 DEF DataInv, SlotInv
    <2> QED BY <2>3 DEF DataInv, SlotInv
  <1>8. SlotInv'
    BY <1>1, <1>2, <1>5, <1>6, <1>7 DEF DataInv, SlotInv, wvars, Idx
  <1>9. ReadsAreFifo'
    BY <1>1 DEF DataInv, ReadsAreFifo
  <1> QED BY <1>4, <1>8, <1>9 DEF DataInv

\* read_cursor++ gives the slot back, before or after the data is loaded.
LEMMA ReaderAdvances ==
  ASSUME Capacity >= 2, TypeOK, DataInv, ReadAdvance \/ ReadAdvanceEarly
  PROVE  CursorInv'
  <1> USE DEF ReadAdvance, ReadAdvanceEarly
  <1>1. UNCHANGED <<write_cursor, blocks, wvars, sent>>
    OBVIOUS
  <1>2. Taken = Len(got) /\ Len(got) < Len(sent)
    <2>1. rpc \in {"take", "advance"}
      OBVIOUS
    <2> QED BY <2>1, Lengths DEF Taken, DataInv, SlotInv
  <1>3. Taken' = Taken + 1
    BY Lengths DEF Taken, TypeOK
  <1>4. Waiting \in 0 .. Capacity - 2 /\ Waiting = Len(sent) - Taken
    BY DEF DataInv, CursorInv, Waiting
  <1>5. Waiting' = Waiting - 1 /\ Waiting' \in 0 .. Capacity - 2
    BY <1>1, <1>2, <1>3, <1>4, Lengths, ConstTypes DEF Waiting
  <1>6. read_cursor' = (Taken' + Capacity - 1) % CursorMod
    <2> DEFINE n == Taken + Capacity - 1
    <2>1. n \in Nat /\ n + 1 = Taken' + Capacity - 1
      BY <1>3, Lengths, ConstTypes
    <2>2. read_cursor = n % CursorMod
      BY DEF DataInv, CursorInv
    <2> HIDE DEF n
    <2>3. read_cursor' = ((n % CursorMod) + 1) % CursorMod
      BY <2>2 DEF Inc
    <2> QED BY Zenon, <2>1, <2>3, ConstTypes, ModSucc
  <1>7. \A v \in Writers : pc[v] \in {"store", "publish"} =>
          cur[v] = write_cursor /\ Waiting' < Capacity - 2
    BY <1>5, <1>4, ConstTypes DEF DataInv, CursorInv
  <1> QED BY <1>1, <1>5, <1>6, <1>7 DEF DataInv, CursorInv, wvars

\* The next value to read is the one in the reader's slot.
LEMMA NextValue ==
  ASSUME TypeOK, DataInv, Len(got) < Len(sent), rpc # "idle"
  PROVE  blocks[r_pos] = sent[Len(got) + 1]
  <1>1. Len(got) + 1 \in Len(got) + 1 .. Len(sent)
    BY Lengths
  <1>2. (Len(got) + 1) - 1 = Len(got)
    BY Lengths
  <1>3. blocks[Len(got) % Capacity] = sent[Len(got) + 1]
    BY <1>1, <1>2 DEF DataInv, SlotInv
  <1> QED BY <1>3 DEF DataInv, SlotInv

\* Handing over the next value extends what was read by what was sent.
LEMMA ReaderReturns ==
  ASSUME Capacity >= 2, TypeOK, DataInv, ReadAdvance \/ ReadDataLate
  PROVE  /\ Len(got') = Len(got) + 1
         /\ SlotInv' /\ ReadsAreFifo'
  <1> USE DEF ReadAdvance, ReadDataLate
  <1>1. UNCHANGED <<write_cursor, blocks, wvars, sent>> /\ rpc' = "idle"
    OBVIOUS
  <1>2. Len(got) < Len(sent)
    BY DEF DataInv, SlotInv
  <1>3. PICK x \in Nat : got' = Append(got, x) /\ x = sent[Len(got) + 1]
    <2>1. CASE ReadAdvance
      BY <2>1 DEF DataInv, SlotInv, TypeOK
    <2>2. CASE ReadDataLate
      BY Zenon, <2>2, <1>2, NextValue DEF TypeOK
    <2> QED BY <2>1, <2>2
  <1>4. /\ Len(got') = Len(got) + 1
        /\ \A i \in 1 .. Len(got) : got'[i] = got[i]
        /\ got'[Len(got) + 1] = x
    BY <1>3 DEF TypeOK
  <1>5. ReadsAreFifo'
    <2>1. Len(got') <= Len(sent')
      BY <1>1, <1>2, <1>4, Lengths
    <2>2. \A i \in 1 .. Len(got') : got'[i] = sent[i]
      <3> TAKE i \in 1 .. Len(got')
      <3>1. CASE i = Len(got) + 1
        BY <3>1, <1>3, <1>4
      <3>2. CASE i # Len(got) + 1
        <4>1. i \in 1 .. Len(got)
          BY <3>2, <1>4, Lengths
        <4> QED BY <4>1, <1>4 DEF DataInv, ReadsAreFifo
      <3> QED BY <3>1, <3>2
    <2> QED BY <1>1, <2>1, <2>2 DEF ReadsAreFifo
  <1>6. SlotInv'
    <2>1. \A i \in Len(got') + 1 .. Len(sent) : i \in Len(got) + 1 .. Len(sent)
      BY <1>4, Lengths
    <2> QED BY <1>1, <2>1 DEF DataInv, SlotInv, wvars, Idx
  <1> QED BY <1>4, <1>5, <1>6

\* Every step of the reader keeps the data invariant.
LEMMA ReaderData ==
  ASSUME Capacity >= 2, TypeOK, DataInv, ReaderStep \/ Interrupted
  PROVE  DataInv'
  <1>1. CASE ReadCall \/ ReadLoad \/ ReadData
    BY <1>1, ReaderLooks
  <1>2. CASE ReadWait \/ Interrupted
    BY <1>2, ReaderQuiet, QuietData
  <1>3. CASE ReadAdvance
    BY <1>3, ReaderAdvances, ReaderReturns DEF DataInv
  <1>4. CASE ReadAdvanceEarly
    <2>1. CursorInv'
      BY <1>4, ReaderAdvances
    <2>2. SlotInv' /\ ReadsAreFifo'
      BY <1>4 DEF ReadAdvanceEarly, DataInv, SlotInv, ReadsAreFifo, wvars, Idx
    <2> QED BY <2>1, <2>2 DEF DataInv
  <1>5. CASE ReadDataLate
    <2>1. SlotInv' /\ ReadsAreFifo' /\ Len(got') = Len(got) + 1
      BY <1>5, ReaderReturns
    <2>2. Taken' = Taken /\ Waiting' = Waiting
      BY <1>5, <2>1, Lengths DEF ReadDataLate, Taken, Waiting
    <2>3. CursorInv'
      BY <1>5, <2>2 DEF ReadDataLate, DataInv, CursorInv, wvars
    <2> QED BY <2>1, <2>3 DEF DataInv
  <1> QED BY <1>1, <1>2, <1>3, <1>4, <1>5 DEF ReaderStep

\* Every step of a writer keeps the data invariant.
LEMMA WriterData ==
  ASSUME Capacity >= 2, TypeOK, LockInv, DataInv,
         NEW w \in Writers, WriteCall(w) \/ WriterStep(w)
  PROVE  DataInv'
  <1>1. CASE CheckFull(w)
    BY <1>1, CheckFullData
  <1>2. CASE StoreData(w)
    BY <1>2, StoreDataData
  <1>3. CASE Publish(w)
    BY <1>3, PublishData
  <1> QED BY <1>1, <1>2, <1>3, WriterQuiet, QuietData DEF WriterStep

-----------------------------------------------------------------------------
(* The theorems.                                                           *)

\* muggle_channel_init establishes the invariant.
LEMMA IInvInit ==
  ASSUME Capacity >= 2
  PROVE  Init => IInv
  <1> SUFFICES ASSUME Init PROVE IInv
    OBVIOUS
  <1>1. Taken = 0 /\ Waiting = 0
    BY DEF Init, Taken, Waiting
  <1>2. CursorInv
    <2>1. 0 % CursorMod = 0 /\ (Capacity - 1) % CursorMod = Capacity - 1
      <3> DEFINE c == Capacity - 1
      <3>1. c \in 0 .. CursorMod - 1 /\ c \in Nat /\ c = CursorMod * 0 + c
        BY ConstTypes
      <3>2. 0 \in 0 .. CursorMod - 1 /\ 0 = CursorMod * 0 + 0
        BY ConstTypes
      <3> HIDE DEF c
      <3>3. c % CursorMod = c
        BY <3>1, ConstTypes, ModOf
      <3>4. 0 % CursorMod = 0
        BY <3>2, ConstTypes, ModOf
      <3> QED BY <3>3, <3>4 DEF c
    <2> QED BY <1>1, <2>1, ConstTypes DEF Init, CursorInv
  <1>3. SlotInv /\ ReadsAreFifo
    BY DEF Init, SlotInv, ReadsAreFifo
  <1> QED BY <1>2, <1>3, TypeInit, LockInit DEF IInv

\* Every step keeps the invariant.
LEMMA IInvNext ==
  ASSUME Capacity >= 2, StrongLock
  PROVE  IInv /\ [Next]_vars => IInv'
  <1> SUFFICES ASSUME IInv, [Next]_vars PROVE IInv'
    OBVIOUS
  <1>1. TypeOK /\ LockInv /\ DataInv
    BY DEF IInv, DataInv
  <1>2. TypeOK' /\ LockInv'
    BY <1>1, TypeNext, LockNext
  <1>3. DataInv'
    <2>1. CASE UNCHANGED vars
      BY Zenon, <1>1, <2>1 DEF vars, wvars, rvars, DataInv, CursorInv, SlotInv,
                        ReadsAreFifo, Taken, Waiting, Idx
    <2> QED BY <1>1, <2>1, WriterData, ReaderData DEF Next
  <1> QED BY <1>2, <1>3 DEF IInv, DataInv

\* The inductive invariant holds for every capacity of at least 2.
THEOREM Inductive ==
  ASSUME Capacity >= 2, StrongLock
  PROVE  Spec => []IInv
  <1>1. Init => IInv
    BY IInvInit
  <1>2. IInv /\ [Next]_vars => IInv'
    BY IInvNext
  <1> QED BY <1>1, <1>2, PTL DEF Spec

\* muggle_channel_read returns the values that muggle_channel_write accepted,
\* in their order, none lost, duplicated or torn.
THEOREM FifoOrder ==
  ASSUME Capacity >= 2, StrongLock
  PROVE  Spec => []ReadsAreFifo
  <1>1. IInv => ReadsAreFifo
    BY DEF IInv
  <1> QED BY <1>1, Inductive, PTL

\* The invariant keeps the reader's slot apart from the writer's.
LEMMA IInvApart == IInv => NoSlotRace
  <1> SUFFICES ASSUME IInv, rpc \in {"take", "late"},
                      NEW w \in Writers, pc[w] = "store"
               PROVE  Idx(cur[w]) # r_pos
    BY DEF NoSlotRace
  <1>1. TypeOK /\ CursorInv /\ SlotInv
    BY DEF IInv
  <1>2. cur[w] = write_cursor /\ Waiting < Capacity - 2
    BY <1>1 DEF CursorInv
  <1>3. Idx(cur[w]) = Len(sent) % Capacity
    BY <1>1, <1>2, WriteSlot
  <1>4. r_pos = Len(got) % Capacity /\ Len(got) < Len(sent)
    BY <1>1 DEF SlotInv
  <1>5. Len(sent) < Len(got) + Capacity
    BY <1>1, <1>2, Lengths, ConstTypes
  <1> QED BY Zenon, <1>1, <1>3, <1>4, <1>5, Lengths, ConstTypes, ModApart

\* The reader and a writer are never in the same slot of blocks.
THEOREM SlotsApart ==
  ASSUME Capacity >= 2, StrongLock
  PROVE  Spec => []NoSlotRace
  BY IInvApart, Inductive, PTL

\* A write is refused exactly when Capacity - 2 values wait.
THEOREM RefusalsAreExact ==
  ASSUME Capacity >= 2, StrongLock
  PROVE  Spec => RefusedOnlyWhenFull
  <1>1. IInv => \A w \in Writers :
          CheckFull(w) /\ ret'[w] = FULL => Waiting = Capacity - 2
    <2> SUFFICES ASSUME IInv, NEW w \in Writers, CheckFull(w), ret'[w] = FULL
                 PROVE  Waiting = Capacity - 2
      OBVIOUS
    <2>1. Inc(write_cursor) = read_cursor
      BY DEF CheckFull, TestFull, IInv, TypeOK
    <2> QED BY <2>1, FullExact DEF IInv
  <1>2. IInv /\ [Next]_vars =>
          [\A w \in Writers :
             CheckFull(w) /\ ret'[w] = FULL => Waiting = Capacity - 2]_vars
    BY <1>1
  <1> QED BY <1>2, Inductive, PTL DEF Spec, RefusedOnlyWhenFull

-----------------------------------------------------------------------------
(* The channel implements a FIFO of Capacity - 2 places.                   *)

\* The values delivered, as the refinement mapping sees them.
Delivered == IF rpc = "late" THEN Append(got, blocks[r_pos]) ELSE got

\* One more value of a sequence.
LEMMA LongerPrefix ==
  ASSUME NEW s \in Seq(Nat), NEW g \in Seq(Nat), Len(g) < Len(s),
         \A i \in 1 .. Len(g) : g[i] = s[i]
  PROVE  Append(g, s[Len(g) + 1]) = SubSeq(s, 1, Len(g) + 1)
  <1> DEFINE n == Len(g) + 1
             a == Append(g, s[n])
             b == SubSeq(s, 1, n)
  <1>1. n \in 1 .. Len(s) /\ s[n] \in Nat
    OBVIOUS
  <1>2. a \in Seq(Nat) /\ Len(a) = n /\ \A i \in 1 .. n : a[i] = s[i]
    BY <1>1
  <1>3. b \in Seq(Nat) /\ Len(b) = n /\ \A i \in 1 .. n : b[i] = s[i]
    BY <1>1
  <1> HIDE DEF a, b, n
  <1>4. a = b
    BY Zenon, <1>2, <1>3, SeqEqual
  <1> QED BY <1>4 DEF a, b, n

\* Giving a slot back delivers the next value.
LEMMA AdvanceIsGet ==
  ASSUME IInv, ReadAdvance \/ ReadAdvanceEarly
  PROVE  Fifo!Get(1)
  <1>1. TypeOK /\ DataInv /\ Len(got) < Len(sent)
    BY DEF IInv, DataInv, SlotInv, ReadAdvance, ReadAdvanceEarly
  <1>2. Delivered = got /\ UNCHANGED sent
    BY DEF Delivered, ReadAdvance, ReadAdvanceEarly
  <1>3. Delivered' = Append(got, sent[Len(got) + 1])
    <2>1. CASE ReadAdvance
      BY <2>1 DEF ReadAdvance, Delivered, IInv, SlotInv
    <2>2. CASE ReadAdvanceEarly
      BY <2>2, <1>1, NextValue DEF ReadAdvanceEarly, Delivered
    <2> QED BY <2>1, <2>2
  <1>4. Delivered' = SubSeq(sent, 1, Len(got) + 1)
    BY <1>1, <1>3, LongerPrefix DEF TypeOK, DataInv, ReadsAreFifo
  <1>5. 1 <= Len(sent) - Len(got)
    BY <1>1, Lengths
  <1> QED BY <1>2, <1>4, <1>5 DEF Fifo!Get, Fifo!Inside, Delivered

\* Publishing puts a value in, and there is room for it.
LEMMA PublishIsPut ==
  ASSUME IInv, NEW w \in Writers, Publish(w)
  PROVE  \E d \in 1 .. MaxCalls : Fifo!Put(d)
  <1>1. TypeOK /\ Waiting < Capacity - 2
    BY DEF IInv, CursorInv, Publish
  <1>2. data[w] \in 1 .. MaxCalls
    BY ConstTypes DEF IInv, TypeOK, SlotInv, Publish
  <1>3. Delivered' = Delivered /\ sent' = Append(sent, data[w])
    BY DEF Publish, rvars, Delivered
  <1>4. Len(Delivered) = Taken
    BY DEF IInv, TypeOK, Delivered, Taken
  <1>5. Len(sent) - Len(Delivered) < Capacity - 2
    BY <1>1, <1>4 DEF Waiting
  <1> QED BY <1>2, <1>3, <1>5 DEF Fifo!Put, Fifo!Inside, Delivered

\* Every other step leaves the FIFO alone.
LEMMA OthersStutter ==
  ASSUME IInv, [Next]_vars, ~ReadAdvance, ~ReadAdvanceEarly,
         \A w \in Writers : ~Publish(w)
  PROVE  UNCHANGED <<sent, Delivered>>
  <1> USE DEF Delivered, Goto, wvars, rvars
  <1>1. CASE UNCHANGED vars
    BY <1>1 DEF vars
  <1>2. ASSUME NEW w \in Writers, StoreData(w)
        PROVE  UNCHANGED <<sent, Delivered>>
    <2>1. rpc = "late" => blocks'[r_pos] = blocks[r_pos]
      BY <1>2, IInvApart DEF StoreData, NoSlotRace, IInv, TypeOK
    <2> QED BY <1>2, <2>1 DEF StoreData
  <1>3. ASSUME NEW w \in Writers, WriteCall(w) \/ WriterStep(w), ~StoreData(w)
        PROVE  UNCHANGED <<sent, Delivered>>
    <2>1. UNCHANGED <<sent, got, blocks, r_pos>>
      BY Zenon, <1>3 DEF WriterStep, WriteCall, LockMutex, LockCas, LockWait, CheckFull,
           TestFull, UnlockMutex, UnlockStore, UnlockWake, Wake
    <2>2. rpc' = "late" <=> rpc = "late"
      BY Zenon, <1>3 DEF WriterStep, WriteCall, LockMutex, LockCas, LockWait, CheckFull,
           TestFull, UnlockMutex, UnlockStore, UnlockWake, Wake
    <2> QED BY <2>1, <2>2
  <1>4. CASE ReaderStep
    BY Zenon, <1>4 DEF ReaderStep, ReadCall, ReadLoad, TestEmpty, ReadWait, ReadData,
         ReadDataLate
  <1>5. CASE Interrupted
    BY <1>5 DEF Interrupted
  <1> QED BY <1>1, <1>2, <1>3, <1>4, <1>5 DEF Next

\* muggle_channel_t is a FIFO of Capacity - 2 places: every behaviour of the
\* channel is, read through the mapping, a behaviour of BoundedFifo.
THEOREM ChannelIsFifo ==
  ASSUME Capacity >= 2, StrongLock
  PROVE  Spec => ImplementsFifo
  <1>1. Init => Fifo!Init
    BY DEF Init, Fifo!Init
  <1>2. IInv /\ [Next]_vars => [Fifo!Next]_<<sent, Delivered>>
    <2> SUFFICES ASSUME IInv, [Next]_vars
                 PROVE  Fifo!Next \/ UNCHANGED <<sent, Delivered>>
      OBVIOUS
    <2>1. CASE ReadAdvance \/ ReadAdvanceEarly
      <3>1. 1 \in 1 .. 1
        OBVIOUS
      <3> QED BY <2>1, <3>1, AdvanceIsGet DEF Fifo!Next
    <2>2. CASE \E w \in Writers : Publish(w)
      BY <2>2, PublishIsPut DEF Fifo!Next
    <2> QED BY <2>1, <2>2, OthersStutter
  <1>3. IInv /\ [Next]_vars =>
          [Fifo!Next]_<<sent, IF rpc = "late" THEN Append(got, blocks[r_pos])
                              ELSE got>>
    BY <1>2 DEF Delivered
  <1> QED BY <1>1, <1>3, Inductive, PTL DEF Spec, ImplementsFifo, Fifo!Spec
=============================================================================
