----------------------------- MODULE RingProofs -----------------------------
(***************************************************************************)
(* Proofs about the ring buffer with a strong compare-and-swap, for every  *)
(* set of writers and readers, capacity, size of the cursors and use.      *)
(***************************************************************************)
EXTENDS RingBuffer, ModLemmas, FiniteSetTheorems

\* An interval maps one to one into a set that is at least as large.
LEMMA Pigeons ==
  ASSUME NEW a \in Int, NEW b \in Int, a <= b + 1, NEW T, IsFiniteSet(T),
         NEW f \in [a .. b -> T],
         \A i, j \in a .. b : f[i] = f[j] => i = j
  PROVE  b + 1 - a <= Cardinality(T)
  <1>1. f \in Injection(a .. b, T)
    BY DEF Injection, IsInjective
  <1>2. Cardinality(a .. b) <= Cardinality(T)
    BY <1>1, FS_Injection
  <1>3. Cardinality(a .. b) = IF a > b THEN 0 ELSE b - a + 1
    BY FS_Interval
  <1> QED BY <1>2, <1>3

\* The types of the constants.
LEMMA RingConsts ==
  ASSUME RingAssumption
  PROVE  /\ RingCapacity \in Nat \ {0} /\ CursorMod \in Nat \ {0} /\ CursorMod % RingCapacity = 0
         /\ IsFiniteSet(Writers) /\ Cardinality(Writers) \in Nat
         /\ Cardinality(Writers) <= CursorMod
         /\ \A u \in Uses : u.calls \in Nat /\ u.lag \in Nat
  BY FS_CardinalityType DEF RingAssumption

\* A writer's program points.
Points == {"idle", "lock", "claim", "store", "publish", "unlock", "store_claimed", "advance",
           "wake"}

\* The modes that muggle_ring_buffer_get_mode computes.
LEMMA Modes ==
  /\ WriteMode \in {"single", "busy_loop", "lock"}
  /\ WriteMode = "single" <=> "SINGLE_WRITER" \in use.flags
  /\ ReadMode \in {"busy_loop", "single_wait", "lock", "wait"}
  /\ \A r \in Readers : Stream(r) \in Streams
  /\ ReadMode = "lock" => Streams = {"shared"} /\ \A r \in Readers : Stream(r) = "shared"
  BY DEF WriteMode, ReadMode, Stream, Streams, OneStream

\* The modes do not change after init.
LEMMA UseStays ==
  ASSUME [RingNext]_ringVars
  PROVE  /\ use' = use /\ WriteMode' = WriteMode /\ ReadMode' = ReadMode
         /\ Streams' = Streams /\ Fits' = Fits
         /\ \A r \in Readers : Stream(r)' = Stream(r)
  <1>1. use' = use
    <2>1. CASE \E w \in Writers : WriteCall(w) \/ WriterStep(w)
      BY <2>1 DEF WriteCall, WriterStep, LockMutex, Store, Publish, UnlockMutex, Claim,
         StoreClaimed, Advance, Wake, shared
    <2>2. CASE \E r \in Readers : ReaderStep(r) \/ Interrupted(r)
      BY <2>2 DEF ReaderStep, ReadCall, ReadLock, ReadLoad, ReadWait, Take, ReadUnlock,
         Interrupted, shared
    <2> QED BY <2>1, <2>2 DEF RingNext, ringVars, shared
  <1> QED BY <1>1 DEF WriteMode, ReadMode, Stream, Streams, OneStream, Fits

\* What a writer's call and steps leave alone, and what a reader's do.
LEMMA WriterFrame ==
  ASSUME NEW w \in Writers, WriteCall(w) \/ WriterStep(w)
  PROVE  UNCHANGED <<read_cursor, read_mutex, r_pos, w_cursor, got>>
  BY DEF WriteCall, WriterStep, LockMutex, Store, Publish, UnlockMutex, Claim,
     StoreClaimed, Advance, Wake, shared, rvars, history

\* A reader writes nothing that the writers read.
LEMMA ReaderFrame ==
  ASSUME NEW r \in Readers, ReaderStep(r) \/ Interrupted(r)
  PROVE  UNCHANGED <<use, next, cursor, ring_datas, write_mutex, wvars, ring_calls, msgs,
                     published,
                     returned>>
  BY DEF ReaderStep, ReadCall, ReadLock, ReadLoad, ReadWait, Take, ReadUnlock,
     Interrupted, shared, history

\* Slots and cursors count modulo the capacity and the number of cursor values.
LEMMA Wraps ==
  ASSUME RingAssumption, NEW n \in Nat
  PROVE  /\ Idx(n) \in 0 .. RingCapacity - 1 /\ n % CursorMod \in 0 .. CursorMod - 1
         /\ Inc(n % CursorMod) = (n + 1) % CursorMod
         /\ Inc(n) \in 0 .. CursorMod - 1
         /\ Idx(n % CursorMod) = n % RingCapacity
  <1>1. RingCapacity \in Nat \ {0} /\ CursorMod \in Nat \ {0} /\ CursorMod % RingCapacity = 0
    BY RingConsts
  <1>2. Idx(n) \in 0 .. RingCapacity - 1 /\ n % CursorMod \in 0 .. CursorMod - 1
    BY <1>1, DivMod DEF Idx
  <1>3. Inc(n % CursorMod) = (n + 1) % CursorMod
    BY Zenon, <1>1, ModSucc DEF Inc
  <1>4. (n + 1) % CursorMod \in 0 .. CursorMod - 1
    BY <1>1, n + 1 \in Nat, DivMod
  <1>5. Idx(n % CursorMod) = n % RingCapacity
    BY Zenon, <1>1, ModMod DEF Idx
  <1> QED BY <1>2, <1>3, <1>4, <1>5 DEF Inc

-----------------------------------------------------------------------------
(* Types.                                                                  *)

\* The types of the reader's steps.
LEMMA ReaderTypes ==
  ASSUME RingAssumption, RingIInv, NEW r \in Readers, ReaderStep(r) \/ Interrupted(r)
  PROVE  RingTypeOK'
  <1>1. /\ UNCHANGED <<use, next, cursor, ring_datas, write_mutex, ring_pc, ring_data, idx,
                       ring_calls, msgs,
                       published, returned>>
        /\ Streams' = Streams /\ Stream(r) \in Streams
    BY ReaderFrame, Modes DEF wvars, Streams, OneStream, ReadMode
  <1>2. /\ read_cursor \in Nat /\ cursor \in 0 .. CursorMod - 1
        /\ \A q \in Streams : Len(got[q]) % CursorMod \in Nat
    <2>1. read_cursor \in Nat /\ cursor \in 0 .. CursorMod - 1
      BY RingConsts DEF RingIInv, RingTypeOK
    <2>2. \A q \in Streams : Len(got[q]) \in Nat
      BY DEF RingIInv, RingTypeOK
    <2>3. ASSUME NEW q \in Streams PROVE Len(got[q]) % CursorMod \in Nat
      <3> DEFINE n == Len(got[q])
      <3>1. n \in Nat
        BY <2>2
      <3> HIDE DEF n
      <3>2. n % CursorMod \in 0 .. CursorMod - 1
        BY <3>1, Wraps
      <3> QED BY <3>2, RingConsts DEF n
    <2> QED BY <2>1, <2>3
  <1>3. read_cursor' \in 0 .. CursorMod - 1 /\ read_mutex' \in SUBSET Readers
    BY Zenon, <1>2, Wraps DEF RingIInv, RingTypeOK, ReaderStep, ReadCall, ReadLock, ReadLoad,
       ReadWait, Take, ReadUnlock, Interrupted, shared
  <1>4. w_cursor' \in [Readers -> 0 .. CursorMod - 1]
    BY <1>2 DEF RingIInv, RingTypeOK, ReaderStep, ReadCall, ReadLock, ReadLoad,
       ReadWait, Take, ReadUnlock, Interrupted
  <1>5. rpc' \in [Readers -> {"idle", "lock", "load", "wait", "asleep", "take", "unlock"}]
    BY Zenon DEF RingIInv, RingTypeOK, ReaderStep, ReadCall, ReadLock, ReadLoad, ReadWait, Take,
       ReadUnlock, Interrupted, RGoto
  <1>6. r_pos' \in [Readers -> 0 .. RingCapacity - 1]
    <2>1. CASE ReadCall(r)
      <3> DEFINE k == Len(got[Stream(r)]) % CursorMod
      <3>1. k \in Nat
        BY <1>1, <1>2
      <3>2. r_pos' = r_pos \/ r_pos' = [r_pos EXCEPT ![r] = Idx(k)]
        BY <2>1 DEF ReadCall
      <3> HIDE DEF k
      <3>3. Idx(k) \in 0 .. RingCapacity - 1
        BY <3>1, Wraps
      <3> QED BY <3>2, <3>3 DEF RingIInv, RingTypeOK
    <2>2. CASE ReadLoad(r)
      BY Zenon, <1>2, <2>2, Wraps DEF RingIInv, RingTypeOK, ReadLoad
    <2>3. CASE ~ReadCall(r) /\ ~ReadLoad(r)
      BY <2>3 DEF RingIInv, RingTypeOK, ReaderStep, ReadLock, ReadWait, Take, ReadUnlock,
         Interrupted
    <2> QED BY <2>1, <2>2, <2>3
  <1>7. got' \in [Streams -> Seq(0 .. use.calls)]
    <2>1. CASE Take(r)
      <3>1. got \in [Streams -> Seq(0 .. use.calls)] /\ ring_datas[r_pos[r]] \in 0 .. use.calls
        BY DEF RingIInv, RingTypeOK
      <3>2. Append(got[Stream(r)], ring_datas[r_pos[r]]) \in Seq(0 .. use.calls)
        BY <1>1, <3>1
      <3> QED BY <1>1, <2>1, <3>1, <3>2 DEF Take
    <2>2. CASE ~Take(r)
      BY <2>2 DEF RingIInv, RingTypeOK, ReaderStep, ReadCall, ReadLock, ReadLoad, ReadWait,
         ReadUnlock, Interrupted, history
    <2> QED BY <2>1, <2>2
  <1> QED BY Zenon, <1>1, <1>3, <1>4, <1>5, <1>6, <1>7 DEF RingIInv, RingTypeOK

\* The types of the writer's steps, but for the positions.
LEMMA WriterTypes ==
  ASSUME RingAssumption, RingIInv, NEW w \in Writers, WriteCall(w) \/ WriterStep(w),
         published' \in 0 .. Len(msgs')
  PROVE  RingTypeOK'
  <1> USE DEF RingIInv, RingTypeOK
  <1>1. /\ UNCHANGED <<use, read_cursor, read_mutex, r_pos, w_cursor, got>>
        /\ Streams' = Streams
    <2>1. use' = use
      BY DEF WriteCall, WriterStep, LockMutex, Store, Publish, UnlockMutex, Claim,
         StoreClaimed, Advance, Wake, shared
    <2> QED BY <2>1, WriterFrame DEF Streams, OneStream, ReadMode
  <1>2. /\ use.calls \in Nat /\ cursor \in Nat /\ next \in Nat /\ idx[w] \in Nat
        /\ ring_data[w] \in 0 .. use.calls
        /\ ring_pc[w] # "idle" => ring_data[w] \in 1 .. use.calls
    BY RingConsts DEF MessagesInv
  <1>3. next' \in 0 .. CursorMod - 1 /\ cursor' \in 0 .. CursorMod - 1
    BY <1>2, Wraps DEF WriteCall, WriterStep, LockMutex, Store, Publish, UnlockMutex, Claim,
       StoreClaimed, Advance, Wake, shared
  <1>4. ring_datas' \in [0 .. RingCapacity - 1 -> 0 .. use.calls]
    BY Zenon, <1>2, Wraps
    DEF WriteCall, WriterStep, LockMutex, Store, Publish, UnlockMutex, Claim,
       StoreClaimed, Advance, Wake, shared
  <1>5. write_mutex' \in SUBSET Writers
    BY DEF WriteCall, WriterStep, LockMutex, Store, Publish, UnlockMutex, Claim,
       StoreClaimed, Advance, Wake, shared
  <1>6. ring_pc' \in [Writers -> {"idle", "lock", "claim", "store", "publish", "unlock",
                             "store_claimed", "advance", "wake"}]
    BY ZenonT(30), Modes
    DEF WriteCall, WriterStep, LockMutex, Store, Publish, UnlockMutex, Claim,
       StoreClaimed, Advance, Wake, RingGoto
  <1>7. /\ ring_calls' \in 0 .. use.calls /\ ring_data' \in [Writers -> 0 .. use.calls]
        /\ idx' \in [Writers -> 0 .. CursorMod - 1]
    <2>1. CASE WriteCall(w)
      <3>1. ring_calls + 1 \in 0 .. use.calls
        BY <1>2, <2>1 DEF WriteCall
      <3> QED BY <2>1, <3>1 DEF WriteCall
    <2>2. CASE Claim(w)
      BY <2>2 DEF Claim
    <2>3. CASE WriterStep(w) /\ ~Claim(w)
      BY Zenon, <2>3
      DEF WriterStep, LockMutex, Store, Publish, UnlockMutex, StoreClaimed, Advance,
         Wake
    <2> QED BY <2>1, <2>2, <2>3
  <1>8. rpc' \in [Readers -> {"idle", "lock", "load", "wait", "asleep", "take", "unlock"}]
    BY Zenon DEF WriteCall, WriterStep, LockMutex, Store, Publish, UnlockMutex, Claim,
       StoreClaimed, Advance, Wake, RGoto, rvars
  <1>9. msgs' \in Seq(1 .. use.calls) /\ returned' \subseteq 1 .. use.calls
    <2>1. CASE Claim(w) \/ Publish(w)
      <3>1. msgs' = Append(msgs, ring_data[w]) /\ returned' = returned /\ ring_pc[w] # "idle"
        BY <2>1 DEF Claim, Publish
      <3>2. msgs \in Seq(1 .. use.calls) /\ ring_data[w] \in 1 .. use.calls
        BY <1>2, <3>1
      <3> QED BY <3>1, <3>2
    <2>2. CASE Wake(w)
      BY Zenon, <1>2, <2>2 DEF Wake
    <2>3. CASE ~Claim(w) /\ ~Publish(w) /\ ~Wake(w)
      BY <2>3 DEF WriteCall, WriterStep, LockMutex, Store, UnlockMutex, StoreClaimed, Advance,
         history
    <2> QED BY <2>1, <2>2, <2>3
  <1> QED BY Zenon, <1>1, <1>3, <1>4, <1>5, <1>6, <1>7, <1>8, <1>9

-----------------------------------------------------------------------------
(* The writers exclude each other.                                         *)

\* Between its store and its publication a writer of the lock or single mode is alone.
LEMMA StoringAlone ==
  ASSUME WritersInv, NEW v \in Writers, NEW w \in Writers, Storing(v), Storing(w)
  PROVE  v = w
  <1>1. CASE WriteMode = "lock"
    BY <1>1 DEF WritersInv
  <1>2. CASE WriteMode = "single"
    BY <1>2 DEF WritersInv, Storing
  <1> QED BY <1>1, <1>2, Modes DEF WritersInv

\* Every step keeps the modes' program points and the write mutex.
LEMMA RingWriters ==
  ASSUME RingAssumption, RingIInv, [RingNext]_ringVars
  PROVE  WritersInv'
  <1> USE DEF Storing, Holding
  <1>1. WriteMode' = WriteMode /\ ring_pc \in [Writers -> Points]
    BY UseStays DEF RingIInv, RingTypeOK, Points
  <1>2. CASE UNCHANGED <<ring_pc, write_mutex>>
    BY <1>1, <1>2 DEF RingIInv, WritersInv
  <1>3. ASSUME NEW w \in Writers, WriteCall(w)
        PROVE  WritersInv'
    <2>1. WriteMode = "single" => \A v \in Writers : ring_pc[v] = "idle"
      BY <1>3, Modes DEF WriteCall
    <2>2. /\ ring_pc' = [ring_pc EXCEPT ![w] = CASE WriteMode = "lock" -> "lock"
                                       [] WriteMode = "single" -> "store"
                                       [] WriteMode = "busy_loop" -> "claim"]
          /\ write_mutex' = write_mutex
      BY <1>3 DEF WriteCall, RingGoto, shared
    <2> QED BY <1>1, <2>1, <2>2, Modes DEF RingIInv, WritersInv
  <1>4. ASSUME NEW w \in Writers, LockMutex(w)
        PROVE  WritersInv'
    BY <1>1, <1>4 DEF RingIInv, WritersInv, LockMutex, RingGoto
  <1>5. ASSUME NEW w \in Writers, UnlockMutex(w)
        PROVE  WritersInv'
    BY <1>1, <1>5 DEF RingIInv, WritersInv, UnlockMutex, RingGoto
  <1>6. ASSUME NEW w \in Writers, Store(w) \/ Publish(w) \/ Wake(w)
        PROVE  WritersInv'
    BY <1>1, <1>6, Modes DEF RingIInv, WritersInv, Store, Publish, Wake, RingGoto, shared
  <1>7. ASSUME NEW w \in Writers, Claim(w) \/ StoreClaimed(w) \/ Advance(w)
        PROVE  WritersInv'
    BY <1>1, <1>7 DEF RingIInv, WritersInv, Claim, StoreClaimed, Advance, RingGoto
  <1>8. ASSUME NEW r \in Readers, ReaderStep(r) \/ Interrupted(r)
        PROVE  WritersInv'
    BY <1>2, <1>8, ReaderFrame DEF wvars
  <1> QED BY <1>2, <1>3, <1>4, <1>5, <1>6, <1>7, <1>8 DEF RingNext, ringVars, WriterStep,
             wvars, shared

-----------------------------------------------------------------------------
(* The messages are distinct.                                              *)

\* A message that gets the next position is new, and so the messages stay distinct.
LEMMA NextMessage ==
  ASSUME RingIInv, NEW w \in Writers, Claim(w) \/ Publish(w)
  PROVE  /\ msgs \in Seq(1 .. use.calls) /\ Len(msgs) \in Nat
         /\ msgs' = Append(msgs, ring_data[w]) /\ Len(msgs') = Len(msgs) + 1
         /\ \A i \in 1 .. Len(msgs) : msgs'[i] = msgs[i]
         /\ msgs'[Len(msgs) + 1] = ring_data[w]
         /\ ring_data' = ring_data /\ ring_calls' = ring_calls
         /\ \A i \in 1 .. Len(msgs) : msgs[i] # ring_data[w]
         /\ ring_data[w] \in 1 .. ring_calls
  <1>1. msgs \in Seq(1 .. use.calls) /\ ring_calls \in 0 .. use.calls
    BY DEF RingIInv, RingTypeOK
  <1>2. msgs' = Append(msgs, ring_data[w]) /\ ring_data' = ring_data /\ ring_calls' = ring_calls
    BY DEF Claim, Publish
  <1>3. ring_data[w] \in 1 .. ring_calls /\ \A i \in 1 .. Len(msgs) : msgs[i] # ring_data[w]
    BY DEF RingIInv, MessagesInv, Claim, Publish, Storing
  <1>4. /\ Len(msgs) \in Nat /\ Len(msgs') = Len(msgs) + 1
        /\ \A i \in 1 .. Len(msgs) : msgs'[i] = msgs[i]
        /\ msgs'[Len(msgs) + 1] = ring_data[w]
    BY <1>1, <1>2
  <1> QED BY <1>1, <1>2, <1>3, <1>4

\* Every step keeps the messages distinct.
LEMMA RingMessages ==
  ASSUME RingAssumption, RingIInv, [RingNext]_ringVars
  PROVE  MessagesInv'
  <1> USE DEF Storing
  <1>0. /\ ring_pc \in [Writers -> Points] /\ ring_data \in [Writers -> Int] /\ ring_calls \in Nat
        /\ Len(msgs) \in Nat
    <2>1. ring_data \in [Writers -> 0 .. use.calls] /\ use.calls \in Nat
      BY RingConsts DEF RingIInv, RingTypeOK
    <2>2. ring_data \in [Writers -> Int]
      BY <2>1
    <2> QED BY <2>2 DEF RingIInv, RingTypeOK, Points
  <1>1. CASE UNCHANGED <<ring_pc, ring_data, ring_calls, msgs>>
    BY <1>1 DEF RingIInv, MessagesInv
  <1>2. ASSUME NEW w \in Writers, WriteCall(w)
        PROVE  MessagesInv'
    <2>1. /\ msgs' = msgs /\ ring_calls' = ring_calls + 1
          /\ ring_data' = [ring_data EXCEPT ![w] = ring_calls + 1]
          /\ \A v \in Writers \ {w} : ring_pc'[v] = ring_pc[v] /\ ring_data'[v] = ring_data[v]
          /\ ring_data'[w] = ring_calls + 1 /\ ring_pc[w] = "idle"
      BY <1>0, <1>2 DEF WriteCall, RingGoto, history
    <2>2. /\ \A i, j \in 1 .. Len(msgs) : msgs[i] = msgs[j] => i = j
          /\ \A i \in 1 .. Len(msgs) : msgs[i] \in 1 .. ring_calls
      BY DEF RingIInv, MessagesInv
    <2>3. /\ \A v \in Writers : ring_pc'[v] # "idle" => ring_data'[v] \in 1 .. ring_calls'
          /\ \A u, v \in Writers :
               ring_pc'[u] # "idle" /\ ring_pc'[v] # "idle" /\ ring_data'[u] = ring_data'[v] => u = v
      BY <1>0, <2>1 DEF RingIInv, MessagesInv
    <2>4. \A i \in 1 .. Len(msgs) : msgs[i] \in 1 .. ring_calls' /\ msgs[i] # ring_data'[w]
      BY <1>0, <2>1, <2>2
    <2>5. ASSUME NEW v \in Writers, Storing(v)' \/ ring_pc'[v] \in {"lock", "claim"}
          PROVE  \A i \in 1 .. Len(msgs) : msgs[i] # ring_data'[v]
      <3>1. CASE v = w
        BY <2>4, <3>1
      <3>2. CASE v # w
        BY <2>1, <2>5, <3>2 DEF RingIInv, MessagesInv, Storing
      <3> QED BY <3>1, <3>2
    <2> HIDE DEF Storing
    <2>6. /\ \A i \in 1 .. Len(msgs') : msgs'[i] \in 1 .. ring_calls'
          /\ \A i, j \in 1 .. Len(msgs') : msgs'[i] = msgs'[j] => i = j
          /\ \A v \in Writers : Storing(v)' \/ ring_pc'[v] \in {"lock", "claim"} =>
               \A i \in 1 .. Len(msgs') : msgs'[i] # ring_data'[v]
      BY <2>1, <2>2, <2>4, <2>5
    <2> QED BY <2>3, <2>6 DEF MessagesInv
  <1>3. ASSUME NEW w \in Writers, Claim(w) \/ Publish(w)
        PROVE  MessagesInv'
    <2>1. /\ \A v \in Writers \ {w} : ring_pc'[v] = ring_pc[v]
          /\ ring_pc[w] # "idle" /\ ring_pc'[w] \in {"store_claimed", "unlock", "wake"}
      BY <1>0, <1>3 DEF Claim, Publish, RingGoto
    <2>2. \A v \in Writers : Storing(v)' \/ ring_pc'[v] \in {"lock", "claim"} =>
            /\ v # w /\ ring_data[v] # ring_data[w]
            /\ \A i \in 1 .. Len(msgs) : msgs[i] # ring_data[v]
      BY <2>1 DEF RingIInv, MessagesInv
    <2> HIDE DEF Storing
    <2>a. /\ Len(msgs') = Len(msgs) + 1
          /\ \A i \in 1 .. Len(msgs) : msgs'[i] = msgs[i]
          /\ msgs'[Len(msgs) + 1] = ring_data[w] /\ ring_data[w] \in 1 .. ring_calls
          /\ \A i \in 1 .. Len(msgs) : msgs[i] # ring_data[w]
          /\ ring_calls' = ring_calls
      BY <1>3, NextMessage
    <2>b. /\ \A i, j \in 1 .. Len(msgs) : msgs[i] = msgs[j] => i = j
          /\ \A i \in 1 .. Len(msgs) : msgs[i] \in 1 .. ring_calls
      BY DEF RingIInv, MessagesInv
    <2>3. \A i, j \in 1 .. Len(msgs') : msgs'[i] = msgs'[j] => i = j
      <3>1. \A i \in 1 .. Len(msgs') : i \in 1 .. Len(msgs) \/ i = Len(msgs) + 1
        BY <1>0, <2>a
      <3>2. \A i \in 1 .. Len(msgs) : msgs'[i] # msgs'[Len(msgs) + 1]
        BY Zenon, <2>a
      <3>3. \A i, j \in 1 .. Len(msgs) : msgs'[i] = msgs'[j] => i = j
        BY Zenon, <2>a, <2>b
      <3> QED BY Zenon, <3>1, <3>2, <3>3
    <2>4. \A i \in 1 .. Len(msgs') : msgs'[i] \in 1 .. ring_calls'
      BY <1>0, <2>a, <2>b
    <2>5. \A v \in Writers : Storing(v)' \/ ring_pc'[v] \in {"lock", "claim"} =>
            \A i \in 1 .. Len(msgs') : msgs'[i] # ring_data'[v]
      <3> SUFFICES ASSUME NEW v \in Writers, Storing(v)' \/ ring_pc'[v] \in {"lock", "claim"},
                          NEW i \in 1 .. Len(msgs')
                   PROVE  msgs'[i] # ring_data'[v]
        OBVIOUS
      <3>1. ring_data[v] # ring_data[w] /\ \A k \in 1 .. Len(msgs) : msgs[k] # ring_data[v]
        BY <2>2
      <3>2. i \in 1 .. Len(msgs) \/ i = Len(msgs) + 1
        BY <1>0, <1>3, NextMessage
      <3> QED BY <1>3, <3>1, <3>2, NextMessage
    <2>6. ring_data' = ring_data /\ ring_calls' = ring_calls
      BY <1>3, NextMessage
    <2> QED BY <2>1, <2>3, <2>4, <2>5, <2>6 DEF RingIInv, MessagesInv
  <1>4. ASSUME NEW w \in Writers, LockMutex(w) \/ Store(w) \/ UnlockMutex(w) \/ StoreClaimed(w)
                                  \/ Advance(w) \/ Wake(w)
        PROVE  MessagesInv'
    <2>1. UNCHANGED <<ring_data, ring_calls, msgs>>
      BY <1>4 DEF LockMutex, Store, UnlockMutex, StoreClaimed, Advance, Wake, history
    <2>2. /\ \A v \in Writers \ {w} : ring_pc'[v] = ring_pc[v]
          /\ ring_pc[w] # "idle"
          /\ Storing(w)' \/ ring_pc'[w] \in {"lock", "claim"} => Storing(w) \/ ring_pc[w] = "lock"
      BY <1>0, <1>4 DEF LockMutex, Store, UnlockMutex, StoreClaimed, Advance, Wake, RingGoto
    <2> HIDE DEF Storing
    <2>3. \A v \in Writers :
            /\ ring_pc'[v] # "idle" => ring_pc[v] # "idle"
            /\ Storing(v)' \/ ring_pc'[v] \in {"lock", "claim"} =>
                 Storing(v) \/ ring_pc[v] \in {"lock", "claim"}
      BY <2>2 DEF Storing
    <2> QED BY <2>1, <2>3 DEF RingIInv, MessagesInv
  <1>5. ASSUME NEW r \in Readers, ReaderStep(r) \/ Interrupted(r)
        PROVE  MessagesInv'
    BY <1>1, <1>5, ReaderFrame DEF wvars
  <1> QED BY <1>1, <1>2, <1>3, <1>4, <1>5 DEF RingNext, ringVars, WriterStep, wvars, history

-----------------------------------------------------------------------------
(* How many positions are claimed.                                         *)

\* Each position that is claimed and not published belongs to another writer.
LEMMA ClaimedByWriters ==
  ASSUME RingAssumption, RingIInv
  PROVE  /\ Len(msgs) \in Nat /\ published \in Nat /\ published <= Len(msgs)
         /\ Len(msgs) - published <= Cardinality(Writers)
  <1>1. Len(msgs) \in Nat /\ published \in Nat /\ published <= Len(msgs)
    BY DEF RingIInv, RingTypeOK
  <1> DEFINE b == Len(msgs)
             f == [i \in published + 1 .. b |->
                     CHOOSE w \in Writers : Holding(w) /\ ring_data[w] = msgs[i]]
  <1>2. \A i \in published + 1 .. b : f[i] \in Writers /\ ring_data[f[i]] = msgs[i]
    BY DEF RingIInv, PositionsInv
  <1>3. \A i, j \in published + 1 .. b : f[i] = f[j] => i = j
    <2> SUFFICES ASSUME NEW i \in published + 1 .. b, NEW j \in published + 1 .. b, f[i] = f[j]
                 PROVE  i = j
      OBVIOUS
    <2>1. msgs[i] = msgs[j]
      BY <1>2
    <2> QED BY <1>1, <2>1 DEF RingIInv, MessagesInv
  <1>4. f \in [published + 1 .. b -> Writers]
    BY Zenon, <1>2
  <1> HIDE DEF f, b
  <1>5. b + 1 - (published + 1) <= Cardinality(Writers)
    <2> DEFINE a == published + 1
    <2>1. a \in Nat /\ b \in Nat /\ a <= b + 1
      BY <1>1 DEF b
    <2>2. f \in [a .. b -> Writers] /\ \A i, j \in a .. b : f[i] = f[j] => i = j
      BY <1>3, <1>4
    <2> HIDE DEF a
    <2>3. b + 1 - a <= Cardinality(Writers)
      BY <2>1, <2>2, RingConsts, Pigeons
    <2> QED BY <2>3 DEF a
  <1> QED BY <1>1, <1>5, RingConsts DEF b

\* Every message that has a position, or is about to get one, was passed to a call.
LEMMA ClaimedAreCalls ==
  ASSUME RingAssumption, RingIInv
  PROVE  /\ Len(msgs) <= ring_calls
         /\ \A w \in Writers : ring_pc[w] = "publish" => Len(msgs) + 1 <= ring_calls
  <1>1. Len(msgs) \in Nat /\ ring_calls \in Nat
    BY DEF RingIInv, RingTypeOK
  <1>a. IsFiniteSet(1 .. ring_calls) /\ Cardinality(1 .. ring_calls) = ring_calls
    <2>1. 1 \in Int /\ ring_calls \in Int
      BY <1>1
    <2>2. /\ IsFiniteSet(1 .. ring_calls)
          /\ Cardinality(1 .. ring_calls) = IF 1 > ring_calls THEN 0 ELSE ring_calls - 1 + 1
      BY <2>1, FS_Interval
    <2> QED BY <1>1, <2>2
  <1> DEFINE b == Len(msgs)
             f == [i \in 1 .. b |-> msgs[i]]
  <1>2. /\ \A i, j \in 1 .. b : f[i] = f[j] => i = j
        /\ \A i \in 1 .. b : f[i] = msgs[i] /\ f[i] \in 1 .. ring_calls
    BY DEF RingIInv, MessagesInv
  <1>3. b + 1 - 1 <= ring_calls
    <2>1. f \in [1 .. b -> 1 .. ring_calls]
      BY <1>2
    <2> HIDE DEF f, b
    <2>2. b \in Int /\ 1 \in Int /\ 1 <= b + 1
      BY <1>1 DEF b
    <2>3. b + 1 - 1 <= Cardinality(1 .. ring_calls)
      BY Zenon, <1>a, <1>2, <2>1, <2>2, Pigeons
    <2> QED BY <1>a, <2>3
  <1>4. ASSUME NEW w \in Writers, ring_pc[w] = "publish"
        PROVE  b + 1 <= ring_calls
    <2> DEFINE T == (1 .. ring_calls) \ {ring_data[w]}
    <2>1. IsFiniteSet(T) /\ Cardinality(T) = ring_calls - 1
      <3>1. ring_data[w] \in 1 .. ring_calls
        BY <1>4 DEF RingIInv, MessagesInv
      <3> QED BY Zenon, <1>1, <1>a, <3>1, FS_RemoveElement
    <2>2. f \in [1 .. b -> T]
      BY <1>2, <1>4 DEF RingIInv, MessagesInv, Storing
    <2> HIDE DEF f, b, T
    <2>3. b \in Int /\ 1 \in Int /\ 1 <= b + 1
      BY <1>1 DEF b
    <2>4. b + 1 - 1 <= Cardinality(T)
      BY Zenon, <1>2, <2>1, <2>2, <2>3, Pigeons
    <2> QED BY <1>1, <2>1, <2>4 DEF b
  <1> QED BY <1>1, <1>3, <1>4

\* The positions claimed and not published are fewer than the cursor has values; with
\* a writer per slot, or a small lag, they have different slots.
LEMMA Room ==
  ASSUME RingAssumption, RingIInv
  PROVE  /\ Len(msgs) <= published + CursorMod
         /\ Fits => Len(msgs) <= published + RingCapacity
  <1>1. Len(msgs) <= published + CursorMod
    BY ClaimedByWriters, RingConsts
  <1>2. CASE Cardinality(Writers) <= RingCapacity
    BY <1>1, <1>2, ClaimedByWriters, RingConsts
  <1>3. ASSUME NEW s \in Streams, use.lag <= RingCapacity
        PROVE  Len(msgs) <= published + RingCapacity
    <2>1. /\ Len(got[s]) <= published /\ ring_calls - Len(got[s]) <= use.lag
          /\ Len(got[s]) \in Nat /\ ring_calls \in Nat /\ use.lag \in Nat
      BY RingConsts DEF RingIInv, RingTypeOK, ReadersInv
    <2> QED BY <1>3, <2>1, ClaimedByWriters, ClaimedAreCalls, RingConsts
  <1> QED BY <1>1, <1>2, <1>3 DEF Fits

-----------------------------------------------------------------------------
(* The positions.                                                          *)

\* The compare-and-swap that succeeds is the one of the writer of the next position.
LEMMA AdvancePosition ==
  ASSUME RingAssumption, RingIInv, NEW w \in Writers, Holding(w), cursor = idx[w]
  PROVE  published + 1 <= Len(msgs) /\ msgs[published + 1] = ring_data[w]
  <1>1. PICK i \in published + 1 .. Len(msgs) :
          msgs[i] = ring_data[w] /\ idx[w] = (i - 1) % CursorMod
    BY DEF RingIInv, PositionsInv
  <1>2. /\ published \in Nat /\ Len(msgs) \in Nat /\ i - 1 \in Nat
        /\ published <= i - 1 /\ i - 1 < published + CursorMod
    BY ClaimedByWriters, Room, RingConsts
  <1>3. published % CursorMod = (i - 1) % CursorMod
    BY <1>1 DEF RingIInv, PositionsInv
  <1>4. published = i - 1
    <2> DEFINE k == i - 1
    <2> HIDE DEF k
    <2>1. k \in Nat /\ published <= k /\ k < published + CursorMod
      BY <1>2 DEF k
    <2>2. published % CursorMod = k % CursorMod
      BY <1>3 DEF k
    <2>3. ~(published < k)
      BY <1>2, <2>1, <2>2, RingConsts, ModApart
    <2> QED BY <1>2, <2>1, <2>3 DEF k
  <1> QED BY <1>1, <1>2, <1>4

\* Every step keeps the claimed positions with their writers.
LEMMA RingPositions ==
  ASSUME RingAssumption, ~WeakCas, RingIInv, [RingNext]_ringVars
  PROVE  PositionsInv' /\ ReturnedIsPublished'
  <1>0. /\ ring_pc \in [Writers -> Points] /\ idx \in [Writers -> 0 .. CursorMod - 1]
        /\ ring_data \in [Writers -> 0 .. use.calls]
        /\ Len(msgs) \in Nat /\ published \in Nat /\ published <= Len(msgs)
    BY DEF RingIInv, RingTypeOK, Points
  <1>1. WriteMode' = WriteMode
    BY UseStays
  <1>2. CASE UNCHANGED <<ring_pc, ring_data, idx, msgs, published, cursor, next, returned>>
    BY <1>1, <1>2 DEF RingIInv, PositionsInv, ReturnedIsPublished, Holding
  <1>3. ASSUME NEW w \in Writers, WriteCall(w) \/ LockMutex(w) \/ Store(w) \/ UnlockMutex(w)
                                  \/ StoreClaimed(w)
        PROVE  PositionsInv' /\ ReturnedIsPublished'
    <2>1. UNCHANGED <<idx, msgs, published, cursor, next, returned>>
      BY <1>3 DEF WriteCall, LockMutex, Store, UnlockMutex, StoreClaimed, shared, history
    <2>2. \A v \in Writers :
            /\ Holding(v)' <=> Holding(v)
            /\ ring_pc'[v] \in {"unlock", "wake"} <=> ring_pc[v] \in {"unlock", "wake"}
            /\ ring_pc[v] # "idle" => ring_data'[v] = ring_data[v]
      BY <1>0, <1>3, Modes DEF WriteCall, LockMutex, Store, UnlockMutex, StoreClaimed,
         RingGoto, Holding
    <2>3. \A v \in Writers : Holding(v) \/ ring_pc[v] \in {"unlock", "wake"} => ring_pc[v] # "idle"
      BY DEF Holding
    <2> QED BY <1>1, <2>1, <2>2, <2>3 DEF RingIInv, PositionsInv, ReturnedIsPublished
  <1>4. ASSUME NEW w \in Writers, Claim(w)
        PROVE  PositionsInv' /\ ReturnedIsPublished'
    <2> DEFINE n == Len(msgs)
    <2>1. /\ UNCHANGED <<published, cursor, returned, ring_data>>
          /\ idx' = [idx EXCEPT ![w] = next] /\ next' = Inc(next)
          /\ ring_pc' = [ring_pc EXCEPT ![w] = "store_claimed"] /\ ring_pc[w] = "claim"
      BY <1>4 DEF Claim, RingGoto
    <2>2. WriteMode = "busy_loop" /\ next = n % CursorMod /\ next' = (n + 1) % CursorMod
      <3>1. WriteMode = "busy_loop" /\ next = n % CursorMod
        BY Zenon, <2>1 DEF RingIInv, WritersInv, PositionsInv
      <3> HIDE DEF n
      <3> QED BY <1>0, <2>1, <3>1, Wraps DEF n
    <2>3. /\ Len(msgs') = n + 1 /\ msgs'[n + 1] = ring_data[w]
          /\ \A i \in 1 .. n : msgs'[i] = msgs[i]
      BY <1>4, NextMessage
    <2> HIDE DEF n
    <2>4. ASSUME NEW v \in Writers, Holding(v)'
          PROVE  \E i \in published + 1 .. n + 1 :
                   msgs'[i] = ring_data[v] /\ idx'[v] = (i - 1) % CursorMod
      <3>1. CASE v = w
        <4>1. n + 1 \in published + 1 .. n + 1 /\ (n + 1) - 1 = n
          BY <1>0 DEF n
        <4> QED BY <1>0, <2>1, <2>2, <2>3, <3>1, <4>1
      <3>2. CASE v # w
        <4>1. Holding(v) /\ idx'[v] = idx[v]
          BY <1>0, <2>1, <2>4, <3>2 DEF Holding
        <4>2. PICK i \in published + 1 .. n : msgs[i] = ring_data[v] /\ idx[v] = (i - 1) % CursorMod
          BY <4>1 DEF RingIInv, PositionsInv, n
        <4>3. i \in published + 1 .. n + 1 /\ i \in 1 .. n
          BY <1>0 DEF n
        <4> QED BY <2>3, <4>1, <4>2, <4>3
      <3> QED BY <3>1, <3>2
    <2>5. ASSUME NEW i \in published + 1 .. n + 1
          PROVE  \E v \in Writers : Holding(v)' /\ ring_data[v] = msgs'[i]
      <3>1. CASE i = n + 1
        BY <1>0, <2>1, <2>3, <3>1 DEF Holding
      <3>2. CASE i # n + 1
        <4>1. i \in published + 1 .. n /\ i \in 1 .. n
          BY <1>0, <3>2 DEF n
        <4>2. PICK v \in Writers : Holding(v) /\ ring_data[v] = msgs[i]
          BY <4>1 DEF RingIInv, PositionsInv, n
        <4> QED BY <1>0, <2>1, <2>3, <4>1, <4>2 DEF Holding
      <3> QED BY <3>1, <3>2
    <2>6. \A i \in 1 .. published : msgs'[i] = msgs[i]
      BY <1>0, <2>3 DEF n
    <2>7. ASSUME NEW v \in Writers, ring_pc'[v] \in {"unlock", "wake"}
          PROVE  \E i \in 1 .. published : msgs'[i] = ring_data[v]
      <3>1. ring_pc[v] \in {"unlock", "wake"}
        BY <1>0, <2>1, <2>7
      <3>2. PICK i \in 1 .. published : msgs[i] = ring_data[v]
        BY <3>1 DEF RingIInv, PositionsInv
      <3> QED BY <2>6, <3>2
    <2>8. ReturnedIsPublished'
      BY <2>1, <2>6 DEF RingIInv, ReturnedIsPublished
    <2> QED BY Zenon, <1>1, <2>1, <2>2, <2>3, <2>4, <2>5, <2>7, <2>8 DEF RingIInv, PositionsInv
  <1>5. ASSUME NEW w \in Writers, Publish(w)
        PROVE  PositionsInv' /\ ReturnedIsPublished'
    <2>1. /\ UNCHANGED <<returned,
                         ring_data>> /\ cursor' = Inc(cursor) /\ published' = published + 1
          /\ ring_pc[w] = "publish" /\ ring_pc'[w] \in {"unlock", "wake"}
          /\ \A v \in Writers \ {w} : ring_pc'[v] = ring_pc[v]
      BY <1>0, <1>5 DEF Publish, RingGoto
    <2>2. /\ WriteMode # "busy_loop" /\ published = Len(msgs)
          /\ \A v \in Writers : ~Holding(v)
      BY <2>1 DEF RingIInv, WritersInv, PositionsInv, Storing
    <2>3. cursor' = (published + 1) % CursorMod
      BY <1>0, <2>1, Wraps DEF RingIInv, PositionsInv
    <2>4. /\ Len(msgs') = published + 1 /\ msgs'[published + 1] = ring_data[w]
          /\ \A i \in 1 .. published : msgs'[i] = msgs[i]
      BY <1>5, <2>2, NextMessage
    <2>5. \A v \in Writers : ~Holding(v)'
      BY <2>1, <2>2 DEF Holding
    <2>6. \A i \in 1 .. published : i \in 1 .. published + 1
      BY <1>0
    <2>7. ASSUME NEW v \in Writers, ring_pc'[v] \in {"unlock", "wake"}
          PROVE  \E i \in 1 .. published + 1 : msgs'[i] = ring_data[v]
      <3>1. CASE v = w
        BY <1>0, <2>4, <3>1, published + 1 \in 1 .. published + 1
      <3>2. CASE v # w
        BY <2>1, <2>4, <2>6, <2>7, <3>2 DEF RingIInv, PositionsInv
      <3> QED BY <3>1, <3>2
    <2>8. ReturnedIsPublished'
      BY <2>1, <2>4, <2>6 DEF RingIInv, ReturnedIsPublished
    <2>9. published' + 1 .. Len(msgs') = {}
      BY <1>0, <2>1, <2>4
    <2> QED BY <1>1, <2>1, <2>2, <2>3, <2>4, <2>5, <2>7, <2>8, <2>9 DEF PositionsInv
  <1>6. ASSUME NEW w \in Writers, Advance(w), cursor = idx[w]
        PROVE  PositionsInv' /\ ReturnedIsPublished'
    <2>1. /\ UNCHANGED <<returned, ring_data, idx, msgs, next>> /\ published' = published + 1
          /\ cursor' = Inc(cursor) /\ ring_pc[w] = "advance" /\ ring_pc' = [ring_pc EXCEPT ![w] = "wake"]
      BY <1>6 DEF Advance, RingGoto
    <2>2. /\ WriteMode = "busy_loop"
          /\ published + 1 <= Len(msgs) /\ msgs[published + 1] = ring_data[w]
      BY Zenon, <1>6, <2>1, AdvancePosition DEF RingIInv, WritersInv, Holding
    <2>3. cursor' = (published + 1) % CursorMod
      BY <1>0, <2>1, Wraps DEF RingIInv, PositionsInv
    <2>4. ASSUME NEW v \in Writers, Holding(v)'
          PROVE  \E i \in published + 2 .. Len(msgs) :
                   msgs[i] = ring_data[v] /\ idx[v] = (i - 1) % CursorMod
      <3>1. v # w /\ Holding(v)
        BY <1>0, <2>1, <2>4 DEF Holding
      <3>2. ring_data[v] # ring_data[w]
        BY Zenon, <2>1, <3>1 DEF RingIInv, MessagesInv, Holding
      <3>3. PICK i \in published + 1 .. Len(msgs) :
              msgs[i] = ring_data[v] /\ idx[v] = (i - 1) % CursorMod
        BY Zenon, <3>1 DEF RingIInv, PositionsInv
      <3>4. i \in published + 2 .. Len(msgs)
        BY <1>0, <2>2, <3>2, <3>3
      <3> QED BY <3>3, <3>4
    <2>5. ASSUME NEW i \in published + 2 .. Len(msgs)
          PROVE  \E v \in Writers : Holding(v)' /\ ring_data[v] = msgs[i]
      <3>1. i \in published + 1 .. Len(msgs) /\ i # published + 1
        BY <1>0
      <3>2. PICK v \in Writers : Holding(v) /\ ring_data[v] = msgs[i]
        BY Zenon, <3>1 DEF RingIInv, PositionsInv
      <3>3. v # w
        BY <1>0, <2>2, <3>1, <3>2 DEF RingIInv, MessagesInv
      <3> QED BY <1>0, <2>1, <3>2, <3>3 DEF Holding
    <2>6. \A i \in 1 .. published : i \in 1 .. published + 1
      BY <1>0
    <2>7. ASSUME NEW v \in Writers, ring_pc'[v] \in {"unlock", "wake"}
          PROVE  \E i \in 1 .. published + 1 : msgs[i] = ring_data[v]
      <3>1. CASE v = w
        BY <1>0, <2>2, <3>1, published + 1 \in 1 .. published + 1
      <3>2. CASE v # w
        BY <1>0, <2>1, <2>6, <2>7, <3>2 DEF RingIInv, PositionsInv
      <3> QED BY Zenon, <3>1, <3>2
    <2>8. ReturnedIsPublished'
      BY <2>1, <2>6 DEF RingIInv, ReturnedIsPublished
    <2>9. published' + 1 .. Len(msgs') = published + 2 .. Len(msgs)
      BY <1>0, <2>1
    <2> QED BY ZenonT(30), <1>1, <2>1, <2>2, <2>3, <2>4, <2>5, <2>7, <2>8, <2>9
        DEF RingIInv, PositionsInv
  <1>7. ASSUME NEW w \in Writers, Advance(w), cursor # idx[w]
        PROVE  PositionsInv' /\ ReturnedIsPublished'
    BY <1>2, <1>7 DEF Advance
  <1>8. ASSUME NEW w \in Writers, Wake(w)
        PROVE  PositionsInv' /\ ReturnedIsPublished'
    <2>1. /\ UNCHANGED <<ring_data, idx, msgs, published, cursor, next>>
          /\ ring_pc[w] = "wake" /\ ring_pc' = [ring_pc EXCEPT ![w] = "idle"]
          /\ returned' = returned \cup {ring_data[w]}
      BY <1>8 DEF Wake, RingGoto, shared
    <2>2. \A v \in Writers :
            /\ Holding(v)' <=> Holding(v)
            /\ ring_pc'[v] \in {"unlock", "wake"} => ring_pc[v] \in {"unlock", "wake"}
      BY <1>0, <2>1 DEF Holding
    <2>3. PositionsInv'
      BY Zenon, <1>1, <2>1, <2>2 DEF RingIInv, PositionsInv
    <2>4. ReturnedIsPublished'
      BY <2>1 DEF RingIInv, PositionsInv, ReturnedIsPublished
    <2> QED BY <2>3, <2>4
  <1>9. ASSUME NEW r \in Readers, ReaderStep(r) \/ Interrupted(r)
        PROVE  PositionsInv' /\ ReturnedIsPublished'
    BY <1>2, <1>9, ReaderFrame DEF wvars
  <1> QED BY <1>2, <1>3, <1>4, <1>5, <1>6, <1>7, <1>8, <1>9
      DEF RingNext, ringVars, WriterStep, wvars, shared, history

-----------------------------------------------------------------------------
(* The readers.                                                            *)

\* The readers of a shared stream take turns.
LEMMA ReadingAlone ==
  ASSUME RingAssumption, RingIInv, NEW q \in Readers, NEW r \in Readers, Reading(q), Reading(r),
         Stream(q) = Stream(r)
  PROVE  q = r
  <1>1. CASE ReadMode = "lock"
    BY <1>1 DEF RingIInv, ReadersInv
  <1>2. CASE "SINGLE_READER" \in use.flags
    BY <1>2 DEF RingIInv, ReadersInv, Reading
  <1>3. CASE ~OneStream
    BY <1>3 DEF Stream
  <1> QED BY <1>1, <1>2, <1>3 DEF OneStream

\* Facts about one reader's stream that its steps need.
LEMMA StreamFacts ==
  ASSUME RingAssumption, RingIInv, NEW r \in Readers
  PROVE  /\ Stream(r) \in Streams /\ got \in [Streams -> Seq(0 .. use.calls)]
         /\ Len(got[Stream(r)]) \in Nat /\ Len(got[Stream(r)]) <= published
         /\ published \in Nat /\ Len(msgs) \in Nat /\ published <= Len(msgs)
  BY Modes DEF RingIInv, RingTypeOK, ReadersInv

\* ReadLoad goes on to take the slot only when the cursor is past the position.
LEMMA LoadSeesPublished ==
  ASSUME RingAssumption, RingIInv, NEW r \in Readers, ReadLoad(r)
  PROVE  /\ r_pos'[r] = Len(got[Stream(r)]) % RingCapacity
         /\ rpc'[r] = "take" => Len(got[Stream(r)]) < published
  <1> DEFINE n == Len(got[Stream(r)])
             pos == IF ReadMode = "lock" THEN Idx(read_cursor) ELSE r_pos[r]
  <1>1. n \in Nat /\ n <= published /\ published \in Nat
    BY StreamFacts
  <1>2. pos = n % RingCapacity
    <2>1. CASE ReadMode = "lock"
      <3>1. read_cursor = n % CursorMod
        BY <2>1, Modes DEF RingIInv, ReadersInv
      <3> HIDE DEF n
      <3> QED BY <1>1, <2>1, <3>1, Wraps
    <2>2. CASE ReadMode # "lock"
      BY <2>2 DEF RingIInv, ReadersInv, ReadLoad, Reading
    <2> QED BY <2>1, <2>2
  <1>3. Idx(cursor) = published % RingCapacity
    BY <1>1, Wraps DEF RingIInv, PositionsInv
  <1>4. /\ r_pos' = [r_pos EXCEPT ![r] = pos]
        /\ rpc' = [rpc EXCEPT ![r] = IF Idx(cursor) # pos THEN "take"
                                     ELSE IF ReadMode = "busy_loop" THEN "load" ELSE "wait"]
    BY DEF ReadLoad, RGoto
  <1>5. r \in DOMAIN rpc /\ r \in DOMAIN r_pos
    BY DEF RingIInv, RingTypeOK
  <1> HIDE DEF n, pos
  <1>6. rpc'[r] = "take" => n < published
    BY <1>1, <1>2, <1>3, <1>4, <1>5
  <1> QED BY <1>2, <1>4, <1>5, <1>6 DEF n

\* What the steps of the writers mean to the readers: a sleeper may be woken, and the
\* lag is kept.
LEMMA WriterForReaders ==
  ASSUME RingAssumption, ~WeakCas, RingIInv, NEW w \in Writers, WriteCall(w) \/ WriterStep(w)
  PROVE  /\ UNCHANGED <<read_cursor, read_mutex, r_pos, w_cursor, got>>
         /\ \A r \in Readers : rpc'[r] = rpc[r] \/ (rpc[r] = "asleep" /\ rpc'[r] = "load")
         /\ published' \in Nat /\ published' >= published
         /\ \A s \in Streams : ring_calls' - Len(got[s]) <= use.lag
  <1>1. published \in Nat /\ ring_calls \in Nat /\ \A s \in Streams : Len(got[s]) \in Nat
    BY DEF RingIInv, RingTypeOK
  <1>2. published' \in Nat /\ published' >= published
    BY <1>1 DEF WriteCall, WriterStep, LockMutex, Store, Publish, UnlockMutex, Claim,
       StoreClaimed, Advance, Wake, history
  <1>3. \A r \in Readers : rpc'[r] = rpc[r] \/ (rpc[r] = "asleep" /\ rpc'[r] = "load")
    BY DEF WriteCall, WriterStep, LockMutex, Store, Publish, UnlockMutex, Claim,
       StoreClaimed, Advance, Wake, RGoto, rvars, RingIInv, RingTypeOK
  <1>4. ASSUME NEW s \in Streams
        PROVE  ring_calls' - Len(got[s]) <= use.lag
    <2>1. CASE WriteCall(w)
      <3>1. ring_calls - Len(got[s]) < use.lag /\ ring_calls' = ring_calls + 1 /\ use.lag \in Nat
        BY <2>1, RingConsts DEF WriteCall, RingIInv, RingTypeOK
      <3> DEFINE n == Len(got[s])
      <3>2. n \in Nat
        BY <1>1
      <3> HIDE DEF n
      <3>3. ring_calls - n < use.lag
        BY <3>1 DEF n
      <3>4. ring_calls' - n <= use.lag
        BY <1>1, <3>1, <3>2, <3>3
      <3> QED BY <3>4 DEF n
    <2>2. CASE WriterStep(w)
      <3>1. ring_calls' = ring_calls
        BY Zenon, <2>2
        DEF WriterStep, LockMutex, Store, Publish, UnlockMutex, Claim, StoreClaimed,
           Advance, Wake
      <3> QED BY <3>1 DEF RingIInv, ReadersInv
    <2> QED BY <2>1, <2>2
  <1> QED BY <1>2, <1>3, <1>4, WriterFrame

\* Every step keeps the readers' turns and positions.
LEMMA RingReaders ==
  ASSUME RingAssumption, ~WeakCas, RingIInv, [RingNext]_ringVars
  PROVE  ReadersInv'
  <1>0. /\ use' = use /\ ReadMode' = ReadMode /\ Streams' = Streams
        /\ \A r \in Readers : Stream(r)' = Stream(r) /\ Stream(r) \in Streams
    BY UseStays, Modes
  <1>1. /\ published \in Nat /\ ring_calls \in Nat /\ \A s \in Streams : Len(got[s]) \in Nat
        /\ r_pos \in [Readers -> 0 .. RingCapacity - 1]
        /\ rpc \in [Readers -> {"idle", "lock", "load", "wait", "asleep", "take", "unlock"}]
    BY DEF RingIInv, RingTypeOK
  <1>2. CASE UNCHANGED <<read_cursor, read_mutex, rpc, r_pos, got, published, ring_calls>>
    BY <1>0, <1>2 DEF RingIInv, ReadersInv, Reading
  <1>3. ASSUME NEW w \in Writers, WriteCall(w) \/ WriterStep(w)
        PROVE  ReadersInv'
    <2>1. /\ UNCHANGED <<read_cursor, read_mutex, r_pos, got>>
          /\ \A r \in Readers : rpc'[r] = rpc[r] \/ (rpc[r] = "asleep" /\ rpc'[r] = "load")
          /\ published' \in Nat /\ published' >= published
          /\ \A s \in Streams : ring_calls' - Len(got[s]) <= use.lag
      BY <1>3, WriterForReaders
    <2>2. \A r \in Readers :
            /\ Reading(r)' <=> Reading(r)
            /\ rpc'[r] \in {"lock", "unlock"} <=> rpc[r] \in {"lock", "unlock"}
            /\ rpc'[r] = "unlock" <=> rpc[r] = "unlock"
            /\ rpc'[r] = "take" => rpc[r] = "take"
            /\ rpc'[r] # "idle" => rpc[r] # "idle"
      BY <2>1 DEF Reading
    <2>3. /\ \A r \in Readers : Len(got[Stream(r)]) < published => Len(got[Stream(r)]) < published'
          /\ \A s \in Streams : Len(got[s]) <= published'
      <3>1. \A s \in Streams : Len(got[s]) <= published
        BY DEF RingIInv, ReadersInv
      <3> QED BY <1>0, <1>1, <2>1, <3>1
    <2> QED BY Zenon, <1>0, <2>1, <2>2, <2>3 DEF RingIInv, ReadersInv
  <1>4. ASSUME NEW r \in Readers, ReadCall(r)
        PROVE  ReadersInv'
    <2>1. /\ UNCHANGED <<read_cursor, read_mutex, got, published,
                         ring_calls>> /\ rpc[r] = "idle"
          /\ "SINGLE_READER" \in use.flags => \A q \in Readers : rpc[q] = "idle"
          /\ rpc' = [rpc EXCEPT ![r] = IF ReadMode = "lock" THEN "lock" ELSE "load"]
          /\ \A q \in Readers \ {r} : r_pos'[q] = r_pos[q]
          /\ ReadMode # "lock" => r_pos'[r] = Idx(Len(got[Stream(r)]) % CursorMod)
      BY Zenon, <1>1, <1>4 DEF ReadCall, RGoto, shared, history
    <2>2. ReadMode # "lock" => r_pos'[r] = Len(got[Stream(r)]) % RingCapacity
      <3> DEFINE n == Len(got[Stream(r)])
      <3>1. n \in Nat
        BY <1>0, <1>1
      <3> HIDE DEF n
      <3>2. Idx(n % CursorMod) = n % RingCapacity
        BY <3>1, Wraps
      <3> QED BY <2>1, <3>2 DEF n
    <2> QED BY Zenon, <1>0, <1>1, <2>1, <2>2 DEF RingIInv, ReadersInv, Reading
  <1>5. ASSUME NEW r \in Readers, ReadLock(r) \/ ReadUnlock(r)
        PROVE  ReadersInv'
    <2>1. UNCHANGED <<read_cursor, r_pos, got, published, ring_calls>>
      BY <1>5 DEF ReadLock, ReadUnlock, history
    <2>2. ReadMode = "lock"
      BY <1>5 DEF ReadLock, ReadUnlock, RingIInv, ReadersInv
    <2>3. CASE ReadLock(r)
      BY <1>0, <1>1, <2>1, <2>2, <2>3 DEF RingIInv, ReadersInv, Reading, ReadLock, RGoto
    <2>4. CASE ReadUnlock(r)
      BY Zenon, <1>0, <1>1, <2>1, <2>2, <2>4 DEF RingIInv, ReadersInv, Reading, ReadUnlock,
         RGoto
    <2> QED BY <1>5, <2>3, <2>4
  <1>6. ASSUME NEW r \in Readers, ReadLoad(r)
        PROVE  ReadersInv'
    <2>1. /\ UNCHANGED <<read_cursor, read_mutex, got, published,
                         ring_calls>> /\ rpc[r] = "load"
          /\ \A q \in Readers \ {r} : r_pos'[q] = r_pos[q] /\ rpc'[q] = rpc[q]
          /\ rpc'[r] \in {"take", "load", "wait"}
      BY <1>1, <1>6 DEF ReadLoad, RGoto, shared, history
    <2> QED BY Zenon, <1>0, <1>6, <2>1, LoadSeesPublished DEF RingIInv, ReadersInv, Reading
  <1>7. ASSUME NEW r \in Readers, ReadWait(r) \/ Interrupted(r)
        PROVE  ReadersInv'
    <2>1. /\ UNCHANGED <<read_cursor, read_mutex, r_pos, got, published, ring_calls>>
          /\ rpc[r] \in {"wait", "asleep"} /\ rpc'[r] \in {"asleep", "load"}
          /\ \A q \in Readers \ {r} : rpc'[q] = rpc[q]
      BY <1>1, <1>7 DEF ReadWait, Interrupted, RGoto, shared, history
    <2> QED BY <1>0, <2>1 DEF RingIInv, ReadersInv, Reading
  <1>8. ASSUME NEW r \in Readers, Take(r)
        PROVE  ReadersInv'
    <2> DEFINE c == Stream(r)
               n == Len(got[c])
    <2>1. /\ UNCHANGED <<read_mutex, r_pos, published, ring_calls>> /\ rpc[r] = "take"
          /\ \A q \in Readers \ {r} : rpc'[q] = rpc[q]
          /\ rpc'[r] = IF ReadMode = "lock" THEN "unlock" ELSE "idle"
          /\ ReadMode = "lock" => read_cursor' = Inc(read_cursor)
          /\ got' = [got EXCEPT ![c] = Append(@, ring_datas[r_pos[r]])]
      BY <1>1, <1>8 DEF Take, RGoto
    <2>2. /\ c \in Streams /\ n \in Nat /\ n < published
          /\ Len(got'[c]) = n + 1 /\ \A s \in Streams \ {c} : got'[s] = got[s]
      <3>1. c \in Streams /\ n < published
        BY <1>0, <2>1 DEF RingIInv, ReadersInv
      <3>2. got \in [Streams -> Seq(0 .. use.calls)] /\ ring_datas[r_pos[r]] \in 0 .. use.calls
        BY DEF RingIInv, RingTypeOK
      <3> QED BY <1>1, <2>1, <3>1, <3>2
    <2>3. ASSUME NEW q \in Readers \ {r}, Reading(q)
          PROVE  got'[Stream(q)] = got[Stream(q)]
      <3>1. Stream(q) # c
        BY <2>1, <2>3, ReadingAlone DEF Reading
      <3> QED BY <1>0, <2>2, <3>1
    <2>4. ReadMode = "lock" => read_cursor' = Len(got'["shared"]) % CursorMod
      <3>1. ReadMode = "lock" => c = "shared" /\ read_cursor = n % CursorMod
        BY Modes DEF RingIInv, ReadersInv
      <3> HIDE DEF n
      <3>2. Inc(n % CursorMod) = (n + 1) % CursorMod
        BY <2>2, Wraps
      <3> QED BY <2>1, <2>2, <3>1, <3>2
    <2>5. \A s \in Streams : Len(got'[s]) <= published /\ ring_calls - Len(got'[s]) <= use.lag
      <3>1. \A s \in Streams : Len(got[s]) <= published /\ ring_calls - Len(got[s]) <= use.lag
        BY DEF RingIInv, ReadersInv
      <3>2. n + 1 <= published /\ ring_calls - (n + 1) <= use.lag
        <4>1. ring_calls - n <= use.lag /\ use.lag \in Nat
          BY <2>2, <3>1, RingConsts DEF RingIInv, RingTypeOK
        <4> HIDE DEF n
        <4> QED BY <1>1, <2>2, <4>1
      <3> QED BY <2>2, <3>1, <3>2
    <2> HIDE DEF c, n
    <2> QED BY ZenonT(30), <1>0, <2>1, <2>3, <2>4, <2>5 DEF RingIInv, ReadersInv, Reading
  <1> QED BY <1>2, <1>3, <1>4, <1>5, <1>6, <1>7, <1>8
      DEF RingNext, ringVars, ReaderStep, rvars, shared, history

-----------------------------------------------------------------------------
(* The slots.                                                              *)

\* Steps that leave slots and positions alone.
LEMMA SlotsStay ==
  ASSUME SlotsInv, UNCHANGED <<ring_datas, msgs, published>>,
         \A v \in Writers : /\ ring_pc'[v] = "publish" <=> ring_pc[v] = "publish"
                            /\ ring_pc'[v] = "advance" <=> ring_pc[v] = "advance"
                            /\ ring_pc[v] # "idle" => ring_data'[v] = ring_data[v]
  PROVE  SlotsInv'
  <1>1. \A d, j : At(d, j) <=> At(d, j)'
    BY DEF At
  <1>2. \A i \in 1 .. published' : \E j \in i .. Len(msgs') + 1 :
          SameSlot(i, j) /\ At(ring_datas[(i - 1) % RingCapacity], j)'
    BY <1>1 DEF SlotsInv
  <1> QED BY <1>2 DEF SlotsInv, SameSlot, At

\* The slot of a position is an index of the array.
LEMMA SlotIndex ==
  ASSUME RingAssumption, NEW n \in Nat, NEW i \in 1 .. n
  PROVE  i - 1 \in Nat /\ (i - 1) % RingCapacity \in 0 .. RingCapacity - 1
  <1> DEFINE k == i - 1
  <1>1. k \in Nat
    OBVIOUS
  <1> HIDE DEF k
  <1>2. k % RingCapacity \in 0 .. RingCapacity - 1
    BY <1>1, RingConsts, DivMod
  <1> QED BY <1>1, <1>2 DEF k

\* A store in lock or single mode goes to the slot of the next position.
LEMMA StoreSlots ==
  ASSUME RingAssumption, RingIInv, SlotsInv, NEW w \in Writers, Store(w)
  PROVE  SlotsInv'
  <1> DEFINE k == published % RingCapacity
  <1>0. /\ ring_pc \in [Writers -> Points] /\ published \in Nat /\ published = Len(msgs)
        /\ ring_datas \in [0 .. RingCapacity - 1 -> 0 .. use.calls] /\ k \in 0 .. RingCapacity - 1
        /\ \A v \in Writers : ring_pc[v] # "publish" /\ ring_pc[v] # "advance"
    <2>1. WriteMode # "busy_loop"
      BY DEF RingIInv, WritersInv, Store, Storing
    <2>2. /\ ring_pc \in [Writers -> Points] /\ published \in Nat /\ published = Len(msgs)
          /\ ring_datas \in [0 .. RingCapacity - 1 -> 0 .. use.calls]
      BY <2>1 DEF RingIInv, RingTypeOK, Points, PositionsInv
    <2>3. \A v \in Writers : ring_pc[v] # "publish" /\ ring_pc[v] # "advance"
      BY <2>1, StoringAlone DEF RingIInv, WritersInv, Store, Storing, Holding
    <2> QED BY Zenon, <2>2, <2>3, RingConsts, DivMod
  <1>1. Idx(cursor) = k
    BY Zenon, <1>0, Wraps DEF RingIInv, PositionsInv
  <1>2. /\ UNCHANGED <<msgs, published,
                       ring_data>> /\ ring_pc' = [ring_pc EXCEPT ![w] = "publish"]
        /\ ring_datas' = [ring_datas EXCEPT ![k] = ring_data[w]]
    BY <1>1 DEF Store, RingGoto, history
  <1> HIDE DEF k
  <1>3. ASSUME NEW i \in 1 .. published
        PROVE  \E j \in i .. Len(msgs) + 1 :
                 SameSlot(i, j) /\ At(ring_datas[(i - 1) % RingCapacity], j)'
    <2>1. (i - 1) % RingCapacity \in 0 .. RingCapacity - 1
      BY <1>0, SlotIndex
    <2>2. CASE (i - 1) % RingCapacity = k
      <3>1. ring_datas'[(i - 1) % RingCapacity] = ring_data[w]
        BY <1>0, <1>2, <2>2
      <3>2. published + 1 \in i .. Len(msgs) + 1 /\ SameSlot(i, published + 1)
        <4>1. (published + 1) - 1 = published
          BY <1>0
        <4> QED BY <1>0, <2>2, <4>1 DEF SameSlot, k
      <3>3. At(ring_data[w], published + 1)'
        BY <1>0, <1>2 DEF At
      <3> QED BY <1>2, <3>1, <3>2, <3>3
    <2>3. CASE (i - 1) % RingCapacity # k
      <3>1. ring_datas'[(i - 1) % RingCapacity] = ring_datas[(i - 1) % RingCapacity]
        BY <1>0, <1>2, <2>1, <2>3
      <3>2. PICK j \in i .. Len(msgs) + 1 : SameSlot(i, j) /\ At(ring_datas[(i - 1) % RingCapacity], j)
        BY DEF SlotsInv
      <3>3. At(ring_datas[(i - 1) % RingCapacity], j)'
        BY <1>0, <1>2, <3>1, <3>2 DEF At
      <3> QED BY <3>2, <3>3
    <2> QED BY <2>2, <2>3
  <1>4. \A v \in Writers : ring_pc'[v] = "publish" => ring_datas'[published % RingCapacity] = ring_data[v]
    BY <1>0, <1>2 DEF k
  <1>5. \A v \in Writers : ring_pc'[v] # "advance"
    BY <1>0, <1>2
  <1> QED BY Zenon, <1>2, <1>3, <1>4, <1>5 DEF SlotsInv, SameSlot

\* Its publication gives the message the position whose slot it is in.
LEMMA PublishSlots ==
  ASSUME RingAssumption, RingIInv, SlotsInv, NEW w \in Writers, Publish(w)
  PROVE  SlotsInv'
  <1>0. /\ ring_pc \in [Writers -> Points] /\ published \in Nat /\ published = Len(msgs)
        /\ ring_pc[w] = "publish" /\ \A v \in Writers \ {w} : ring_pc[v] # "publish"
        /\ \A v \in Writers : ring_pc[v] # "advance"
    <2>1. WriteMode # "busy_loop"
      BY DEF RingIInv, WritersInv, Publish, Storing
    <2>2. ring_pc \in [Writers -> Points] /\ published \in Nat /\ published = Len(msgs)
      BY <2>1 DEF RingIInv, RingTypeOK, Points, PositionsInv
    <2> QED BY <2>1, <2>2, StoringAlone DEF RingIInv, WritersInv, Publish, Storing, Holding
  <1>1. /\ UNCHANGED <<ring_datas, ring_data>> /\ published' = published + 1
        /\ \A v \in Writers : ring_pc'[v] # "publish" /\ ring_pc'[v] # "advance"
    BY <1>0 DEF Publish, RingGoto
  <1>2. /\ Len(msgs') = published + 1 /\ msgs'[published + 1] = ring_data[w]
        /\ \A i \in 1 .. published : msgs'[i] = msgs[i]
    BY <1>0, NextMessage
  <1>3. ASSUME NEW i \in 1 .. published + 1
        PROVE  \E j \in i .. Len(msgs') + 1 :
                 SameSlot(i, j) /\ At(ring_datas[(i - 1) % RingCapacity], j)'
    <2>1. CASE i = published + 1
      <3>1. (i - 1) % RingCapacity = published % RingCapacity
        BY <1>0, <2>1
      <3>2. ring_datas'[(i - 1) % RingCapacity] = ring_data[w]
        BY <1>0, <1>1, <3>1 DEF SlotsInv
      <3>3. At(ring_datas[(i - 1) % RingCapacity], i)'
        BY <1>0, <1>2, <2>1, <3>2 DEF At
      <3>4. i \in i .. Len(msgs') + 1
        BY <1>0, <1>2
      <3> QED BY <3>3, <3>4 DEF SameSlot
    <2>2. CASE i # published + 1
      <3>1. i \in 1 .. published
        BY <1>0, <2>2
      <3>2. PICK j \in i .. Len(msgs) + 1 : SameSlot(i, j) /\ At(ring_datas[(i - 1) % RingCapacity], j)
        BY Zenon, <3>1 DEF SlotsInv
      <3> DEFINE d == ring_datas[(i - 1) % RingCapacity]
      <3>3. ring_datas' = ring_datas /\ At(d, j)
        BY <1>1, <3>2
      <3> HIDE DEF d
      <3>4. j \in 1 .. Len(msgs') /\ msgs'[j] = d
        <4>1. CASE j \in 1 .. Len(msgs) /\ msgs[j] = d
          BY <1>0, <1>2, <4>1
        <4>2. CASE j = Len(msgs) + 1 /\ ring_data[w] = d
          BY <1>0, <1>2, <4>2
        <4>3. \A v \in Writers : ring_pc[v] = "publish" => v = w
          BY <1>0
        <4> QED BY <3>3, <4>1, <4>2, <4>3 DEF At
      <3>5. At(ring_datas[(i - 1) % RingCapacity], j)'
        BY <3>3, <3>4 DEF At, d
      <3>6. j \in i .. Len(msgs') + 1
        BY <1>0, <1>2
      <3> QED BY <3>2, <3>5, <3>6
    <2> QED BY <2>1, <2>2
  <1> QED BY Zenon, <1>1, <1>3 DEF SlotsInv, SameSlot

\* A claim adds a position at the end.
LEMMA ClaimSlots ==
  ASSUME RingAssumption, RingIInv, SlotsInv, NEW w \in Writers, Claim(w)
  PROVE  SlotsInv'
  <1>0. /\ ring_pc \in [Writers -> Points] /\ published \in Nat /\ Len(msgs) \in Nat
        /\ published <= Len(msgs) /\ \A v \in Writers : ring_pc[v] # "publish"
    BY DEF RingIInv, RingTypeOK, Points, WritersInv, Claim, Storing
  <1>1. /\ UNCHANGED <<ring_datas, ring_data, published>>
        /\ ring_pc' = [ring_pc EXCEPT ![w] = "store_claimed"] /\ ring_pc[w] = "claim"
    BY <1>0 DEF Claim, RingGoto
  <1>2. /\ Len(msgs') = Len(msgs) + 1 /\ msgs'[Len(msgs) + 1] = ring_data[w]
        /\ \A i \in 1 .. Len(msgs) : msgs'[i] = msgs[i]
    BY NextMessage
  <1>3. ASSUME NEW i \in 1 .. published
        PROVE  \E j \in i .. Len(msgs') + 1 :
                 SameSlot(i, j) /\ At(ring_datas[(i - 1) % RingCapacity], j)'
    <2>1. PICK j \in i .. Len(msgs) + 1 : SameSlot(i, j) /\ At(ring_datas[(i - 1) % RingCapacity], j)
      BY DEF SlotsInv
    <2>2. At(ring_datas[(i - 1) % RingCapacity], j)' /\ j \in i .. Len(msgs') + 1
      BY <1>0, <1>1, <1>2, <2>1 DEF At
    <2> QED BY <2>1, <2>2
  <1>4. ASSUME NEW v \in Writers, ring_pc'[v] = "advance", NEW i \in published + 1 .. Len(msgs'),
               msgs'[i] = ring_data[v]
        PROVE  ring_datas[(i - 1) % RingCapacity] = ring_data[v]
    <2>1. ring_pc[v] = "advance" /\ v # w
      BY <1>0, <1>1, <1>4
    <2>2. ring_data[v] # ring_data[w]
      BY Zenon, <1>1, <2>1 DEF RingIInv, MessagesInv
    <2>3. i \in published + 1 .. Len(msgs) /\ msgs[i] = ring_data[v]
      <3>1. i # Len(msgs) + 1
        BY <1>2, <1>4, <2>2
      <3>2. i \in published + 1 .. Len(msgs) /\ i \in 1 .. Len(msgs)
        BY <1>0, <1>2, <3>1
      <3> QED BY <1>2, <1>4, <3>2
    <2> QED BY Zenon, <2>1, <2>3 DEF SlotsInv
  <1>5. \A v \in Writers : ring_pc'[v] # "publish"
    BY <1>0, <1>1
  <1> QED BY <1>1, <1>3, <1>4, <1>5 DEF SlotsInv, SameSlot

\* A store goes to the slot of the claimed position.  With no more positions claimed
\* than slots it hits no slot that another writer has filled and not published.
LEMMA StoreClaimedSlots ==
  ASSUME RingAssumption, RingIInv, Fits, SlotsInv, NEW w \in Writers, StoreClaimed(w)
  PROVE  SlotsInv'
  <1>0. /\ ring_pc \in [Writers -> Points] /\ published \in Nat /\ Len(msgs) \in Nat
        /\ published <= Len(msgs) /\ ring_datas \in [0 .. RingCapacity - 1 -> 0 .. use.calls]
        /\ \A v \in Writers : ring_pc[v] # "publish"
    BY DEF RingIInv, RingTypeOK, Points, WritersInv, StoreClaimed, Storing, Holding
  <1>1. PICK p \in published + 1 .. Len(msgs) :
          msgs[p] = ring_data[w] /\ idx[w] = (p - 1) % CursorMod
    BY DEF RingIInv, PositionsInv, StoreClaimed, Holding
  <1> DEFINE k == (p - 1) % RingCapacity
  <1>2. Idx(idx[w]) = k /\ p \in 1 .. Len(msgs) /\ p - 1 \in Nat
    <2>1. p \in 1 .. Len(msgs) /\ p - 1 \in Nat
      BY <1>0
    <2> DEFINE m == p - 1
    <2> HIDE DEF m
    <2>2. Idx(m % CursorMod) = m % RingCapacity
      BY <2>1, Wraps DEF m
    <2> QED BY <1>1, <2>1, <2>2 DEF m
  <1>3. /\ UNCHANGED <<msgs, published,
                       ring_data>> /\ ring_pc' = [ring_pc EXCEPT ![w] = "advance"]
        /\ ring_datas' = [ring_datas EXCEPT ![k] = ring_data[w]] /\ ring_pc[w] = "store_claimed"
    BY <1>2 DEF StoreClaimed, RingGoto, history
  <1>4. k \in 0 .. RingCapacity - 1
    BY <1>0, <1>2, SlotIndex
  <1> HIDE DEF k
  <1>5. ASSUME NEW i \in 1 .. published
        PROVE  \E j \in i .. Len(msgs) + 1 :
                 SameSlot(i, j) /\ At(ring_datas[(i - 1) % RingCapacity], j)'
    <2>1. (i - 1) % RingCapacity \in 0 .. RingCapacity - 1
      BY <1>0, SlotIndex
    <2>2. CASE (i - 1) % RingCapacity = k
      <3>1. ring_datas'[(i - 1) % RingCapacity] = ring_data[w]
        BY <1>0, <1>3, <1>4, <2>2
      <3>2. p \in i .. Len(msgs) + 1 /\ SameSlot(i, p)
        BY <1>0, <2>2 DEF SameSlot, k
      <3>3. At(ring_datas[(i - 1) % RingCapacity], p)'
        BY <1>1, <1>2, <1>3, <3>1 DEF At
      <3> QED BY <3>2, <3>3
    <2>3. CASE (i - 1) % RingCapacity # k
      <3>1. ring_datas'[(i - 1) % RingCapacity] = ring_datas[(i - 1) % RingCapacity]
        BY <1>0, <1>3, <2>1, <2>3
      <3>2. PICK j \in i .. Len(msgs) + 1 : SameSlot(i, j) /\ At(ring_datas[(i - 1) % RingCapacity], j)
        BY DEF SlotsInv
      <3>3. At(ring_datas[(i - 1) % RingCapacity], j)'
        BY <1>0, <1>3, <3>1, <3>2 DEF At
      <3> QED BY <3>2, <3>3
    <2> QED BY <2>2, <2>3
  <1>6. ASSUME NEW v \in Writers, ring_pc'[v] = "advance", NEW i \in published + 1 .. Len(msgs),
               msgs[i] = ring_data[v]
        PROVE  ring_datas'[(i - 1) % RingCapacity] = ring_data[v]
    <2>1. i \in 1 .. Len(msgs) /\ i - 1 \in Nat /\ (i - 1) % RingCapacity \in 0 .. RingCapacity - 1
      BY <1>0, SlotIndex
    <2>2. CASE v = w
      <3>1. i = p
        BY Zenon, <1>1, <1>2, <1>6, <2>1, <2>2 DEF RingIInv, MessagesInv
      <3> QED BY <1>0, <1>3, <1>4, <2>2, <3>1 DEF k
    <2>3. CASE v # w
      <3>1. ring_pc[v] = "advance" /\ ring_data[v] # ring_data[w]
        BY <1>0, <1>3, <1>6, <2>3 DEF RingIInv, MessagesInv
      <3>2. i # p
        BY Zenon, <1>1, <1>6, <3>1
      <3>3. (i - 1) % RingCapacity # k
        <4> DEFINE a == i - 1
                   b == p - 1
        <4>1. a \in Nat /\ b \in Nat /\ a # b /\ a < b + RingCapacity /\ b < a + RingCapacity
          <5>1. Len(msgs) <= published + RingCapacity /\ RingCapacity \in Nat
            BY Room, RingConsts
          <5> DEFINE n == Len(msgs)
          <5>2. n \in Nat /\ n <= published + RingCapacity
            BY <1>0, <5>1
          <5>3. p \in published + 1 .. n /\ i \in published + 1 .. n
            OBVIOUS
          <5> HIDE DEF n
          <5> QED BY <1>0, <3>2, <5>1, <5>2, <5>3
        <4> HIDE DEF a, b
        <4>2. a % RingCapacity # b % RingCapacity
          BY <4>1, RingConsts, ModApart
        <4> QED BY <4>2 DEF a, b, k
      <3>4. ring_datas'[(i - 1) % RingCapacity] = ring_datas[(i - 1) % RingCapacity]
        BY <1>0, <1>3, <2>1, <3>3
      <3> QED BY Zenon, <1>6, <3>1, <3>4 DEF SlotsInv
    <2> QED BY <2>2, <2>3
  <1>7. \A v \in Writers : ring_pc'[v] # "publish"
    BY <1>0, <1>3
  <1> QED BY <1>3, <1>5, <1>6, <1>7 DEF SlotsInv, SameSlot

\* The writer that moves the cursor over a position has filled its slot.
LEMMA AdvanceSlots ==
  ASSUME RingAssumption, ~WeakCas, RingIInv, SlotsInv, NEW w \in Writers, Advance(w)
  PROVE  SlotsInv'
  <1>0. /\ ring_pc \in [Writers -> Points] /\ published \in Nat /\ Len(msgs) \in Nat
        /\ ring_pc[w] = "advance" /\ UNCHANGED <<ring_datas, msgs, ring_data>>
    BY DEF RingIInv, RingTypeOK, Points, Advance
  <1>1. CASE UNCHANGED <<published, ring_pc>>
    BY <1>0, <1>1, SlotsStay
  <1>2. CASE cursor = idx[w] /\ published' = published + 1 /\ ring_pc' = [ring_pc EXCEPT ![w] = "wake"]
    <2>1. published + 1 <= Len(msgs) /\ msgs[published + 1] = ring_data[w]
      BY <1>0, <1>2, AdvancePosition DEF Holding
    <2>2. \A v \in Writers : /\ ring_pc'[v] = "publish" <=> ring_pc[v] = "publish"
                             /\ ring_pc'[v] = "advance" => ring_pc[v] = "advance"
      BY <1>0, <1>2
    <2>3. \A d, j : At(d, j) => At(d, j)'
      BY <1>0, <2>2 DEF At
    <2>4. ASSUME NEW i \in 1 .. published + 1
          PROVE  \E j \in i .. Len(msgs) + 1 :
                   SameSlot(i, j) /\ At(ring_datas[(i - 1) % RingCapacity], j)'
      <3>1. CASE i = published + 1
        <4>1. ring_datas[(i - 1) % RingCapacity] = ring_data[w] /\ i \in 1 .. Len(msgs) /\ msgs[i] = ring_data[w]
          BY SMTT(30), <1>0, <2>1, <3>1 DEF SlotsInv
        <4>2. At(ring_datas[(i - 1) % RingCapacity], i)'
          BY <1>0, <4>1 DEF At
        <4> QED BY <1>0, <4>1, <4>2 DEF SameSlot
      <3>2. CASE i # published + 1
        <4>1. i \in 1 .. published
          BY <1>0, <3>2
        <4> QED BY <1>0, <2>3, <4>1 DEF SlotsInv
      <3> QED BY <3>1, <3>2
    <2>5. \A v \in Writers : ring_pc[v] # "publish"
      BY <1>0 DEF RingIInv, WritersInv, Holding, Storing
    <2>6. ASSUME NEW v \in Writers, ring_pc'[v] = "advance", NEW i \in published' + 1 .. Len(msgs),
                 msgs[i] = ring_data[v]
          PROVE  ring_datas[(i - 1) % RingCapacity] = ring_data[v]
      <3>1. i \in published + 1 .. Len(msgs)
        BY <1>0, <1>2
      <3> QED BY <2>2, <2>6, <3>1 DEF SlotsInv
    <2> QED BY <1>0, <1>2, <2>2, <2>4, <2>5, <2>6 DEF SlotsInv, SameSlot
  <1> QED BY <1>1, <1>2 DEF Advance, RingGoto

\* Every step keeps the slots, as long as the claimed positions have different ones.
LEMMA RingSlots ==
  ASSUME RingAssumption, ~WeakCas, RingIInv, Fits, [RingNext]_ringVars
  PROVE  SlotsInv'
  <1>0. SlotsInv /\ ring_pc \in [Writers -> Points]
    BY DEF RingIInv, RingTypeOK, Points
  <1>1. ASSUME NEW w \in Writers, WriteCall(w) \/ LockMutex(w) \/ UnlockMutex(w) \/ Wake(w)
        PROVE  SlotsInv'
    <2>1. \E l \in Points \ {"publish", "advance"} :
            ring_pc' = [ring_pc EXCEPT ![w] = l] /\ ring_pc[w] \notin {"publish", "advance"}
      BY <1>1, Modes DEF WriteCall, LockMutex, UnlockMutex, Wake, RingGoto, Points
    <2>2. UNCHANGED <<ring_datas, msgs, published>> /\ \A v \in Writers :
            ring_pc[v] # "idle" => ring_data'[v] = ring_data[v]
      <3>1. ring_data \in [Writers -> 0 .. use.calls]
        BY DEF RingIInv, RingTypeOK
      <3> QED BY <1>1, <3>1 DEF WriteCall, LockMutex, UnlockMutex, Wake, shared, history
    <2>3. \A v \in Writers : /\ ring_pc'[v] = "publish" <=> ring_pc[v] = "publish"
                             /\ ring_pc'[v] = "advance" <=> ring_pc[v] = "advance"
      BY <1>0, <2>1
    <2> QED BY <1>0, <2>2, <2>3, SlotsStay
  <1>2. ASSUME NEW r \in Readers, ReaderStep(r) \/ Interrupted(r)
        PROVE  SlotsInv'
    BY <1>0, <1>2, ReaderFrame, SlotsStay DEF wvars
  <1>3. CASE UNCHANGED ringVars
    BY <1>0, <1>3, SlotsStay DEF ringVars, shared, wvars, history
  <1> QED BY <1>0, <1>1, <1>2, <1>3, StoreSlots, PublishSlots, ClaimSlots, StoreClaimedSlots,
          AdvanceSlots DEF RingNext, WriterStep

-----------------------------------------------------------------------------
(* The inductive invariant.                                                *)

\* The types are kept: the cursor does not pass the last position.
LEMMA RingTypes ==
  ASSUME RingAssumption, ~WeakCas, RingIInv, [RingNext]_ringVars
  PROVE  RingTypeOK'
  <1>1. ASSUME NEW w \in Writers, WriteCall(w) \/ WriterStep(w)
        PROVE  RingTypeOK'
    <2>0. Len(msgs) \in Nat /\ published \in Nat /\ published <= Len(msgs)
      BY ClaimedByWriters
    <2>1. CASE Claim(w) \/ Publish(w)
      <3>1. Len(msgs') = Len(msgs) + 1 /\ published' \in {published, published + 1}
        BY Zenon, <2>1, NextMessage DEF Claim, Publish
      <3>2. published' \in 0 .. Len(msgs')
        BY <2>0, <3>1
      <3> QED BY <1>1, <3>2, WriterTypes
    <2>2. CASE Advance(w)
      <3>1. msgs' = msgs /\ (published' = published \/ published' = published + 1)
        BY Zenon, <2>2 DEF Advance
      <3>2. published' = published + 1 => published + 1 <= Len(msgs)
        BY <2>0, <2>2, AdvancePosition DEF Advance, Holding
      <3>3. published' \in 0 .. Len(msgs')
        BY <2>0, <3>1, <3>2
      <3> QED BY <1>1, <3>3, WriterTypes
    <2>3. CASE UNCHANGED <<msgs, published>>
      <3>1. published' \in 0 .. Len(msgs')
        BY <2>0, <2>3
      <3> QED BY <1>1, <3>1, WriterTypes
    <2> QED BY <1>1, <2>1, <2>2, <2>3 DEF WriteCall, WriterStep, LockMutex, Store,
            UnlockMutex, StoreClaimed, Wake, history
  <1>2. CASE UNCHANGED ringVars
    BY Zenon, <1>2 DEF RingIInv, RingTypeOK, Streams, OneStream, ReadMode, ringVars,
       shared, wvars, rvars,
       history
  <1> QED BY <1>1, <1>2, ReaderTypes DEF RingNext

\* muggle_ring_buffer_init establishes the invariant.
LEMMA RingStarts ==
  ASSUME RingAssumption, RingInit
  PROVE  RingIInv
  <1>0. Len(msgs) = 0 /\ use \in Uses /\ use.calls \in Nat /\ use.lag \in Nat
    BY RingConsts DEF RingInit
  <1>1. RingTypeOK
    <2>1. msgs \in Seq(1 .. use.calls) /\ got \in [Streams -> Seq(0 .. use.calls)]
      BY DEF RingInit
    <2>2. ring_datas \in [0 .. RingCapacity - 1 -> 0 .. use.calls]
      BY <1>0 DEF RingInit, Garbage
    <2> QED BY <1>0, <2>1, <2>2, RingConsts DEF RingInit, RingTypeOK
  <1>2. WritersInv /\ MessagesInv
    BY <1>0 DEF RingInit, WritersInv, MessagesInv, Storing, Holding
  <1>a. 0 % CursorMod = 0
    BY RingConsts
  <1>3. PositionsInv /\ ReturnedIsPublished
    BY <1>0, <1>a DEF RingInit, PositionsInv, Holding, ReturnedIsPublished
  <1>4. ReadersInv
    <2>1. \A s \in Streams : Len(got[s]) = 0
      BY DEF RingInit
    <2> QED BY <1>0, <1>a, <2>1, Modes DEF RingInit, ReadersInv, Reading
  <1>5. SlotsInv
    BY <1>0 DEF RingInit, SlotsInv
  <1> QED BY <1>1, <1>2, <1>3, <1>4, <1>5 DEF RingIInv

\* Every step keeps the invariant.
LEMMA RingInv ==
  ASSUME RingAssumption, ~WeakCas, RingIInv, [RingNext]_ringVars
  PROVE  RingIInv'
  <1>1. (Fits => SlotsInv)'
    BY Zenon, RingSlots, UseStays
  <1> QED BY <1>1, RingTypes, RingWriters, RingMessages, RingPositions, RingReaders DEF RingIInv

\* The ring buffer's invariant is inductive.
THEOREM RingInductive ==
  ASSUME RingAssumption, ~WeakCas
  PROVE  RingSpec => []RingIInv
  BY RingStarts, RingInv, PTL DEF RingSpec

-----------------------------------------------------------------------------
(* What the slots hold.                                                    *)

\* A message found in the slot of a position that no claimed position reuses is the
\* message of that position.
LEMMA SameMessage ==
  ASSUME RingAssumption, RingIInv, NEW i \in 1 .. Len(msgs), NEW j \in i .. Len(msgs) + 1,
         NEW d, SameSlot(i, j), At(d, j), j < i + RingCapacity
  PROVE  d = msgs[i]
  <1>1. j = i
    <2> DEFINE a == i - 1
               b == j - 1
    <2>1. a \in Nat /\ b \in Nat /\ a <= b /\ b < a + RingCapacity
      <3>1. Len(msgs) \in Nat /\ RingCapacity \in Nat
        BY ClaimedByWriters, RingConsts
      <3> QED BY <3>1
    <2>2. a % RingCapacity = b % RingCapacity
      BY DEF SameSlot
    <2> HIDE DEF a, b
    <2>3. ~(a < b)
      BY <2>1, <2>2, RingConsts, ModApart
    <2>4. a = b
      BY <2>1, <2>3
    <2>5. i \in Int /\ j \in Int
      BY ClaimedByWriters
    <2> QED BY <2>4, <2>5 DEF a, b
  <1>2. i # Len(msgs) + 1
    BY ClaimedByWriters
  <1> QED BY <1>1, <1>2 DEF At

\* A message that has a position, or is about to get one, counts as claimed.
LEMMA AtIsClaimed ==
  ASSUME RingAssumption, RingIInv, NEW d, NEW j, At(d, j)
  PROVE  /\ j \in Nat /\ j <= Claimed /\ j <= ring_calls /\ Claimed \in Nat
  <1>0. Len(msgs) \in Nat /\ ring_calls \in Nat
    BY ClaimedByWriters DEF RingIInv, RingTypeOK
  <1>1. IsFiniteSet(InProgress) /\ Cardinality(InProgress) \in Nat
    BY Zenon, RingConsts, FS_Subset, FS_CardinalityType DEF InProgress
  <1>2. CASE j \in 1 .. Len(msgs)
    BY <1>0, <1>1, <1>2, ClaimedAreCalls DEF Claimed
  <1>3. ASSUME NEW w \in Writers, ring_pc[w] = "publish", j = Len(msgs) + 1
        PROVE  j \in Nat /\ j <= Claimed /\ j <= ring_calls /\ Claimed \in Nat
    <2>1. Cardinality(InProgress) # 0
      BY <1>1, <1>3, FS_EmptySet DEF InProgress
    <2> QED BY <1>0, <1>1, <1>3, <2>1, ClaimedAreCalls DEF Claimed
  <1> QED BY <1>2, <1>3 DEF At

\* The invariant says what the slots hold.
LEMMA SlotsFollow ==
  ASSUME RingAssumption, RingIInv, Fits
  PROVE  SlotsHold /\ LastIsKept
  <1>0. /\ Len(msgs) \in Nat /\ published \in Nat /\ published <= Len(msgs)
        /\ RingCapacity \in Nat \ {0} /\ SlotsInv
    BY ClaimedByWriters, RingConsts DEF RingIInv
  <1>1. ASSUME NEW i \in 1 .. published, i + RingCapacity > Claimed
        PROVE  ring_datas[(i - 1) % RingCapacity] = msgs[i]
    <2>1. PICK j \in i .. Len(msgs) + 1 : SameSlot(i, j) /\ At(ring_datas[(i - 1) % RingCapacity], j)
      BY Zenon, <1>0 DEF SlotsInv
    <2>2. j \in Nat /\ j <= Claimed /\ Claimed \in Nat
      BY <2>1, AtIsClaimed
    <2>3. j < i + RingCapacity /\ i \in 1 .. Len(msgs)
      BY <1>0, <1>1, <2>2
    <2> QED BY <2>1, <2>3, SameMessage
  <1>2. ASSUME \A w \in Writers : ring_pc[w] = "idle", published > 0
        PROVE  ring_datas[(published - 1) % RingCapacity] = msgs[published]
    <2>1. InProgress = {}
      BY <1>2 DEF InProgress
    <2>2. Len(msgs) = published
      <3>1. CASE published < Len(msgs)
        <4>1. published + 1 \in published + 1 .. Len(msgs)
          BY <1>0, <3>1
        <4> QED BY Zenon, <1>2, <4>1 DEF RingIInv, PositionsInv, Holding
      <3> QED BY <1>0, <3>1
    <2>3. Claimed = published
      BY <1>0, <2>1, <2>2, FS_EmptySet DEF Claimed
    <2>4. published \in 1 .. published /\ published + RingCapacity > Claimed
      BY <1>0, <1>2, <2>3
    <2> QED BY <1>1, <2>4
  <1> QED BY <1>1, <1>2 DEF SlotsHold, LastIsKept

\* muggle_ring_buffer_write publishes a message only when it is in its slot, and the
\* newest message stays in the ring, whatever the interleaving of the writers.
THEOREM RingKeeps ==
  ASSUME RingAssumption, ~WeakCas
  PROVE  RingSpec => []RingHolds
  <1>1. RingIInv => RingHolds
    BY SlotsFollow DEF RingHolds
  <1> QED BY <1>1, RingInductive, PTL

-----------------------------------------------------------------------------
(* What the reads return.                                                  *)

\* A message keeps its position, and one that is about to be published gets the one
\* it was stored for.
LEMMA AtStays ==
  ASSUME RingAssumption, RingIInv, [RingNext]_ringVars, NEW d, NEW j, At(d, j)
  PROVE  At(d, j)'
  <1>0. ring_pc \in [Writers -> Points] /\ Len(msgs) \in Nat
    BY DEF RingIInv, RingTypeOK, Points
  <1>1. ASSUME NEW w \in Writers, Claim(w)
        PROVE  At(d, j)'
    <2>1. \A v \in Writers : ring_pc[v] # "publish"
      BY <1>1 DEF Claim, RingIInv, WritersInv, Storing
    <2>2. j \in 1 .. Len(msgs) /\ msgs[j] = d
      BY <2>1 DEF At
    <2>3. msgs'[j] = d /\ Len(msgs') = Len(msgs) + 1
      BY <1>1, <2>2, NextMessage
    <2> QED BY <1>0, <2>2, <2>3 DEF At
  <1>2. ASSUME NEW w \in Writers, Publish(w)
        PROVE  At(d, j)'
    <2>1. /\ Len(msgs') = Len(msgs) + 1 /\ msgs'[Len(msgs) + 1] = ring_data[w]
          /\ \A i \in 1 .. Len(msgs) : msgs'[i] = msgs[i]
      BY <1>2, NextMessage
    <2>2. \A v \in Writers : ring_pc[v] = "publish" => v = w
      BY <1>2, StoringAlone DEF Publish, Storing, RingIInv
    <2>3. CASE j \in 1 .. Len(msgs) /\ msgs[j] = d
      <3>1. j \in 1 .. Len(msgs') /\ msgs'[j] = d
        BY <1>0, <2>1, <2>3
      <3> QED BY <3>1 DEF At
    <2>4. CASE j = Len(msgs) + 1 /\ d = ring_data[w]
      <3>1. j \in 1 .. Len(msgs') /\ msgs'[j] = d
        BY <1>0, <2>1, <2>4
      <3> QED BY <3>1 DEF At
    <2> QED BY <2>2, <2>3, <2>4 DEF At
  <1>3. ASSUME NEW w \in Writers,
               \/ WriteCall(w) \/ LockMutex(w) \/ Store(w) \/ UnlockMutex(w)
               \/ StoreClaimed(w) \/ Advance(w) \/ Wake(w)
        PROVE  At(d, j)'
    <2>1. msgs' = msgs
      BY <1>3 DEF WriteCall, LockMutex, Store, UnlockMutex, StoreClaimed, Advance, Wake,
         history
    <2>2. \A v \in Writers : ring_pc[v] = "publish" => ring_pc'[v] = "publish"
      BY <1>0, <1>3 DEF WriteCall, LockMutex, Store, UnlockMutex, StoreClaimed, Advance,
         Wake, RingGoto
    <2>3. \A v \in Writers : ring_pc[v] = "publish" => ring_data'[v] = ring_data[v]
      <3>1. ring_data \in [Writers -> 0 .. use.calls]
        BY DEF RingIInv, RingTypeOK
      <3> QED BY <1>3, <3>1 DEF WriteCall, LockMutex, Store, UnlockMutex, StoreClaimed,
              Advance, Wake
    <2> QED BY Zenon, <2>1, <2>2, <2>3 DEF At
  <1>4. ASSUME NEW r \in Readers, ReaderStep(r) \/ Interrupted(r)
        PROVE  At(d, j)'
    BY <1>4, ReaderFrame DEF At, wvars
  <1>5. CASE UNCHANGED ringVars
    BY <1>5 DEF At, ringVars, wvars, history
  <1> QED BY <1>1, <1>2, <1>3, <1>4, <1>5 DEF RingNext, WriterStep

\* Messages and their publication stay.
LEMMA HistoryStays ==
  ASSUME RingAssumption, ~WeakCas, RingIInv, [RingNext]_ringVars
  PROVE  /\ Len(msgs) \in Nat /\ Len(msgs') \in Nat /\ Len(msgs') >= Len(msgs)
         /\ published \in Nat /\ published <= Len(msgs)
         /\ published' \in Nat /\ published' >= published
         /\ \A i \in 1 .. Len(msgs) : msgs'[i] = msgs[i]
  <1>0. Len(msgs) \in Nat /\ published \in Nat /\ published <= Len(msgs)
    BY ClaimedByWriters
  <1>1. ASSUME NEW w \in Writers, Claim(w) \/ Publish(w)
        PROVE  /\ Len(msgs') \in Nat /\ Len(msgs') >= Len(msgs)
               /\ \A i \in 1 .. Len(msgs) : msgs'[i] = msgs[i]
    BY <1>0, <1>1, NextMessage
  <1>2. ASSUME NEW w \in Writers, WriteCall(w) \/ WriterStep(w)
        PROVE  \/ msgs' = msgs \/ Claim(w) \/ Publish(w)
    BY <1>2 DEF WriteCall, WriterStep, LockMutex, Store, UnlockMutex, StoreClaimed, Advance,
       Wake, history
  <1>3. ASSUME NEW r \in Readers, ReaderStep(r) \/ Interrupted(r)
        PROVE  UNCHANGED <<msgs, published>>
    BY <1>3, ReaderFrame
  <1>4. CASE UNCHANGED ringVars
    BY <1>0, <1>4 DEF ringVars, history
  <1>5. ASSUME NEW w \in Writers, WriteCall(w) \/ WriterStep(w)
        PROVE  published' \in Nat /\ published' >= published
    BY <1>5, WriterForReaders
  <1>6. ASSUME NEW w \in Writers, WriteCall(w) \/ WriterStep(w)
        PROVE  /\ Len(msgs') \in Nat /\ Len(msgs') >= Len(msgs)
               /\ \A i \in 1 .. Len(msgs) : msgs'[i] = msgs[i]
    <2>1. CASE msgs' = msgs
      BY <1>0, <2>1
    <2> QED BY <1>1, <1>2, <1>6, <2>1
  <1>7. CASE \E w \in Writers : WriteCall(w) \/ WriterStep(w)
    BY <1>0, <1>5, <1>6, <1>7
  <1>8. CASE \E r \in Readers : ReaderStep(r) \/ Interrupted(r)
    BY <1>0, <1>3, <1>8
  <1> QED BY <1>4, <1>7, <1>8 DEF RingNext

\* What a reader takes is the message of the position it asked for or a later one of
\* the same slot; the former when the writers are within the capacity.
LEMMA TakeReads ==
  ASSUME RingAssumption, RingIInv, NEW r \in Readers, rpc[r] = "take"
  PROVE  LET n == Len(got[Stream(r)])
             d == ring_datas[r_pos[r]] IN
         /\ n + 1 <= published
         /\ Fits => \E j \in n + 1 .. Len(msgs) + 1 : SameSlot(n + 1, j) /\ At(d, j)
         /\ use.lag <= RingCapacity => d = msgs[n + 1]
  <1> DEFINE n == Len(got[Stream(r)])
             d == ring_datas[r_pos[r]]
  <1>1. /\ n \in Nat /\ n + 1 \in 1 .. published /\ r_pos[r] = n % RingCapacity
        /\ (n + 1) - 1 = n
    <2>1. Stream(r) \in Streams /\ got \in [Streams -> Seq(0 .. use.calls)]
      BY StreamFacts
    <2>2. n < published /\ r_pos[r] = n % RingCapacity
      BY DEF RingIInv, ReadersInv, Reading
    <2> QED BY <2>1, <2>2, ClaimedByWriters
  <1>2. /\ ring_calls - n <= use.lag /\ ring_calls \in Nat /\ use.lag \in Nat /\ Stream(r) \in Streams
        /\ RingCapacity \in Nat /\ Len(msgs) \in Nat /\ published \in Nat /\ published <= Len(msgs)
    <2>1. Stream(r) \in Streams /\ ring_calls \in Nat /\ use.lag \in Nat
      <3>1. Stream(r) \in Streams
        BY StreamFacts
      <3>2. use \in Uses /\ ring_calls \in 0 .. use.calls
        BY DEF RingIInv, RingTypeOK
      <3> QED BY <3>1, <3>2, RingConsts
    <2>2. ring_calls - n <= use.lag
      BY <2>1 DEF RingIInv, ReadersInv
    <2> QED BY <2>1, <2>2, RingConsts, ClaimedByWriters
  <1>3. Fits => \E j \in n + 1 .. Len(msgs) + 1 : SameSlot(n + 1, j) /\ At(d, j)
    <2>1. d = ring_datas[((n + 1) - 1) % RingCapacity]
      BY <1>1
    <2> HIDE DEF n, d
    <2> QED BY <1>1, <2>1 DEF RingIInv, SlotsInv
  <1>4. ASSUME use.lag <= RingCapacity
        PROVE  d = msgs[n + 1]
    <2>1. Fits
      BY <1>2, <1>4 DEF Fits
    <2>2. PICK j \in n + 1 .. Len(msgs) + 1 : SameSlot(n + 1, j) /\ At(d, j)
      BY <1>3, <2>1
    <2>3. j \in Nat /\ j <= ring_calls
      BY <2>2, AtIsClaimed
    <2> HIDE DEF n, d
    <2>4. j < (n + 1) + RingCapacity /\ n + 1 \in 1 .. Len(msgs)
      BY <1>1, <1>2, <1>4, <2>3
    <2> QED BY <2>2, <2>4, SameMessage
  <1> HIDE DEF d
  <1>5. n + 1 <= published
    BY <1>1
  <1> QED BY <1>3, <1>4, <1>5 DEF d

\* A step appends at most one element to a stream: what a reader takes.
LEMMA GotGrows ==
  ASSUME RingAssumption, RingIInv, [RingNext]_ringVars, NEW s \in Streams,
         NEW i \in 1 .. Len(got'[s])
  PROVE  \/ i \in 1 .. Len(got[s]) /\ got'[s][i] = got[s][i]
         \/ \E r \in Readers : /\ rpc[r] = "take" /\ s = Stream(r) /\ i = Len(got[s]) + 1
                               /\ got'[s][i] = ring_datas[r_pos[r]]
  <1>0. got \in [Streams -> Seq(0 .. use.calls)] /\ got[s] \in Seq(0 .. use.calls)
    BY DEF RingIInv, RingTypeOK
  <1>1. ASSUME NEW r \in Readers, Take(r)
        PROVE  \/ i \in 1 .. Len(got[s]) /\ got'[s][i] = got[s][i]
               \/ /\ rpc[r] = "take" /\ s = Stream(r) /\ i = Len(got[s]) + 1
                  /\ got'[s][i] = ring_datas[r_pos[r]]
    <2> DEFINE d == ring_datas[r_pos[r]]
    <2>1. rpc[r] = "take" /\ got' = [got EXCEPT ![Stream(r)] = Append(got[Stream(r)], d)]
      BY <1>1 DEF Take
    <2>2. d \in 0 .. use.calls
      BY DEF RingIInv, RingTypeOK
    <2> HIDE DEF d
    <2>3. CASE s = Stream(r)
      <3>1. got'[s] = Append(got[s], d)
        BY <1>0, <2>1, <2>3
      <3>2. /\ Len(got'[s]) = Len(got[s]) + 1 /\ Len(got[s]) \in Nat
            /\ \A k \in 1 .. Len(got[s]) : got'[s][k] = got[s][k]
            /\ got'[s][Len(got[s]) + 1] = d
        BY <1>0, <2>2, <3>1
      <3> DEFINE n == Len(got[s])
      <3>3. i \in 1 .. n + 1 /\ n \in Nat
        BY <3>2
      <3>4. /\ \A k \in 1 .. n : got'[s][k] = got[s][k]
            /\ got'[s][n + 1] = d
        BY <3>2
      <3> HIDE DEF n
      <3>5. i \in 1 .. n \/ i = n + 1
        BY <3>3
      <3> QED BY Zenon, <2>1, <2>3, <3>4, <3>5 DEF d, n
    <2>4. CASE s # Stream(r)
      <3>1. got'[s] = got[s]
        BY <1>0, <2>1, <2>4
      <3> QED BY <3>1
    <2> QED BY Zenon, <2>3, <2>4
  <1>2. ASSUME NEW r \in Readers, ReaderStep(r) \/ Interrupted(r), ~Take(r)
        PROVE  got' = got
    BY Zenon, <1>2
    DEF ReaderStep, ReadCall, ReadLock, ReadLoad, ReadWait, ReadUnlock, Interrupted,
       history
  <1>3. CASE got' = got
    BY <1>3
  <1>4. ASSUME NEW w \in Writers, WriteCall(w) \/ WriterStep(w)
        PROVE  got' = got
    BY <1>4, WriterFrame
  <1> QED BY Zenon, <1>1, <1>2, <1>3, <1>4 DEF RingNext, Take, ringVars, history

\* Every step keeps what has been read in order.
LEMMA ReadsStay ==
  ASSUME RingAssumption, ~WeakCas, RingIInv, ReadsInOrder, [RingNext]_ringVars
  PROVE  ReadsInOrder'
  <1>0. use' = use /\ Streams' = Streams /\ Fits' = Fits
    BY UseStays
  <1>1. ASSUME use.lag <= RingCapacity, NEW s \in Streams, NEW i \in 1 .. Len(got'[s])
        PROVE  i <= published' /\ got'[s][i] = msgs'[i]
    <2>0. i \in Nat /\ i >= 1
      OBVIOUS
    <2>1. i <= published /\ got'[s][i] = msgs[i]
      <3>1. CASE i \in 1 .. Len(got[s]) /\ got'[s][i] = got[s][i]
        BY Zenon, <1>1, <3>1 DEF ReadsInOrder, InOrder
      <3>2. ASSUME NEW r \in Readers, rpc[r] = "take", s = Stream(r), i = Len(got[s]) + 1,
                   got'[s][i] = ring_datas[r_pos[r]]
            PROVE  i <= published /\ got'[s][i] = msgs[i]
        BY Zenon, <1>1, <3>2, TakeReads
      <3> QED BY Zenon, <3>1, <3>2, GotGrows
    <2>2. i \in 1 .. Len(msgs) /\ i <= published'
      BY <2>0, <2>1, HistoryStays
    <2> QED BY <2>1, <2>2, HistoryStays
  <1>2. ASSUME Fits, NEW s \in Streams, NEW i \in 1 .. Len(got'[s])
        PROVE  \E j \in i .. Len(msgs') + 1 : SameSlot(i, j) /\ At(got[s][i], j)'
    <2>1. PICK j \in i .. Len(msgs) + 1 : SameSlot(i, j) /\ At(got'[s][i], j)
      <3>1. CASE i \in 1 .. Len(got[s]) /\ got'[s][i] = got[s][i]
        BY <1>2, <3>1 DEF ReadsInOrder, ReadsAreWritten
      <3>2. ASSUME NEW r \in Readers, rpc[r] = "take", s = Stream(r), i = Len(got[s]) + 1,
                   got'[s][i] = ring_datas[r_pos[r]]
            PROVE  \E j \in i .. Len(msgs) + 1 : SameSlot(i, j) /\ At(got'[s][i], j)
        BY Zenon, <1>2, <3>2, TakeReads
      <3> QED BY <3>1, <3>2, GotGrows
    <2>2. At(got[s][i], j)'
      BY Zenon, <2>1, AtStays
    <2>3. j \in i .. Len(msgs') + 1
      BY <2>1, HistoryStays
    <2> QED BY <2>1, <2>2, <2>3
  <1>3. InOrder'
    BY <1>0, <1>1 DEF InOrder
  <1>4. (Fits => ReadsAreWritten)'
    BY Zenon, <1>0, <1>2 DEF ReadsAreWritten, SameSlot
  <1> QED BY <1>3, <1>4 DEF ReadsInOrder

\* With the writers within the capacity every stream of muggle_ring_buffer_read
\* returns the messages in their order; with any lag a read returns the message of
\* its position or one that overwrote it.
THEOREM RingReadsInOrder ==
  ASSUME RingAssumption, ~WeakCas
  PROVE  RingSpec => []ReadsInOrder
  <1>1. RingInit => ReadsInOrder
    <2>1. RingInit => \A s \in Streams : Len(got[s]) = 0
      BY DEF RingInit
    <2> QED BY <2>1 DEF ReadsInOrder, InOrder, ReadsAreWritten
  <1> QED BY <1>1, ReadsStay, RingInductive, PTL DEF RingSpec
=============================================================================
