---------------------------- MODULE ChannelOrder -----------------------------
(***************************************************************************)
(* The channel with futexes (muggle/c/sync/channel.c) on a processor that  *)
(* makes stores visible some time after they are executed: each thread has *)
(* the stores it has executed and nobody else sees yet.  A "strong"        *)
(* machine (x86) makes them visible in their order; on a "weak" one only a *)
(* store with release order waits for those before it, and stores to one   *)
(* word keep their order.  The value of the n-th write is n.               *)
(***************************************************************************)
EXTENDS Integers, Sequences, FiniteSets, SequencesExt

CONSTANTS
  Writers, Reader,
  Capacity, CursorMod,   \* as in Channel
  Machines,              \* a subset of {"strong", "weak"}
  MaxCalls               \* bound on the calls of muggle_channel_write

VARIABLES
  machine,
  mem,                   \* the words as other threads see them
  pending,               \* the stores of each thread that are not visible
  pc, data, cur,         \* of each writer
  rpc, r_pos, r_data,    \* of the reader
  calls,
  sent, got              \* history: values whose write succeeded, in order; values read

locals == <<pc, data, cur, rpc, r_pos, r_data>>
vars == <<machine, mem, pending, locals, calls, sent, got>>

Threads == Writers \cup {Reader}
Block(n) == <<"block", n % Capacity>>
Blocks == {Block(n) : n \in 0 .. Capacity - 1}
WriteCursor == <<"write_cursor">>
ReadCursor == <<"read_cursor">>
WriteFutex == <<"write_futex">>
Words == Blocks \cup {WriteCursor, ReadCursor, WriteFutex}
UNLOCK == 0
LOCK == 1

Inc(c) == (c + 1) % CursorMod
Goto(w, l) == pc' = [pc EXCEPT ![w] = l]

\* What thread t loads: its own last store, or what is visible.
Load(t, x) ==
  LET own == SelectSeq(pending[t], LAMBDA s : s.word = x)
  IN  IF own = <<>> THEN mem[x] ELSE Last(own).value

Store(t, x, v, order) ==
  pending' = [pending EXCEPT ![t] = Append(@, [word |-> x, value |-> v, order |-> order])]

\* All that t has stored is visible.
Fence(t) == pending[t] = <<>>

\* One of the stores of t becomes visible.
Drain(t) ==
  \E i \in 1 .. Len(pending[t]) :
    LET s == pending[t][i]
    IN  /\ \A j \in 1 .. i - 1 :
             /\ machine = "weak" /\ s.order # "release"
             /\ pending[t][j].word # s.word
        /\ mem' = [mem EXCEPT ![s.word] = s.value]
        /\ pending' = [pending EXCEPT ![t] = RemoveAt(@, i)]
        /\ UNCHANGED <<machine, locals, calls, sent, got>>

Init ==
  /\ machine \in Machines
  /\ mem = [x \in Words |-> IF x = ReadCursor THEN Capacity - 1 ELSE 0]
  /\ pending = [t \in Threads |-> <<>>]
  /\ pc = [w \in Writers |-> "idle"]
  /\ data = [w \in Writers |-> 0] /\ cur = [w \in Writers |-> 0]
  /\ rpc = "idle" /\ r_pos = 0 /\ r_data = 0
  /\ calls = 0 /\ sent = <<>> /\ got = <<>>

-----------------------------------------------------------------------------
Call(w) ==
  /\ pc[w] = "idle" /\ calls < MaxCalls
  /\ calls' = calls + 1
  /\ data' = [data EXCEPT ![w] = calls + 1]
  /\ Goto(w, "lock")
  /\ UNCHANGED <<machine, mem, pending, cur, rpc, r_pos, r_data, sent, got>>

\* Mutant: several writers also where stores are not ordered.
WriteCallAny(w) == Call(w)

\* muggle_channel_write.  On the weak machine the writers take turns, as the user of a
\* channel with one writer guarantees; a thread is handed over with all its stores.
WriteCall(w) ==
  /\ machine = "weak" => \A v \in Writers \ {w} : pc[v] = "idle" /\ Fence(v)
  /\ Call(w)

\* The compare-and-swap of muggle_channel_lock_write acts on the visible word, after
\* the thread's own earlier stores.
LockCas(w) ==
  /\ pc[w] = "lock" /\ Fence(w)
  /\ \/ /\ mem[WriteFutex] = UNLOCK
        /\ mem' = [mem EXCEPT ![WriteFutex] = LOCK]
        /\ Goto(w, "check")
     \/ mem[WriteFutex] = LOCK /\ Goto(w, "lock_wait") /\ UNCHANGED mem
  /\ UNCHANGED <<machine, pending, data, cur, rpc, r_pos, r_data, calls, sent, got>>

\* muggle_futex_wait
LockWait(w) ==
  /\ pc[w] = "lock_wait"
  /\ Goto(w, IF mem[WriteFutex] = LOCK THEN "asleep" ELSE "lock")
  /\ UNCHANGED <<machine, mem, pending, data, cur, rpc, r_pos, r_data, calls, sent, got>>

CheckFull(w) ==
  /\ pc[w] = "check"
  /\ cur' = [cur EXCEPT ![w] = Load(w, WriteCursor)]
  /\ Goto(w, IF Inc(cur'[w]) = Load(w, ReadCursor) THEN "unlock_full" ELSE "store")
  /\ UNCHANGED <<machine, mem, pending, data, rpc, r_pos, r_data, calls, sent, got>>

\* Mutant: the cursor is stored before the data.
StoreDataLast(w) ==
  /\ pc[w] = "store"
  /\ Store(w, WriteCursor, Inc(cur[w]), "release")
  /\ Goto(w, "publish")
  /\ UNCHANGED <<machine, mem, data, cur, rpc, r_pos, r_data, calls, sent, got>>

StoreData(w) ==
  /\ pc[w] = "store"
  /\ Store(w, Block(cur[w]), data[w], "plain")
  /\ Goto(w, "publish")
  /\ UNCHANGED <<machine, mem, data, cur, rpc, r_pos, r_data, calls, sent, got>>

Publish(w) ==
  /\ pc[w] = "publish"
  /\ Store(w, WriteCursor, Inc(cur[w]), "release")
  /\ sent' = Append(sent, data[w])
  /\ Goto(w, "unlock")
  /\ UNCHANGED <<machine, mem, data, cur, rpc, r_pos, r_data, calls, got>>

\* muggle_channel_unlock_write stores UNLOCK with relaxed order,
UnlockStore(w) ==
  /\ pc[w] \in {"unlock", "unlock_full"}
  /\ Store(w, WriteFutex, UNLOCK, "relaxed")
  /\ Goto(w, IF pc[w] = "unlock" THEN "unlock_wake" ELSE "full_wake")
  /\ UNCHANGED <<machine, mem, data, cur, rpc, r_pos, r_data, calls, sent, got>>

\* Mutant: the sleepers are looked for while the store is not visible.
UnlockWakeEarly(w) ==
  /\ pc[w] \in {"unlock_wake", "full_wake"}
  /\ LET next == IF pc[w] = "unlock_wake" THEN "wake" ELSE "idle"
         asleep == {v \in Writers : pc[v] = "asleep"}
     IN  IF asleep = {} THEN Goto(w, next)
         ELSE \E v \in asleep : pc' = [pc EXCEPT ![w] = next, ![v] = "lock"]
  /\ UNCHANGED <<machine, mem, pending, data, cur, rpc, r_pos, r_data, calls, sent, got>>

\* and wakes one writer: in the kernel the caller's stores are visible before it looks
\* for a sleeper.
UnlockWake(w) ==
  /\ pc[w] \in {"unlock_wake", "full_wake"} /\ Fence(w)
  /\ LET next == IF pc[w] = "unlock_wake" THEN "wake" ELSE "idle"
         asleep == {v \in Writers : pc[v] = "asleep"}
     IN  IF asleep = {} THEN Goto(w, next)
         ELSE \E v \in asleep : pc' = [pc EXCEPT ![w] = next, ![v] = "lock"]
  /\ UNCHANGED <<machine, mem, pending, data, cur, rpc, r_pos, r_data, calls, sent, got>>

Wake(w) ==
  /\ pc[w] = "wake" /\ Fence(w)
  /\ rpc' = IF rpc = "asleep" THEN "load" ELSE rpc
  /\ Goto(w, "idle")
  /\ UNCHANGED <<machine, mem, pending, data, cur, r_pos, r_data, calls, sent, got>>

-----------------------------------------------------------------------------
ReadCall ==
  /\ rpc = "idle"
  /\ r_pos' = (Load(Reader, ReadCursor) + 1) % Capacity
  /\ rpc' = "load"
  /\ UNCHANGED <<machine, mem, pending, pc, data, cur, r_data, calls, sent, got>>

\* The loop of muggle_channel_read_futex: the load of the cursor, and the wait for it
\* to change.
ReadLoad ==
  /\ rpc = "load"
  /\ IF Load(Reader, WriteCursor) % Capacity # r_pos
     THEN rpc' = "take" /\ UNCHANGED r_data
     ELSE rpc' = "wait" /\ r_data' = Load(Reader, WriteCursor)
  /\ UNCHANGED <<machine, mem, pending, pc, data, cur, r_pos, calls, sent, got>>
ReadWait ==
  /\ rpc = "wait"
  /\ rpc' = IF mem[WriteCursor] = r_data THEN "asleep" ELSE "load"
  /\ UNCHANGED <<machine, mem, pending, pc, data, cur, r_pos, r_data, calls, sent, got>>

ReadData ==
  /\ rpc = "take"
  /\ r_data' = Load(Reader, Block(r_pos))
  /\ rpc' = "advance"
  /\ UNCHANGED <<machine, mem, pending, pc, data, cur, r_pos, calls, sent, got>>

\* read_cursor++ is a plain store.
ReadAdvance ==
  /\ rpc = "advance"
  /\ Store(Reader, ReadCursor, Inc(Load(Reader, ReadCursor)), "plain")
  /\ got' = Append(got, r_data)
  /\ rpc' = "idle"
  /\ UNCHANGED <<machine, mem, pc, data, cur, r_pos, r_data, calls, sent>>

WriterStep(w) ==
  \/ WriteCall(w) \/ LockCas(w) \/ LockWait(w) \/ CheckFull(w) \/ StoreData(w)
  \/ Publish(w) \/ UnlockStore(w) \/ UnlockWake(w) \/ Wake(w)
ReaderStep == ReadCall \/ ReadLoad \/ ReadWait \/ ReadData \/ ReadAdvance

Next == (\E w \in Writers : WriterStep(w)) \/ ReaderStep \/ (\E t \in Threads : Drain(t))

Spec == Init /\ [][Next]_vars

-----------------------------------------------------------------------------
\* The reader gets what the writers sent, in that order, although the store that gives
\* up the lock in muggle_channel_unlock_write has no release order: for any writers on a
\* machine that keeps stores in order, and for one at a time on a weak machine, where
\* the release of write_cursor is enough.
ReadsWhatWasStored == IsPrefix(got, sent)

\* A writer sleeps on the lock only while another is on its way to wake it, and the
\* reader only while there is nothing to read or a writer is about to wake it: no store
\* that is still on its way makes a wake-up come too early.
SleepersAreWoken ==
  /\ (\E w \in Writers : pc[w] = "asleep") =>
       \E w \in Writers : pc[w] \notin {"idle", "asleep", "wake"}
  /\ rpc = "asleep" /\ mem[WriteCursor] # r_data =>
       \E w \in Writers : pc[w] \in {"publish", "unlock", "unlock_wake", "wake"}
=============================================================================
