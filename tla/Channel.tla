------------------------------ MODULE Channel ------------------------------
(***************************************************************************)
(* muggle_channel_t (muggle/c/sync/channel.c): a bounded ring through      *)
(* which any number of writers pass pointers to one reader.                *)
(*                                                                         *)
(* Every access to a shared word is a step of its own, so that all the     *)
(* interleavings of the writers and the reader are explored.  The n-th     *)
(* call of muggle_channel_write passes the value n: the channel never      *)
(* looks at the data, and distinct values tell lost, duplicated and        *)
(* reordered messages apart.                                               *)
(***************************************************************************)
EXTENDS Integers, Sequences

CONSTANTS
  Writers,     \* the threads that call muggle_channel_write
  Capacity,    \* chan->capacity, after next_pow_of_2 in muggle_channel_init
  CursorMod,   \* number of values of a cursor: 2^32 in the code
  Flags,       \* the values of 'flags' given to muggle_channel_init, each a
               \* set of MUGGLE_CHANNEL_FLAG_* names
  WeakCas,     \* may the weak compare-and-swap fail spuriously (LL/SC)?
  MaxCalls     \* bound on the calls of muggle_channel_write

ASSUME CapacityAssumption ==
  /\ Capacity \in Nat \ {0}
  /\ CursorMod \in Nat \ {0}
  /\ CursorMod % Capacity = 0
  /\ CursorMod > Capacity

ASSUME CallsAssumption == WeakCas \in BOOLEAN /\ MaxCalls \in Nat

VARIABLES
  fn_write, fn_read,  \* the functions muggle_channel_init installs
  write_cursor, read_cursor, blocks,
  write_mutex,  \* {} or the set holding the one owner of the pthread mutex
  write_futex,  \* MUGGLE_CHANNEL_LOCK_STATUS_UNLOCK / _LOCK
  pc, data, cur, ret,              \* writers: control, argument, cursor, result
  rpc, r_pos, w_cursor, r_data,    \* reader: control and locals
  calls,        \* number of calls of muggle_channel_write so far
  sent, got     \* history: values accepted, values returned to the reader

fns == <<fn_write, fn_read>>
wvars == <<pc, data, cur, ret>>
rvars == <<rpc, r_pos, w_cursor, r_data>>
shared == <<fn_write, fn_read, write_cursor, read_cursor, blocks, write_mutex,
            write_futex>>
vars == <<shared, wvars, rvars, calls, sent, got>>

UNLOCK == 0
LOCK == 1
OK == "OK"
FULL == "FULL"

\* IDX_IN_POW_OF_2_RING: masking by capacity - 1.
Idx(c) == c % Capacity

\* cursor + 1 on a 32-bit word.
Inc(c) == (c + 1) % CursorMod

Goto(w, l) == pc' = [pc EXCEPT ![w] = l]

-----------------------------------------------------------------------------
\* muggle_channel_init; fn_wake goes with fn_read.
Init ==
  /\ \E flags \in Flags :
       /\ fn_write = IF "SINGLE_WRITER" \in flags THEN "single_writer"
                     ELSE IF "WRITE_FUTEX" \in flags THEN "futex" ELSE "mutex"
       /\ fn_read = IF "READ_BUSY_LOOP" \in flags THEN "busy_loop" ELSE "futex"
  /\ write_cursor = 0
  /\ read_cursor = Capacity - 1
  /\ blocks = [i \in 0 .. Capacity - 1 |-> 0]
  /\ write_mutex = {}
  /\ write_futex = UNLOCK
  /\ pc = [w \in Writers |-> "idle"]
  /\ data = [w \in Writers |-> 0]
  /\ cur = [w \in Writers |-> 0]
  /\ ret = [w \in Writers |-> OK]
  /\ rpc = "idle"
  /\ r_pos = 0
  /\ w_cursor = 0
  /\ r_data = 0
  /\ calls = 0
  /\ sent = <<>>
  /\ got = <<>>

-----------------------------------------------------------------------------
(* The writers.                                                            *)

\* muggle_channel_write is entered and dispatches to fn_write.  With
\* MUGGLE_CHANNEL_FLAG_SINGLE_WRITER the "user guarantee only one writer".
WriteCall(w) ==
  /\ pc[w] = "idle"
  /\ fn_write = "single_writer" => \A v \in Writers : pc[v] = "idle"
  /\ calls < MaxCalls
  /\ calls' = calls + 1
  /\ data' = [data EXCEPT ![w] = calls + 1]
  /\ Goto(w, IF fn_write = "single_writer" THEN "check" ELSE "lock")
  /\ UNCHANGED <<shared, cur, ret, rvars, sent, got>>

\* muggle_mutex_lock(&chan->write_mutex)
LockMutex(w) ==
  /\ pc[w] = "lock"
  /\ fn_write = "mutex"
  /\ write_mutex = {}
  /\ write_mutex' = {w}
  /\ Goto(w, "check")
  /\ UNCHANGED <<fns, write_cursor, read_cursor, blocks, write_futex, data,
                 cur, ret, rvars, calls, sent, got>>

\* The compare-and-swap of muggle_channel_lock_write.  On failure 'expected'
\* receives the value of the word; a spurious failure of the weak form leaves
\* it at UNLOCK, and the loop condition then ends the loop.
LockCas(w) ==
  /\ pc[w] = "lock"
  /\ fn_write = "futex"
  /\ \/ /\ write_futex = UNLOCK
        /\ write_futex' = LOCK
        /\ Goto(w, "check")
     \/ /\ write_futex = UNLOCK
        /\ WeakCas
        /\ Goto(w, "check")
        /\ UNCHANGED write_futex
     \/ /\ write_futex = LOCK
        /\ Goto(w, "lock_wait")
        /\ UNCHANGED write_futex
  /\ UNCHANGED <<fns, write_cursor, read_cursor, blocks, write_mutex, data,
                 cur, ret, rvars, calls, sent, got>>

\* Mutant: a writer whose wait returns takes the lock for granted.
LockWaitGranted(w) ==
  /\ pc[w] = "lock_wait"
  /\ Goto(w, IF write_futex = LOCK THEN "asleep" ELSE "check")
  /\ UNCHANGED <<shared, data, cur, ret, rvars, calls, sent, got>>

\* muggle_futex_wait(&chan->write_futex, LOCK): the kernel compares and sleeps
\* in one step, and returns at once when the word has changed.
LockWait(w) ==
  /\ pc[w] = "lock_wait"
  /\ Goto(w, IF write_futex = LOCK THEN "asleep" ELSE "lock")
  /\ UNCHANGED <<shared, data, cur, ret, rvars, calls, sent, got>>

\* The full test on the cursor value 'next'.
TestFull(w, next) ==
  /\ pc[w] = "check"
  /\ cur' = [cur EXCEPT ![w] = write_cursor]
  /\ \/ /\ next # read_cursor
        /\ ret' = [ret EXCEPT ![w] = OK]
        /\ Goto(w, "store")
     \/ /\ next = read_cursor
        /\ ret' = [ret EXCEPT ![w] = FULL]
        /\ Goto(w, IF fn_write = "single_writer" THEN "idle" ELSE "unlock")
  /\ UNCHANGED <<shared, data, rvars, calls, sent, got>>

\* Mutants: no full test, the test one slot too early.
CheckFullDropped(w) == TestFull(w, CursorMod)
CheckFullEarly(w) == TestFull(w, Inc(Inc(write_cursor)))

\* if (write_cursor + 1 == read_cursor) return MUGGLE_ERR_FULL
CheckFull(w) == TestFull(w, Inc(write_cursor))

\* blocks[IDX(write_cursor)].data = data
StoreData(w) ==
  /\ pc[w] = "store"
  /\ blocks' = [blocks EXCEPT ![Idx(cur[w])] = data[w]]
  /\ Goto(w, "publish")
  /\ UNCHANGED <<fns, write_cursor, read_cursor, write_mutex, write_futex,
                 data, cur, ret, rvars, calls, sent, got>>

\* muggle_atomic_store(&write_cursor, write_cursor + 1, release)
Publish(w) ==
  /\ pc[w] = "publish"
  /\ write_cursor' = Inc(cur[w])
  /\ sent' = Append(sent, data[w])
  /\ Goto(w, IF fn_write = "single_writer" THEN "wake" ELSE "unlock")
  /\ UNCHANGED <<fns, read_cursor, blocks, write_mutex, write_futex, data, cur,
                 ret, rvars, calls, got>>

\* Where a writer goes once it has released the lock: muggle_channel_write
\* calls fn_wake only when fn_write returned 0.
AfterUnlock(w) == IF ret[w] = OK THEN "wake" ELSE "idle"

\* muggle_mutex_unlock(&chan->write_mutex)
UnlockMutex(w) ==
  /\ pc[w] = "unlock"
  /\ fn_write = "mutex"
  /\ write_mutex' = {}
  /\ Goto(w, AfterUnlock(w))
  /\ UNCHANGED <<fns, write_cursor, read_cursor, blocks, write_futex, data,
                 cur, ret, rvars, calls, sent, got>>

\* The store of muggle_channel_unlock_write ...
UnlockStore(w) ==
  /\ pc[w] = "unlock"
  /\ fn_write = "futex"
  /\ write_futex' = UNLOCK
  /\ Goto(w, "unlock_wake")
  /\ UNCHANGED <<fns, write_cursor, read_cursor, blocks, write_mutex, data,
                 cur, ret, rvars, calls, sent, got>>

\* ... and its muggle_futex_wake_one(&chan->write_futex).
UnlockWake(w) ==
  /\ pc[w] = "unlock_wake"
  /\ \/ /\ \A v \in Writers : pc[v] # "asleep"
        /\ Goto(w, AfterUnlock(w))
     \/ \E v \in Writers :
          /\ pc[v] = "asleep"
          /\ pc' = [pc EXCEPT ![w] = AfterUnlock(w), ![v] = "lock"]
  /\ UNCHANGED <<shared, data, cur, ret, rvars, calls, sent, got>>

\* Mutant: the reader is not woken.
WakeNone(w) ==
  /\ pc[w] = "wake"
  /\ Goto(w, "idle")
  /\ UNCHANGED <<shared, data, cur, ret, rvars, calls, sent, got>>

\* muggle_channel_wake_futex / muggle_channel_wake_busy_loop
Wake(w) ==
  /\ pc[w] = "wake"
  /\ rpc' = IF fn_read = "futex" /\ rpc = "asleep" THEN "load" ELSE rpc
  /\ Goto(w, "idle")
  /\ UNCHANGED <<shared, data, cur, ret, r_pos, w_cursor, r_data, calls, sent,
                 got>>

-----------------------------------------------------------------------------
(* The reader.                                                             *)

\* Mutant: r_pos is the slot before the one to read.
ReadCallBehind ==
  /\ rpc = "idle"
  /\ r_pos' = Idx(read_cursor)
  /\ rpc' = "load"
  /\ UNCHANGED <<shared, wvars, w_cursor, r_data, calls, sent, got>>

\* muggle_channel_read is entered and computes r_pos.
ReadCall ==
  /\ rpc = "idle"
  /\ r_pos' = Idx(Inc(read_cursor))
  /\ rpc' = "load"
  /\ UNCHANGED <<shared, wvars, w_cursor, r_data, calls, sent, got>>

\* The empty test on the cursor value 'seen'.
TestEmpty(seen) ==
  /\ rpc = "load"
  /\ w_cursor' = write_cursor
  /\ rpc' = IF seen # r_pos THEN "take"
            ELSE IF fn_read = "futex" THEN "wait" ELSE "load"
  /\ UNCHANGED <<shared, wvars, r_pos, r_data, calls, sent, got>>

\* w_cursor = muggle_atomic_load(&chan->write_cursor); is the slot r_pos
\* filled?  The busy loop yields and loads again.
ReadLoad == TestEmpty(Idx(write_cursor))

\* muggle_futex_wait(&chan->write_cursor, w_cursor)
ReadWait ==
  /\ rpc = "wait"
  /\ rpc' = IF write_cursor = w_cursor THEN "asleep" ELSE "load"
  /\ UNCHANGED <<shared, wvars, r_pos, w_cursor, r_data, calls, sent, got>>

\* data = blocks[r_pos].data
ReadData ==
  /\ rpc = "take"
  /\ r_data' = blocks[r_pos]
  /\ rpc' = "advance"
  /\ UNCHANGED <<shared, wvars, r_pos, w_cursor, calls, sent, got>>

\* read_cursor++; return data
ReadAdvance ==
  /\ rpc = "advance"
  /\ read_cursor' = Inc(read_cursor)
  /\ got' = Append(got, r_data)
  /\ rpc' = "idle"
  /\ UNCHANGED <<fns, write_cursor, blocks, write_mutex, write_futex, wvars,
                 r_pos, w_cursor, r_data, calls, sent>>

\* read_cursor++ is a plain store: nothing orders it after the load of the
\* data, so it may become visible to the writers first ...
ReadAdvanceEarly ==
  /\ rpc = "take"
  /\ read_cursor' = Inc(read_cursor)
  /\ rpc' = "late"
  /\ UNCHANGED <<fns, write_cursor, blocks, write_mutex, write_futex, wvars,
                 r_pos, w_cursor, r_data, calls, sent, got>>

\* ... and the data is loaded after it.
ReadDataLate ==
  /\ rpc = "late"
  /\ r_data' = blocks[r_pos]
  /\ got' = Append(got, blocks[r_pos])
  /\ rpc' = "idle"
  /\ UNCHANGED <<shared, wvars, r_pos, w_cursor, calls, sent>>

\* A signal ends a futex wait early; both wait loops ignore the result.
Interrupted ==
  \/ /\ rpc = "asleep"
     /\ rpc' = "load"
     /\ UNCHANGED <<shared, wvars, r_pos, w_cursor, r_data, calls, sent, got>>
  \/ \E w \in Writers :
       /\ pc[w] = "asleep"
       /\ Goto(w, "lock")
       /\ UNCHANGED <<shared, data, cur, ret, rvars, calls, sent, got>>

-----------------------------------------------------------------------------
WriterStep(w) ==
  \/ LockMutex(w) \/ LockCas(w) \/ LockWait(w)
  \/ CheckFull(w) \/ StoreData(w) \/ Publish(w)
  \/ UnlockMutex(w) \/ UnlockStore(w) \/ UnlockWake(w) \/ Wake(w)

ReaderStep ==
  \/ ReadCall \/ ReadLoad \/ ReadWait
  \/ ReadData \/ ReadAdvance \/ ReadAdvanceEarly \/ ReadDataLate

Next ==
  \/ \E w \in Writers : WriteCall(w) \/ WriterStep(w)
  \/ ReaderStep
  \/ Interrupted

Spec == Init /\ [][Next]_vars

\* A thread that can take a step is eventually scheduled, and the reader keeps
\* calling muggle_channel_read.  Nothing makes a user call
\* muggle_channel_write, and nothing makes a signal arrive.
Fairness ==
  /\ \A w \in Writers : WF_vars(WriterStep(w))
  /\ WF_vars(ReaderStep)

FairSpec == Spec /\ Fairness

-----------------------------------------------------------------------------
(* Properties.                                                             *)

Labels == {"idle", "lock", "lock_wait", "asleep", "check", "store",
           "publish", "unlock", "unlock_wake", "wake"}

TypeOK ==
  /\ fn_write \in {"mutex", "futex", "single_writer"}
  /\ fn_read \in {"futex", "busy_loop"}
  /\ write_cursor \in 0 .. CursorMod - 1
  /\ read_cursor \in 0 .. CursorMod - 1
  /\ blocks \in [0 .. Capacity - 1 -> Nat]
  /\ write_mutex \in SUBSET Writers
  /\ write_futex \in {UNLOCK, LOCK}
  /\ pc \in [Writers -> Labels]
  /\ data \in [Writers -> 0 .. MaxCalls]
  /\ cur \in [Writers -> 0 .. CursorMod - 1]
  /\ ret \in [Writers -> {OK, FULL}]
  /\ rpc \in {"idle", "load", "wait", "asleep", "take", "advance", "late"}
  /\ r_pos \in 0 .. Capacity - 1
  /\ w_cursor \in 0 .. CursorMod - 1
  /\ r_data \in Nat
  /\ calls \in 0 .. MaxCalls
  /\ sent \in Seq(Nat)
  /\ got \in Seq(Nat)

InCritical(w) == pc[w] \in {"check", "store", "publish", "unlock"}

\* The write lock (mutex, futex or the single-writer promise) keeps two
\* writers out of the section from the full test to the unlock.
WriteExclusion ==
  \A v, w \in Writers : InCritical(v) /\ InCritical(w) => v = w

\* What muggle_channel_read returned is what muggle_channel_write accepted, in
\* the same order: nothing is lost, duplicated, reordered or torn, also when
\* the cursors wrap and when read_cursor++ becomes visible before the data is
\* loaded.
ReadsAreFifo ==
  /\ Len(got) <= Len(sent)
  /\ \A i \in 1 .. Len(got) : got[i] = sent[i]

\* The slot the reader is taking is never the slot a writer is filling.
NoSlotRace ==
  rpc \in {"take", "late"} =>
    \A w \in Writers : pc[w] = "store" => Idx(cur[w]) # r_pos

\* The number of values the reader has freed the slots of, the one it is about
\* to be handed included, and the number of values waiting in the channel.
Taken == Len(got) + (IF rpc = "late" THEN 1 ELSE 0)
Waiting == Len(sent) - Taken

\* A write is refused only when Capacity - 2 values are waiting: comparing the
\* raw cursors stays exact across their wrap-around.
RefusedOnlyWhenFull ==
  [][\A w \in Writers :
       CheckFull(w) /\ ret'[w] = FULL => Waiting = Capacity - 2]_vars

\* Whoever is in the critical section holds the lock.
LockInv ==
  /\ WriteExclusion
  /\ fn_write = "single_writer" =>
       \A v, w \in Writers : pc[v] # "idle" /\ pc[w] # "idle" => v = w
  /\ \A w \in Writers : InCritical(w) =>
       /\ fn_write = "mutex" => write_mutex = {w}
       /\ fn_write = "futex" => write_futex = LOCK

\* The cursors count the values sent and taken, and the ring is never
\* overfilled: a writer past the full test still has its slot.
CursorInv ==
  /\ write_cursor = Len(sent) % CursorMod
  /\ read_cursor = (Taken + Capacity - 1) % CursorMod
  /\ Waiting \in 0 .. Capacity - 2
  /\ \A w \in Writers : pc[w] \in {"store", "publish"} =>
       cur[w] = write_cursor /\ Waiting < Capacity - 2

\* The slots between the cursors hold the values sent and not yet read, and
\* the reader's locals name the next of them.
SlotInv ==
  /\ \A i \in Len(got) + 1 .. Len(sent) : blocks[(i - 1) % Capacity] = sent[i]
  /\ \A w \in Writers : pc[w] = "publish" => blocks[Idx(cur[w])] = data[w]
  /\ \A w \in Writers : pc[w] # "idle" => data[w] # 0
  /\ rpc # "idle" => r_pos = Len(got) % Capacity
  /\ rpc \in {"take", "advance", "late"} => Len(got) < Len(sent)
  /\ rpc = "advance" => r_data = sent[Len(got) + 1]

\* The inductive invariant: the lock excludes, the cursors count, the slots
\* between them hold what was sent, and what was read is what was sent.
IInv == TypeOK /\ LockInv /\ CursorInv /\ SlotInv /\ ReadsAreFifo

\* The channel is a FIFO of Capacity - 2 places.  A value counts as delivered
\* from the moment its slot is given back.
Fifo == INSTANCE BoundedFifo WITH
  Data <- 1 .. MaxCalls,
  Bound <- Capacity - 2,
  MaxBatch <- 1,
  accepted <- sent,
  delivered <- IF rpc = "late" THEN Append(got, blocks[r_pos]) ELSE got

ImplementsFifo == Fifo!Spec

\* Every accepted value reaches the reader (the calls being finitely many, it
\* catches up for good): the reader never sleeps through a wake and the cursors
\* never tell it that a filled channel is empty.
AcceptedIsRead == []<>(Len(got) = Len(sent))

\* Every call of muggle_channel_write returns: no writer is left asleep on
\* write_futex or blocked on the mutex.
WritesReturn == \A w \in Writers : []<>(pc[w] = "idle")
=============================================================================
