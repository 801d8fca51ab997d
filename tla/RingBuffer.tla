----------------------------- MODULE RingBuffer -----------------------------
(***************************************************************************)
(* muggle_ring_buffer_t (muggle/c/sync/ring_buffer.c): writers overwrite,  *)
(* readers wait for the slot they want to be behind the cursor.            *)
(*                                                                         *)
(* Every access to a shared word is a step.  The n-th call of              *)
(* muggle_ring_buffer_write passes the value n.  A reader of a buffer      *)
(* without MSG_READ_ONCE asks for the positions 0, 1, 2, ... in turn, as   *)
(* the unit test and the examples do.                                      *)
(***************************************************************************)
EXTENDS Integers, Sequences, FiniteSets

CONSTANTS
  Writers, Readers,
  RingCapacity,    \* r->capacity, a power of two after muggle_ring_buffer_init
  CursorMod,   \* number of values of a cursor: 2^32 in the code
  Uses,        \* the ways the buffer is used, each a record of
               \*   flags: the MUGGLE_RING_BUFFER_FLAG_* names given to init,
               \*   calls: a bound on the calls of muggle_ring_buffer_write,
               \*   lag: how far the writers may run ahead of the readers
  WeakCas      \* may the weak compare-and-swap fail spuriously (LL/SC)?

\* Apart from the types: fewer threads than cursor values, and without the one
\* combination of flags that muggle_ring_buffer_get_mode refuses.
RingAssumption ==
  /\ RingCapacity \in Nat \ {0}
  /\ CursorMod \in Nat \ {0}
  /\ CursorMod % RingCapacity = 0
  /\ IsFiniteSet(Writers) /\ Cardinality(Writers) <= CursorMod
  /\ WeakCas \in BOOLEAN
  /\ \A u \in Uses :
       /\ u.calls \in Nat /\ u.lag \in Nat
       /\ {"MSG_READ_ONCE", "READ_BUSY_LOOP"} \subseteq u.flags =>
            "SINGLE_READER" \in u.flags

VARIABLES
  use,
  next, cursor, read_cursor, ring_datas,
  write_mutex, read_mutex,     \* {} or the set holding the owner
  ring_pc, ring_data, idx,               \* writers: control, argument, claimed position
  rpc, r_pos, w_cursor,        \* readers: control and locals
  ring_calls,
  msgs,       \* history: the messages in the order of their positions
  published,  \* history: how many of them the cursor has passed
  returned,   \* history: the calls of muggle_ring_buffer_write that returned
  got         \* history: what each stream of reads returned

wvars == <<ring_pc, ring_data, idx>>
rvars == <<rpc, r_pos, w_cursor>>
shared == <<use, next, cursor, read_cursor, ring_datas, write_mutex, read_mutex>>
history == <<msgs, published, returned, got>>
ringVars == <<shared, wvars, rvars, ring_calls, history>>

\* muggle_ring_buffer_get_mode
WriteMode ==
  IF "SINGLE_WRITER" \in use.flags THEN "single"
  ELSE IF "WRITE_BUSY_LOOP" \in use.flags THEN "busy_loop" ELSE "lock"

ReadMode ==
  IF "READ_BUSY_LOOP" \in use.flags THEN "busy_loop"
  ELSE IF "SINGLE_READER" \in use.flags THEN "single_wait"
  ELSE IF "MSG_READ_ONCE" \in use.flags THEN "lock" ELSE "wait"

\* A slot of the array that malloc returned and nobody has filled yet.
Garbage == 0

\* IDX_IN_POW_OF_2_RING
Idx(c) == c % RingCapacity
Inc(c) == (c + 1) % CursorMod

RingGoto(w, l) == ring_pc' = [ring_pc EXCEPT ![w] = l]
RGoto(r, l) == rpc' = [rpc EXCEPT ![r] = l]

\* With the lock mode the readers share one position and a single reader has
\* one to itself; otherwise each has its own.
OneStream == ReadMode = "lock" \/ "SINGLE_READER" \in use.flags
Streams == IF OneStream THEN {"shared"} ELSE Readers
Stream(r) == IF OneStream THEN "shared" ELSE r

-----------------------------------------------------------------------------
\* muggle_ring_buffer_init
RingInit ==
  /\ use \in Uses
  /\ next = 0 /\ cursor = 0 /\ read_cursor = 0
  /\ ring_datas = [i \in 0 .. RingCapacity - 1 |-> Garbage]
  /\ write_mutex = {} /\ read_mutex = {}
  /\ ring_pc = [w \in Writers |-> "idle"]
  /\ ring_data = [w \in Writers |-> 0]
  /\ idx = [w \in Writers |-> 0]
  /\ rpc = [r \in Readers |-> "idle"]
  /\ r_pos = [r \in Readers |-> 0]
  /\ w_cursor = [r \in Readers |-> 0]
  /\ ring_calls = 0
  /\ msgs = <<>> /\ published = 0 /\ returned = {}
  /\ got = [s \in Streams |-> <<>>]

-----------------------------------------------------------------------------
(* The writers.                                                            *)

\* muggle_ring_buffer_write is entered.  Its user keeps the number of messages
\* that some reader has not read at use.lag, and guarantees that one thread at
\* a time writes when it sets the single-writer flag.
WriteCall(w) ==
  /\ ring_pc[w] = "idle"
  /\ "SINGLE_WRITER" \in use.flags => \A v \in Writers : ring_pc[v] = "idle"
  /\ ring_calls < use.calls
  /\ \A s \in Streams : ring_calls - Len(got[s]) < use.lag
  /\ ring_calls' = ring_calls + 1
  /\ ring_data' = [ring_data EXCEPT ![w] = ring_calls + 1]
  /\ RingGoto(w, CASE WriteMode = "lock" -> "lock"
               [] WriteMode = "single" -> "store"
               [] WriteMode = "busy_loop" -> "claim")
  /\ UNCHANGED <<shared, idx, rvars, history>>

\* muggle_mutex_lock(&r->write_mutex)
LockMutex(w) ==
  /\ ring_pc[w] = "lock"
  /\ write_mutex = {}
  /\ write_mutex' = {w}
  /\ RingGoto(w, "store")
  /\ UNCHANGED <<use, next, cursor, read_cursor, ring_datas, read_mutex, ring_data, idx,
                 rvars, ring_calls, history>>

\* idx = muggle_atomic_fetch_add(&r->next, 1)
Claim(w) ==
  /\ ring_pc[w] = "claim"
  /\ idx' = [idx EXCEPT ![w] = next]
  /\ next' = Inc(next)
  /\ msgs' = Append(msgs, ring_data[w])
  /\ RingGoto(w, "store_claimed")
  /\ UNCHANGED <<use, cursor, read_cursor, ring_datas, write_mutex, read_mutex,
                 ring_data, rvars, ring_calls, published, returned, got>>

\* r->datas[IDX(r->cursor)] = data
Store(w) ==
  /\ ring_pc[w] = "store"
  /\ ring_datas' = [ring_datas EXCEPT ![Idx(cursor)] = ring_data[w]]
  /\ RingGoto(w, "publish")
  /\ UNCHANGED <<use, next, cursor, read_cursor, write_mutex, read_mutex, ring_data,
                 idx, rvars, ring_calls, history>>

\* muggle_atomic_store(&r->cursor, r->cursor + 1, release)
Publish(w) ==
  /\ ring_pc[w] = "publish"
  /\ cursor' = Inc(cursor)
  /\ msgs' = Append(msgs, ring_data[w])
  /\ published' = published + 1
  /\ RingGoto(w, IF WriteMode = "lock" THEN "unlock" ELSE "wake")
  /\ UNCHANGED <<use, next, read_cursor, ring_datas, write_mutex, read_mutex, ring_data,
                 idx, rvars, ring_calls, returned, got>>

\* muggle_mutex_unlock(&r->write_mutex)
UnlockMutex(w) ==
  /\ ring_pc[w] = "unlock"
  /\ write_mutex' = {}
  /\ RingGoto(w, "wake")
  /\ UNCHANGED <<use, next, cursor, read_cursor, ring_datas, read_mutex, ring_data, idx,
                 rvars, ring_calls, history>>

\* Mutant: the slot of the cursor is filled instead of the claimed one.
StoreAtCursor(w) ==
  /\ ring_pc[w] = "store_claimed"
  /\ ring_datas' = [ring_datas EXCEPT ![Idx(cursor)] = ring_data[w]]
  /\ RingGoto(w, "advance")
  /\ UNCHANGED <<use, next, cursor, read_cursor, write_mutex, read_mutex, ring_data,
                 idx, rvars, ring_calls, history>>

\* r->datas[IDX(idx)] = data
StoreClaimed(w) ==
  /\ ring_pc[w] = "store_claimed"
  /\ ring_datas' = [ring_datas EXCEPT ![Idx(idx[w])] = ring_data[w]]
  /\ RingGoto(w, "advance")
  /\ UNCHANGED <<use, next, cursor, read_cursor, write_mutex, read_mutex, ring_data,
                 idx, rvars, ring_calls, history>>

\* The loop that moves the cursor from idx to idx + 1: it ends when the
\* compare-and-swap succeeds, or fails although the cursor was at idx.
Advance(w) ==
  /\ ring_pc[w] = "advance"
  /\ \/ /\ cursor = idx[w]
        /\ cursor' = Inc(idx[w])
        /\ published' = published + 1
        /\ RingGoto(w, "wake")
     \/ /\ cursor = idx[w]
        /\ WeakCas
        /\ RingGoto(w, "wake")
        /\ UNCHANGED <<use, cursor, published>>
     \/ /\ cursor # idx[w]
        /\ UNCHANGED <<use, cursor, published, ring_pc>>
  /\ UNCHANGED <<use, next, read_cursor, ring_datas, write_mutex, read_mutex, ring_data,
                 idx, rvars, ring_calls, msgs, returned, got>>

\* The function of muggle_ring_buffer_wake_functions: wake_all in wait mode,
\* wake_one in single_wait and lock mode, nothing in busy_loop mode.
Wake(w) ==
  /\ ring_pc[w] = "wake"
  /\ LET sleeping == {r \in Readers : rpc[r] = "asleep"} IN
       \/ /\ ReadMode = "wait" \/ sleeping = {}
          /\ rpc' = [r \in Readers |->
                       IF r \in sleeping THEN "load" ELSE rpc[r]]
       \/ /\ ReadMode \in {"single_wait", "lock"}
          /\ \E r \in sleeping : RGoto(r, "load")
  /\ returned' = returned \cup {ring_data[w]}
  /\ RingGoto(w, "idle")
  /\ UNCHANGED <<shared, ring_data, idx, r_pos, w_cursor, ring_calls, msgs, published,
                 got>>

-----------------------------------------------------------------------------
(* The readers.                                                            *)

\* muggle_ring_buffer_read is entered, by one thread at a time with the
\* single-reader flag; the position is masked, or the read lock has to be taken.
ReadCall(r) ==
  /\ rpc[r] = "idle"
  /\ "SINGLE_READER" \in use.flags => \A q \in Readers : rpc[q] = "idle"
  /\ IF ReadMode = "lock"
       THEN RGoto(r, "lock") /\ UNCHANGED r_pos
       ELSE /\ RGoto(r, "load")
            /\ r_pos' = [r_pos EXCEPT ![r] =
                           Idx(Len(got[Stream(r)]) % CursorMod)]
  /\ UNCHANGED <<shared, wvars, w_cursor, ring_calls, history>>

\* muggle_mutex_lock(&r->read_mutex)
ReadLock(r) ==
  /\ rpc[r] = "lock"
  /\ read_mutex = {}
  /\ read_mutex' = {r}
  /\ RGoto(r, "load")
  /\ UNCHANGED <<use, next, cursor, read_cursor, ring_datas, write_mutex, wvars,
                 r_pos, w_cursor, ring_calls, history>>

\* Mutant: the cursor is not masked.
ReadLoadUnmasked(r) ==
  /\ rpc[r] = "load"
  /\ w_cursor' = [w_cursor EXCEPT ![r] = cursor]
  /\ RGoto(r, IF cursor # r_pos[r] THEN "take" ELSE "wait")
  /\ UNCHANGED <<shared, wvars, r_pos, ring_calls, history>>

\* w_cursor = muggle_atomic_load(&r->cursor): is the wanted slot behind it?
ReadLoad(r) ==
  /\ rpc[r] = "load"
  /\ w_cursor' = [w_cursor EXCEPT ![r] = cursor]
  /\ LET pos == IF ReadMode = "lock" THEN Idx(read_cursor) ELSE r_pos[r] IN
       /\ r_pos' = [r_pos EXCEPT ![r] = pos]
       /\ RGoto(r, IF Idx(cursor) # pos THEN "take"
                   ELSE IF ReadMode = "busy_loop" THEN "load" ELSE "wait")
  /\ UNCHANGED <<shared, wvars, ring_calls, history>>

\* muggle_futex_wait(&r->cursor, w_cursor)
ReadWait(r) ==
  /\ rpc[r] = "wait"
  /\ RGoto(r, IF cursor = w_cursor[r] THEN "asleep" ELSE "load")
  /\ UNCHANGED <<shared, wvars, r_pos, w_cursor, ring_calls, history>>

\* return r->datas[r_pos]; under the read lock also r->read_cursor++
Take(r) ==
  /\ rpc[r] = "take"
  /\ got' = [got EXCEPT ![Stream(r)] = Append(@, ring_datas[r_pos[r]])]
  /\ IF ReadMode = "lock"
       THEN read_cursor' = Inc(read_cursor) /\ RGoto(r, "unlock")
       ELSE RGoto(r, "idle") /\ UNCHANGED read_cursor
  /\ UNCHANGED <<use, next, cursor, ring_datas, write_mutex, read_mutex, wvars,
                 r_pos, w_cursor, ring_calls, msgs, published, returned>>

\* muggle_mutex_unlock(&r->read_mutex)
ReadUnlock(r) ==
  /\ rpc[r] = "unlock"
  /\ read_mutex' = {}
  /\ RGoto(r, "idle")
  /\ UNCHANGED <<use, next, cursor, read_cursor, ring_datas, write_mutex, wvars,
                 r_pos, w_cursor, ring_calls, history>>

\* A signal ends a futex wait early.
Interrupted(r) ==
  /\ rpc[r] = "asleep"
  /\ RGoto(r, "load")
  /\ UNCHANGED <<shared, wvars, r_pos, w_cursor, ring_calls, history>>

-----------------------------------------------------------------------------
WriterStep(w) ==
  \/ LockMutex(w) \/ Store(w) \/ Publish(w) \/ UnlockMutex(w)
  \/ Claim(w) \/ StoreClaimed(w) \/ Advance(w) \/ Wake(w)

ReaderStep(r) ==
  \/ ReadCall(r) \/ ReadLock(r) \/ ReadLoad(r) \/ ReadWait(r)
  \/ Take(r) \/ ReadUnlock(r)

RingNext ==
  \/ \E w \in Writers : WriteCall(w) \/ WriterStep(w)
  \/ \E r \in Readers : ReaderStep(r) \/ Interrupted(r)

RingSpec == RingInit /\ [][RingNext]_ringVars

\* Threads that can run do run, and the readers keep reading.
RingFairness ==
  /\ \A w \in Writers : WF_ringVars(WriterStep(w))
  /\ \A r \in Readers : WF_ringVars(ReaderStep(r))

RingFairSpec == RingSpec /\ RingFairness

-----------------------------------------------------------------------------
(* Properties.                                                             *)

RingTypeOK ==
  /\ use \in Uses
  /\ {next, cursor, read_cursor} \subseteq 0 .. CursorMod - 1
  /\ ring_datas \in [0 .. RingCapacity - 1 -> 0 .. use.calls]
  /\ write_mutex \in SUBSET Writers /\ read_mutex \in SUBSET Readers
  /\ ring_pc \in [Writers -> {"idle", "lock", "claim", "store", "publish", "unlock",
                         "store_claimed", "advance", "wake"}]
  /\ ring_data \in [Writers -> 0 .. use.calls]
  /\ idx \in [Writers -> 0 .. CursorMod - 1]
  /\ rpc \in [Readers -> {"idle", "lock", "load", "wait", "asleep", "take",
                          "unlock"}]
  /\ r_pos \in [Readers -> 0 .. RingCapacity - 1]
  /\ w_cursor \in [Readers -> 0 .. CursorMod - 1]
  /\ ring_calls \in 0 .. use.calls
  /\ msgs \in Seq(1 .. use.calls)
  /\ published \in 0 .. Len(msgs)
  /\ returned \subseteq 1 .. use.calls
  /\ got \in [Streams -> Seq(0 .. use.calls)]

\* Message d has position j, or will have it once its writer publishes it.
At(d, j) ==
  \/ j \in 1 .. Len(msgs) /\ msgs[j] = d
  \/ j = Len(msgs) + 1 /\ \E w \in Writers : ring_pc[w] = "publish" /\ ring_data[w] = d

SameSlot(i, j) == (i - 1) % RingCapacity = (j - 1) % RingCapacity

\* Writers: each mode has its program points, and a lock-mode or single writer is
\* alone between its store and its publication.
Storing(w) == ring_pc[w] \in {"store", "publish"}
Holding(w) == ring_pc[w] \in {"store_claimed", "advance"}
WritersInv ==
  /\ \A w \in Writers :
       /\ Holding(w) \/ ring_pc[w] = "claim" => WriteMode = "busy_loop"
       /\ Storing(w) => WriteMode # "busy_loop"
       /\ ring_pc[w] \in {"lock", "unlock"} => WriteMode = "lock"
       /\ WriteMode = "lock" /\ (Storing(w) \/ ring_pc[w] = "unlock") => write_mutex = {w}
  /\ WriteMode = "single" =>
       \A v, w \in Writers : ring_pc[v] # "idle" /\ ring_pc[w] # "idle" => v = w

\* The messages are distinct, and one that has no position yet is not among them.
MessagesInv ==
  /\ \A w \in Writers : ring_pc[w] # "idle" => ring_data[w] \in 1 .. ring_calls
  /\ \A v, w \in Writers :
       ring_pc[v] # "idle" /\ ring_pc[w] # "idle" /\ ring_data[v] = ring_data[w] => v = w
  /\ \A i \in 1 .. Len(msgs) : msgs[i] \in 1 .. ring_calls
  /\ \A i, j \in 1 .. Len(msgs) : msgs[i] = msgs[j] => i = j
  /\ \A w \in Writers : Storing(w) \/ ring_pc[w] \in {"lock", "claim"} =>
       \A i \in 1 .. Len(msgs) : msgs[i] # ring_data[w]

\* The positions from 'published' on are those the busy-loop writers hold, and a
\* write that is past its publication has been published.
PositionsInv ==
  /\ cursor = published % CursorMod
  /\ IF WriteMode = "busy_loop" THEN next = Len(msgs) % CursorMod
                                ELSE published = Len(msgs)
  /\ \A w \in Writers : Holding(w) =>
       \E i \in published + 1 .. Len(msgs) :
         msgs[i] = ring_data[w] /\ idx[w] = (i - 1) % CursorMod
  /\ \A i \in published + 1 .. Len(msgs) :
       \E w \in Writers : Holding(w) /\ ring_data[w] = msgs[i]
  /\ \A w \in Writers : ring_pc[w] \in {"unlock", "wake"} =>
       \E i \in 1 .. published : msgs[i] = ring_data[w]

\* A write that returned has been published.
ReturnedIsPublished ==
  \A d \in returned : \E i \in 1 .. published : msgs[i] = d

\* Readers: those of a shared stream take turns, one that takes a slot has seen the
\* cursor behind it, and no stream is ahead of the cursor.
Reading(r) == rpc[r] \in {"load", "wait", "asleep", "take"}
ReadersInv ==
  /\ \A r \in Readers :
       /\ rpc[r] \in {"lock", "unlock"} => ReadMode = "lock"
       /\ ReadMode = "lock" /\ (Reading(r) \/ rpc[r] = "unlock") => read_mutex = {r}
       /\ Reading(r) /\ (rpc[r] = "take" \/ ReadMode # "lock") =>
            r_pos[r] = Len(got[Stream(r)]) % RingCapacity
       /\ rpc[r] = "take" => Len(got[Stream(r)]) < published
  /\ "SINGLE_READER" \in use.flags =>
       \A q, r \in Readers : rpc[q] # "idle" /\ rpc[r] # "idle" => q = r
  /\ ReadMode = "lock" => read_cursor = Len(got["shared"]) % CursorMod
  /\ \A s \in Streams : Len(got[s]) <= published /\ ring_calls - Len(got[s]) <= use.lag

\* No more writers than slots, or a lag that keeps the claimed positions apart.
\* With more than RingCapacity positions claimed at once, the writer of an older one
\* may store last and its message stands in for the newer one.
Fits == Cardinality(Writers) <= RingCapacity \/ (Streams # {} /\ use.lag <= RingCapacity)

\* A published position's slot holds its message or one of a later lap, and a
\* message that is about to be published is in its slot.
SlotsInv ==
  /\ \A i \in 1 .. published : \E j \in i .. Len(msgs) + 1 :
       SameSlot(i, j) /\ At(ring_datas[(i - 1) % RingCapacity], j)
  /\ \A w \in Writers : ring_pc[w] = "publish" => ring_datas[published % RingCapacity] = ring_data[w]
  /\ \A w \in Writers : ring_pc[w] = "advance" =>
       \A i \in published + 1 .. Len(msgs) :
         msgs[i] = ring_data[w] => ring_datas[(i - 1) % RingCapacity] = ring_data[w]

RingIInv ==
  /\ RingTypeOK /\ WritersInv /\ MessagesInv /\ PositionsInv /\ ReadersInv
  /\ ReturnedIsPublished
  /\ Fits => SlotsInv

\* Every published message that no claimed or later position reuses the slot of
\* is in its slot: publication never outruns a store, whichever writer stores
\* first.  (A store of a writer that holds the position 'published' in lock and
\* single mode is in progress in the slot of the oldest message.)
InProgress == {w \in Writers : ring_pc[w] = "publish"}
Claimed == Len(msgs) + Cardinality(InProgress)
SlotsHold ==
  \A i \in 1 .. published :
    i + RingCapacity > Claimed => ring_datas[(i - 1) % RingCapacity] = msgs[i]

\* channel.h says that when the ring is full the last message is pushed in:
\* with no write in progress the newest message is in the ring.
LastIsKept ==
  (\A w \in Writers : ring_pc[w] = "idle") /\ published > 0 =>
    ring_datas[(published - 1) % RingCapacity] = msgs[published]

RingHolds == RingIInv /\ (Fits => SlotsHold /\ LastIsKept)

\* As long as the writers are no more than the capacity ahead, every stream of
\* reads returns the messages in their order, none lost, duplicated or torn.
InOrder ==
  use.lag <= RingCapacity => \A s \in Streams : \A i \in 1 .. Len(got[s]) :
    i <= published /\ got[s][i] = msgs[i]

\* Whatever the lag: the i-th read returns the message of position i or one
\* that overwrote it, and never the contents of a slot nobody has filled.
ReadsAreWritten ==
  \A s \in Streams : \A i \in 1 .. Len(got[s]) :
    \E j \in i .. Len(msgs) + 1 : SameSlot(i, j) /\ At(got[s][i], j)

ReadsInOrder == InOrder /\ (Fits => ReadsAreWritten)

\* Every call of muggle_ring_buffer_write returns.
WritesReturn == \A w \in Writers : []<>(ring_pc[w] = "idle")

\* Every published message reaches every reader (with the lock mode, one): no
\* wake-up is lost.
PublishedIsRead == []<>(\A s \in Streams : Len(got[s]) >= published)
=============================================================================
