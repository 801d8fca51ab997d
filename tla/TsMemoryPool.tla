---------------------------- MODULE TsMemoryPool ----------------------------
(***************************************************************************)
(* muggle_ts_memory_pool_t (muggle/c/memory/threadsafe_memory_pool.c): a   *)
(* ring of block pointers.  alloc takes the pointer at alloc_cursor with a *)
(* compare-and-swap loop, free puts one at free_cursor under a mutex.      *)
(*                                                                         *)
(* A block may be freed by another thread than the one that allocated it.  *)
(* Cursors count modulo CursorMod (2^32 in the code).                      *)
(***************************************************************************)
EXTENDS Integers, FiniteSets

CONSTANTS
  TsThreads,
  TsCapacity,    \* pool->capacity, a power of two
  CursorMod,   \* number of values of muggle_atomic_int
  TsWeakCas,     \* may muggle_atomic_cmp_exch_weak fail with equal values?
  TsMaxCalls     \* bound on the calls of muggle_ts_memory_pool_alloc

TsAssumption ==
  /\ TsCapacity \in Nat \ {0}
  /\ CursorMod \in Nat /\ CursorMod % TsCapacity = 0 /\ CursorMod > TsCapacity
  /\ TsWeakCas \in BOOLEAN
  /\ TsMaxCalls \in Nat

VARIABLES
  ptrs,                        \* pool->ptrs[i].ptr
  alloc_cursor, free_cursor,
  free_mutex,                  \* {} or the set holding the owner
  ts_pc,
  expected, ts_data,              \* locals of alloc
  block,                       \* local of free
  ts_owners,                      \* history: how many callers own the block
  ts_calls

tsPool == <<ptrs, alloc_cursor, free_cursor, free_mutex>>
tsVars == <<tsPool, ts_pc, expected, ts_data, block, ts_owners, ts_calls>>

TsBlocks == 0 .. TsCapacity - 1

\* IDX_IN_POW_OF_2_RING(c, pool->capacity)
TsIdx(c) == c % TsCapacity

\* cursor + 1
TsInc(c) == (c + 1) % CursorMod

TsGoto(t, l) == ts_pc' = [ts_pc EXCEPT ![t] = l]
Own(b, n) == ts_owners' = [ts_owners EXCEPT ![b] = @ + n]

-----------------------------------------------------------------------------
\* muggle_ts_memory_pool_init
TsInit ==
  /\ ptrs = [i \in TsBlocks |-> i]
  /\ alloc_cursor = 0
  /\ free_cursor = TsCapacity
  /\ free_mutex = {}
  /\ ts_pc = [t \in TsThreads |-> "idle"]
  /\ expected = [t \in TsThreads |-> 0]
  /\ ts_data = [t \in TsThreads |-> 0]
  /\ block = [t \in TsThreads |-> 0]
  /\ ts_owners = [b \in TsBlocks |-> 0]
  /\ ts_calls = 0

\* expected = pool->alloc_cursor
AllocCall(t) ==
  /\ ts_pc[t] = "idle"
  /\ ts_calls < TsMaxCalls
  /\ ts_calls' = ts_calls + 1
  /\ expected' = [expected EXCEPT ![t] = alloc_cursor]
  /\ TsGoto(t, "test")
  /\ UNCHANGED <<tsPool, ts_data, block, ts_owners>>

\* Mutant: one block too early, the pool is empty.
AllocTestEarly(t) ==
  /\ ts_pc[t] = "test"
  /\ TsGoto(t, IF TsInc(expected[t]) = free_cursor THEN "idle" ELSE "fetch")
  /\ UNCHANGED <<tsPool, expected, ts_data, block, ts_owners, ts_calls>>

\* Nothing free: return NULL.
AllocTest(t) ==
  /\ ts_pc[t] = "test"
  /\ TsGoto(t, IF expected[t] = free_cursor THEN "idle" ELSE "fetch")
  /\ UNCHANGED <<tsPool, expected, ts_data, block, ts_owners, ts_calls>>

\* data = pool->ptrs[alloc_pos].ptr + 1
AllocFetch(t) ==
  /\ ts_pc[t] = "fetch"
  /\ ts_data' = [ts_data EXCEPT ![t] = ptrs[TsIdx(expected[t])]]
  /\ TsGoto(t, "cas")
  /\ UNCHANGED <<tsPool, expected, block, ts_owners, ts_calls>>

\* Mutant: the cursor moves whatever its value is.
AllocCasBlind(t) ==
  /\ ts_pc[t] = "cas"
  /\ alloc_cursor' = TsInc(expected[t])
  /\ Own(ts_data[t], 1)
  /\ TsGoto(t, "idle")
  /\ UNCHANGED <<ptrs, free_cursor, free_mutex, expected, ts_data, block, ts_calls>>

\* The compare-and-swap succeeds: return data.
AllocCas(t) ==
  /\ ts_pc[t] = "cas"
  /\ alloc_cursor = expected[t]
  /\ alloc_cursor' = TsInc(expected[t])
  /\ Own(ts_data[t], 1)
  /\ TsGoto(t, "idle")
  /\ UNCHANGED <<ptrs, free_cursor, free_mutex, expected, ts_data, block, ts_calls>>

\* It fails, or fails spuriously, and reloads expected.  The loop goes on unless
\* expected is the masked position of this round: then data is returned although
\* the cursor has not been moved.
AllocCasFails(t) ==
  /\ ts_pc[t] = "cas"
  /\ alloc_cursor # expected[t] \/ TsWeakCas
  /\ expected' = [expected EXCEPT ![t] = alloc_cursor]
  /\ \/ alloc_cursor # TsIdx(expected[t]) /\ TsGoto(t, "test") /\ UNCHANGED ts_owners
     \/ alloc_cursor = TsIdx(expected[t]) /\ TsGoto(t, "idle") /\ Own(ts_data[t], 1)
  /\ UNCHANGED <<tsPool, ts_data, block, ts_calls>>

\* The owner of a block frees it.
FreeCall(t, b) ==
  /\ ts_pc[t] = "idle"
  /\ ts_owners[b] > 0
  /\ Own(b, -1)
  /\ block' = [block EXCEPT ![t] = b]
  /\ TsGoto(t, "lock")
  /\ UNCHANGED <<tsPool, expected, ts_data, ts_calls>>

FreeLock(t) ==
  /\ ts_pc[t] = "lock"
  /\ free_mutex = {}
  /\ free_mutex' = {t}
  /\ TsGoto(t, "put")
  /\ UNCHANGED <<ptrs, alloc_cursor, free_cursor, expected, ts_data, block, ts_owners,
                 ts_calls>>

\* pool->ptrs[free_pos].ptr = block
FreePut(t) ==
  /\ ts_pc[t] = "put"
  /\ ptrs' = [ptrs EXCEPT ![TsIdx(free_cursor)] = block[t]]
  /\ TsGoto(t, "advance")
  /\ UNCHANGED <<alloc_cursor, free_cursor, free_mutex, expected, ts_data, block,
                 ts_owners, ts_calls>>

FreeAdvance(t) ==
  /\ ts_pc[t] = "advance"
  /\ free_cursor' = TsInc(free_cursor)
  /\ TsGoto(t, "unlock")
  /\ UNCHANGED <<ptrs, alloc_cursor, free_mutex, expected, ts_data, block, ts_owners,
                 ts_calls>>

FreeUnlock(t) ==
  /\ ts_pc[t] = "unlock"
  /\ free_mutex' = {}
  /\ TsGoto(t, "idle")
  /\ UNCHANGED <<ptrs, alloc_cursor, free_cursor, expected, ts_data, block, ts_owners,
                 ts_calls>>

TsStep(t) ==
  \/ AllocTest(t) \/ AllocFetch(t) \/ AllocCas(t) \/ AllocCasFails(t)
  \/ FreeLock(t) \/ FreePut(t) \/ FreeAdvance(t) \/ FreeUnlock(t)

TsNext == \E t \in TsThreads :
  AllocCall(t) \/ (\E b \in TsBlocks : FreeCall(t, b)) \/ TsStep(t)

TsSpec == TsInit /\ [][TsNext]_tsVars

\* A thread inside a call goes on; pthread_mutex_lock does not starve a thread.
TsFairness == \A t \in TsThreads : WF_tsVars(TsStep(t)) /\ SF_tsVars(FreeLock(t))
TsLiveSpec == TsSpec /\ TsFairness

-----------------------------------------------------------------------------
\* How many blocks lie in the ring, between the cursors.
TsAvail == (free_cursor - alloc_cursor) % CursorMod

\* The ring positions a block can be taken from.
TsFree == {TsIdx(alloc_cursor + k) : k \in 0 .. TsAvail - 1}

\* Threads on their way to return a block to the ring.
Returning == {t \in TsThreads : ts_pc[t] \in {"lock", "put", "advance"}}

\* The places of a block: its owners, the threads freeing it, the ring.
TsPlaces(b) ==
  ts_owners[b] + Cardinality({t \in Returning : block[t] = b})
            + Cardinality({i \in TsFree : ptrs[i] = b})

\* Types of the fields and locals.
TsTypeOK ==
  /\ ptrs \in [TsBlocks -> TsBlocks]
  /\ alloc_cursor \in 0 .. CursorMod - 1 /\ free_cursor \in 0 .. CursorMod - 1
  /\ free_mutex \in SUBSET TsThreads
  /\ ts_pc \in [TsThreads -> {"idle", "test", "fetch", "cas", "lock", "put",
                         "advance", "unlock"}]
  /\ expected \in [TsThreads -> 0 .. CursorMod - 1]
  /\ ts_data \in [TsThreads -> TsBlocks] /\ block \in [TsThreads -> TsBlocks]
  /\ ts_owners \in [TsBlocks -> Nat]
  /\ ts_calls \in 0 .. TsMaxCalls

\* No block has two owners: what alloc returned is nobody else's until it is
\* freed, whichever threads allocate and free around it.
TsNoDoubleOwner == \A b \in TsBlocks : ts_owners[b] <= 1

\* No block is lost and none exists twice: each has one owner, is on its way
\* back, or lies in the ring once.
TsConserved == \A b \in TsBlocks : TsPlaces(b) = 1

\* "fetch data must before move cursor" (threadsafe_memory_pool.c:114): a pointer
\* fetched before the compare-and-swap is still the one in the ring when the
\* compare-and-swap is going to succeed.
FetchedIsCurrent ==
  \A t \in TsThreads : ts_pc[t] = "cas" /\ expected[t] = alloc_cursor =>
    TsAvail > 0 /\ ts_data[t] = ptrs[TsIdx(alloc_cursor)]

\* The three together.
OneOwner == TsTypeOK /\ TsNoDoubleOwner /\ TsConserved /\ FetchedIsCurrent

\* alloc returns NULL only when every block has an owner or is on its way back,
\* although it compares a copy of alloc_cursor that may be old.
NullOnlyWhenEmpty ==
  [][ \A t \in TsThreads : ts_pc[t] = "test" /\ ts_pc'[t] = "idle" => TsFree = {} ]_tsVars

\* Every call of alloc and of free returns: threads that fail their
\* compare-and-swap do so because another one has succeeded.
TsCallsReturn == \A t \in TsThreads : []<>(ts_pc[t] = "idle")
=============================================================================
