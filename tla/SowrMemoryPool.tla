--------------------------- MODULE SowrMemoryPool ---------------------------
(***************************************************************************)
(* muggle_sowr_memory_pool_t (muggle/c/memory/sowr_memory_pool.c): blocks  *)
(* that one thread allocates and another one frees, in order of allocation *)
(* ("sequential only one writer and only one reader").                     *)
(*                                                                         *)
(* free_idx is the only word both threads use, and each operation touches  *)
(* it once, so an operation is one step.  The accesses are relaxed: the    *)
(* allocating thread may read a value of free_idx that has been replaced,  *)
(* but never one older than a value it has already read.                   *)
(***************************************************************************)
EXTENDS Integers, Sequences

CONSTANTS
  SowrCapacity,   \* pool->capacity, a power of two
  IdxMod,     \* number of values of alloc_idx
  MaxLag      \* bound on the stores of free_idx not yet seen by alloc

ASSUME SowrAssumption ==
  /\ SowrCapacity \in Nat \ {0}
  /\ IdxMod \in Nat /\ IdxMod % SowrCapacity = 0 /\ IdxMod >= SowrCapacity
  /\ MaxLag \in Nat

VARIABLES
  alloc_idx, cached_free_pos,  \* used by the allocating thread only
  free_idx,    \* the values of free_idx the allocating thread may still read,
               \* the last one stored at the end
  live         \* history: the blocks allocated and not freed, oldest first

sowrVars == <<alloc_idx, cached_free_pos, free_idx, live>>

SowrBlocks == 0 .. SowrCapacity - 1

\* IDX_IN_POW_OF_2_RING(i, pool->capacity)
SowrIdx(i) == i % SowrCapacity
AllocPos == SowrIdx(alloc_idx)

-----------------------------------------------------------------------------
\* muggle_sowr_memory_pool_init
SowrInit ==
  /\ alloc_idx = 0
  /\ cached_free_pos = SowrCapacity - 1
  /\ free_idx = <<0>>
  /\ live = <<>>

\* The block at alloc_pos is returned.
SowrTake ==
  /\ alloc_idx' = (alloc_idx + 1) % IdxMod
  /\ live' = Append(live, AllocPos)

\* Mutant: the cached position is not looked at.
AllocFastBlind ==
  /\ SowrTake
  /\ UNCHANGED <<cached_free_pos, free_idx>>

\* muggle_sowr_memory_pool_alloc, when the cached position allows it.
AllocFast ==
  /\ AllocPos # cached_free_pos
  /\ SowrTake
  /\ UNCHANGED <<cached_free_pos, free_idx>>

\* Mutant: the position cached is that of free_idx.
RefreshPast ==
  \E k \in 1 .. Len(free_idx) :
    /\ free_idx' = SubSeq(free_idx, k, Len(free_idx))
    /\ cached_free_pos' = SowrIdx(free_idx[k])

\* cached_free_pos = IDX_IN_POW_OF_2_RING(load(&pool->free_idx) - 1, capacity)
Refresh ==
  \E k \in 1 .. Len(free_idx) :
    /\ free_idx' = SubSeq(free_idx, k, Len(free_idx))
    /\ cached_free_pos' = SowrIdx(free_idx[k] - 1)

\* The cached position is refreshed and tested again; NULL if it still forbids.
AllocSlow ==
  /\ AllocPos = cached_free_pos
  /\ Refresh
  /\ \/ AllocPos # cached_free_pos' /\ SowrTake
     \/ AllocPos = cached_free_pos' /\ UNCHANGED <<alloc_idx, live>>

\* muggle_sowr_memory_pool_free of the k-th oldest block frees the older ones too.
SowrFree(k) ==
  /\ k \in 1 .. Len(live) /\ Len(free_idx) <= MaxLag
  /\ free_idx' = Append(free_idx, live[k] + 1)
  /\ live' = SubSeq(live, k + 1, Len(live))
  /\ UNCHANGED <<alloc_idx, cached_free_pos>>

SowrNext == AllocFast \/ AllocSlow \/ \E k \in SowrBlocks : SowrFree(k)

SowrSpec == SowrInit /\ [][SowrNext]_sowrVars

\* A thread that keeps trying to allocate sees the last store in the end, and the
\* freeing thread frees what it has got.
ReadsLast == AllocSlow /\ Len(free_idx') = 1
SowrFairness == /\ WF_sowrVars(AllocFast) /\ SF_sowrVars(ReadsLast)
                /\ WF_sowrVars(\E k \in SowrBlocks : SowrFree(k))
SowrLiveSpec == SowrSpec /\ SowrFairness

-----------------------------------------------------------------------------
\* muggle_sowr_memory_pool_is_all_free, with the last value of free_idx.
IsAllFree == SowrIdx(free_idx[Len(free_idx)]) = AllocPos

\* The blocks alloc can still hand out without reading free_idx again.
CachedRoom == SowrIdx(cached_free_pos - AllocPos)

SowrTypeOK ==
  /\ alloc_idx \in 0 .. IdxMod - 1
  /\ cached_free_pos \in SowrBlocks
  /\ free_idx \in Seq(0 .. SowrCapacity) /\ Len(free_idx) \in 1 .. MaxLag + 1
  /\ live \in Seq(SowrBlocks)

\* A block that alloc returns is not one of the live ones, whatever old value of
\* free_idx its cache comes from.
SowrNoDoubleOwner == \A i, j \in 1 .. Len(live) : live[i] = live[j] => i = j

\* The cache is never ahead of the frees: handing out all it allows leaves at most
\* SowrCapacity - 1 blocks live.
CacheIsBehind == Len(live) + CachedRoom <= SowrCapacity - 1

\* muggle_sowr_memory_pool_is_all_free, on the last value of free_idx, tells
\* exactly whether a block is live ("return 1 represent all data has been
\* recycled").
AllFreeIsExact == IsAllFree <=> live = <<>>

\* The three, with the types of the fields.
PoolIsSafe == SowrTypeOK /\ SowrNoDoubleOwner /\ CacheIsBehind /\ AllFreeIsExact

\* With all blocks recycled, a thread that keeps trying gets a block.
FreedIsAllocatable == live = <<>> ~> live # <<>>
=============================================================================
