----------------------------- MODULE MemoryPool -----------------------------
(***************************************************************************)
(* muggle_memory_pool_t (muggle/c/memory/memory_pool.c): a pool for one    *)
(* thread, whose ring of block pointers grows.  Blocks are numbered in the *)
(* order in which their buffers were allocated: a growth from capacity m   *)
(* to n adds the blocks m .. n-1.                                          *)
(***************************************************************************)
EXTENDS Integers, Sequences

CONSTANTS
  InitCapacity,  \* init_capacity, 0 replaced by 8
  MaxCapacity,   \* malloc fails for a larger capacity
  UIntMod,       \* number of values of unsigned int
  GrowEmpty      \* is ensure_space also called when no block is in use?

PoolAssumption ==
  /\ InitCapacity \in Nat \ {0}
  /\ MaxCapacity \in Nat /\ MaxCapacity >= InitCapacity
  /\ UIntMod \in Nat /\ UIntMod > MaxCapacity
  /\ GrowEmpty \in BOOLEAN

VARIABLES
  memory_pool_ptr_buf,     \* sequence of blocks; index i of the code is i + 1
  mp_alloc_index, mp_free_index,
  used,
  constant_size,           \* flag MUGGLE_MEMORY_POOL_CONSTANT_SIZE
  owners                   \* history: how many callers own the block

pool == <<memory_pool_ptr_buf, mp_alloc_index, mp_free_index, used>>
mpVars == <<pool, constant_size, owners>>

Blocks == 0 .. MaxCapacity - 1
mp_capacity == Len(memory_pool_ptr_buf)

\* The n pointers from index i on.
Section(buf, i, n) == SubSeq(buf, i + 1, i + n)

\* The blocks m .. n-1 of a new data buffer.
NewSection(m, n) == [i \in 1 .. n - m |-> m + i - 1]

\* if (++index == pool->capacity) index = 0
MpStep(i, cap) == IF i + 1 = cap THEN 0 ELSE i + 1

-----------------------------------------------------------------------------
\* muggle_memory_pool_init
MpInit ==
  /\ memory_pool_ptr_buf = NewSection(0, InitCapacity)
  /\ mp_alloc_index = 0 /\ mp_free_index = 0 /\ used = 0
  /\ constant_size = FALSE
  /\ owners = [b \in Blocks |-> 0]

\* The slots of the blocks in use ("free section"), from free_index on.
FreeSection ==
  LET buf == memory_pool_ptr_buf IN
  IF used # mp_capacity /\ mp_alloc_index > mp_free_index
  THEN Section(buf, mp_free_index, mp_alloc_index - mp_free_index)
  ELSE Section(buf, mp_free_index, mp_capacity - mp_free_index)
       \o Section(buf, 0, IF used = mp_capacity THEN mp_free_index ELSE mp_alloc_index)

\* Mutant: the two parts of the available blocks are copied the other way round.
AllocSectionSwapped ==
  LET buf == memory_pool_ptr_buf IN
  CASE used = mp_capacity -> <<>>
    [] used # mp_capacity /\ mp_alloc_index > mp_free_index ->
         Section(buf, 0, mp_free_index)
         \o Section(buf, mp_alloc_index, mp_capacity - mp_alloc_index)
    [] OTHER -> Section(buf, mp_alloc_index, mp_free_index - mp_alloc_index)

\* The available blocks ("alloc section"), from alloc_index on.
AllocSection ==
  LET buf == memory_pool_ptr_buf IN
  CASE used = mp_capacity -> <<>>
    [] used # mp_capacity /\ mp_alloc_index > mp_free_index ->
         Section(buf, mp_alloc_index, mp_capacity - mp_alloc_index)
         \o Section(buf, 0, mp_free_index)
    [] OTHER -> Section(buf, mp_alloc_index, mp_free_index - mp_alloc_index)

\* What muggle_memory_pool_ensure_space(pool, c) makes of the ring and the two
\* indices, when it allocates.
Grown(c) ==
  [buf   |-> FreeSection \o (AllocSection \o NewSection(mp_capacity, c)),
   alloc |-> Len(FreeSection),
   free  |-> 0]

Same == [buf |-> memory_pool_ptr_buf, alloc |-> mp_alloc_index, free |-> mp_free_index]

\* The results of muggle_memory_pool_ensure_space(pool, c): a ring, or none when
\* it returns false.
EnsureSpace(c) ==
  IF c <= mp_capacity THEN {Same}
  ELSE IF constant_size \/ c > MaxCapacity THEN {} ELSE {Grown(c)}

\* Mutant: a full pool is not grown.
AllocFromFull == {Same}

\* The rings muggle_memory_pool_alloc may take a block from.
AllocFrom ==
  IF used = mp_capacity THEN EnsureSpace((mp_capacity * 2) % UIntMod) ELSE {Same}

\* muggle_memory_pool_alloc; it returns NULL, changing nothing, when the pool
\* cannot grow.
Alloc ==
  \E r \in AllocFrom :
    /\ used' = used + 1
    /\ owners' = [owners EXCEPT ![r.buf[r.alloc + 1]] = @ + 1]
    /\ memory_pool_ptr_buf' = r.buf
    /\ mp_alloc_index' = MpStep(r.alloc, Len(r.buf))
    /\ mp_free_index' = r.free
    /\ UNCHANGED constant_size

\* muggle_memory_pool_free(pool, b), called by an owner of b.
Free(b) ==
  /\ owners[b] > 0
  /\ memory_pool_ptr_buf' = [memory_pool_ptr_buf EXCEPT ![mp_free_index + 1] = b]
  /\ mp_free_index' = MpStep(mp_free_index, mp_capacity)
  /\ used' = used - 1
  /\ owners' = [owners EXCEPT ![b] = @ - 1]
  /\ UNCHANGED <<mp_alloc_index, constant_size>>

\* muggle_memory_pool_ensure_space called by the owner of the pool.
Reserve(c) ==
  /\ used > 0 \/ GrowEmpty
  /\ \E r \in EnsureSpace(c) :
       /\ memory_pool_ptr_buf' = r.buf
       /\ mp_alloc_index' = r.alloc
       /\ mp_free_index' = r.free
  /\ UNCHANGED <<used, constant_size, owners>>

\* muggle_memory_pool_set_flag
SetFlag(f) == constant_size' = f /\ UNCHANGED <<pool, owners>>

MpNext ==
  \/ Alloc
  \/ \E b \in Blocks : Free(b)
  \/ \E c \in 1 .. MaxCapacity : Reserve(c)
  \/ \E f \in BOOLEAN : SetFlag(f)

MpSpec == MpInit /\ [][MpNext]_mpVars

-----------------------------------------------------------------------------
\* The blocks that alloc will return next, in this order.
MpAvail ==
  [k \in 1 .. mp_capacity - used |->
     memory_pool_ptr_buf[((mp_alloc_index + k - 1) % mp_capacity) + 1]]

MpTypeOK ==
  /\ memory_pool_ptr_buf \in Seq(Blocks)
  /\ mp_capacity \in InitCapacity .. MaxCapacity
  /\ mp_alloc_index \in 0 .. mp_capacity - 1 /\ mp_free_index \in 0 .. mp_capacity - 1
  /\ used \in 0 .. mp_capacity
  /\ constant_size \in BOOLEAN
  /\ owners \in [Blocks -> Nat]

\* No block is handed out while somebody owns it, however the calls of alloc,
\* free and ensure_space follow each other.
NoDoubleOwner == \A b \in Blocks : owners[b] <= 1

\* A block of the pool has an owner or is available, once: growing the ring loses
\* and repeats none.
Conserved ==
  \A b \in 0 .. mp_capacity - 1 :
    LET places == {k \in 1 .. Len(MpAvail) : MpAvail[k] = b}
    IN  \/ owners[b] = 1 /\ places = {}
        \/ owners[b] = 0 /\ \E k \in places : places = {k}

\* assert(pool->alloc_index == pool->free_index) when every block is in use
\* (memory_pool.c:168).
AssertAligned == used = mp_capacity => mp_alloc_index = mp_free_index

\* A step takes the oldest available block, appends one, or neither; a growth of the
\* ring keeps the order and appends the new blocks.
QueueStep ==
  LET grown == MpAvail \o NewSection(mp_capacity, mp_capacity') IN
  \/ MpAvail' = grown
  \/ grown # <<>> /\ MpAvail' = Tail(grown)
  \/ \E b \in Blocks : MpAvail' = Append(grown, b)

\* The available blocks are a queue between alloc and free.
AvailIsQueue == [][QueueStep]_mpVars

\* Every block is owned or available, once, also across a growth, and the available
\* blocks are a queue.
PoolKeeps == [](MpTypeOK /\ NoDoubleOwner /\ Conserved) /\ AvailIsQueue
=============================================================================
