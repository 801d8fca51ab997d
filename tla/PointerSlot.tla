---------------------------- MODULE PointerSlot ----------------------------
(***************************************************************************)
(* muggle_pointer_slot_t (muggle/c/memory/pointer_slot.c): a table from    *)
(* small indices to pointers.  pp_slots is a ring of the slots to use      *)
(* next; the slots in use form a list between head and tail.               *)
(***************************************************************************)
EXTENDS Integers, Sequences

CONSTANTS
  Allocated,   \* the capacity given to init: the length of slots and pp_slots
  SlotCapacity,    \* pointer_slot->capacity, the next power of two
  IndexMod,    \* number of values of unsigned int
  Data,        \* what may be inserted
  NULL, HeadNode, TailNode

SlotAssumption ==
  /\ Allocated \in Nat \ {0}
  /\ SlotCapacity \in Nat /\ SlotCapacity >= Allocated
  /\ IndexMod \in Nat /\ IndexMod % SlotCapacity = 0 /\ IndexMod > SlotCapacity
  /\ HeadNode # TailNode
  /\ {HeadNode, TailNode} \cap (0 .. Allocated - 1) = {}

VARIABLES
  pp_slots,                   \* ring position -> slot
  alloc_index, free_index,
  prev, next,                 \* links of the slots, of head and of tail
  in_used, slot_data,
  slot_live                        \* history: <<slot, data>> inserted and not removed

list == <<prev, next>>
slotVars == <<pp_slots, alloc_index, free_index, list, in_used, slot_data, slot_live>>

Slots == 0 .. Allocated - 1
SlotNodes == Slots \cup {HeadNode, TailNode}

\* IDX_IN_POW_OF_2_RING(i, pointer_slot->capacity)
SlotIdx(i) == i % SlotCapacity

\* index++
SlotInc(i) == (i + 1) % IndexMod

\* The entry of slot s in slot_live, and slot_live without its k-th entry.
EntryOf(s) == CHOOSE k \in 1 .. Len(slot_live) : slot_live[k][1] = s
Without(k) ==
  SubSeq(slot_live, 1, k - 1) \o SubSeq(slot_live, k + 1, Len(slot_live))

-----------------------------------------------------------------------------
\* muggle_pointer_slot_init
SlotInit ==
  /\ pp_slots = [i \in Slots |-> i]
  /\ alloc_index = 0 /\ free_index = 0
  /\ prev = [n \in SlotNodes |-> IF n = TailNode THEN HeadNode ELSE NULL]
  /\ next = [n \in SlotNodes |-> IF n = HeadNode THEN TailNode ELSE NULL]
  /\ in_used = [s \in Slots |-> 0]
  /\ slot_data = [s \in Slots |-> NULL]
  /\ slot_live = <<>>

\* Mutant: the list is not linked backwards.
InsertHalfLinked(d) ==
  LET s == pp_slots[SlotIdx(alloc_index)] IN
  /\ SlotIdx(alloc_index) \in Slots
  /\ in_used[s] = 0
  /\ prev' = [prev EXCEPT ![s] = prev[TailNode]]
  /\ next' = [next EXCEPT ![s] = TailNode, ![prev[TailNode]] = s]
  /\ slot_data' = [slot_data EXCEPT ![s] = d]
  /\ in_used' = [in_used EXCEPT ![s] = 1]
  /\ alloc_index' = SlotInc(alloc_index)
  /\ slot_live' = Append(slot_live, <<s, d>>)
  /\ UNCHANGED <<pp_slots, free_index>>

\* muggle_pointer_slot_insert; it returns MUGGLE_ERR_MEM_ALLOC, changing nothing,
\* when the next slot of the ring is in use.  Past the arrays nothing is said of it.
Insert(d) ==
  LET s == pp_slots[SlotIdx(alloc_index)] IN
  /\ SlotIdx(alloc_index) \in Slots
  /\ in_used[s] = 0
  /\ prev' = [prev EXCEPT ![s] = prev[TailNode], ![TailNode] = s]
  /\ next' = [next EXCEPT ![s] = TailNode, ![prev[TailNode]] = s]
  /\ slot_data' = [slot_data EXCEPT ![s] = d]
  /\ in_used' = [in_used EXCEPT ![s] = 1]
  /\ alloc_index' = SlotInc(alloc_index)
  /\ slot_live' = Append(slot_live, <<s, d>>)
  /\ UNCHANGED <<pp_slots, free_index>>

\* muggle_pointer_slot_remove; it refuses, changing nothing, an index past the
\* capacity and a slot that is not in use.  (The caller has the indices that
\* insert returned.)
Remove(s) ==
  /\ in_used[s] = 1
  /\ SlotIdx(free_index) \in Slots
  /\ pp_slots' = [pp_slots EXCEPT ![SlotIdx(free_index)] = s]
  /\ next' = [next EXCEPT ![prev[s]] = next[s], ![s] = NULL]
  /\ prev' = [prev EXCEPT ![next[s]] = prev[s], ![s] = NULL]
  /\ in_used' = [in_used EXCEPT ![s] = 0]
  /\ slot_data' = [slot_data EXCEPT ![s] = NULL]
  /\ free_index' = SlotInc(free_index)
  /\ slot_live' = Without(EntryOf(s))
  /\ UNCHANGED alloc_index

\* muggle_pointer_slot_get
Get(s) == IF in_used[s] = 0 THEN NULL ELSE slot_data[s]

SlotNext ==
  \/ \E d \in Data : Insert(d)
  \/ \E s \in Slots : Remove(s)

SlotSpec == SlotInit /\ [][SlotNext]_slotVars

-----------------------------------------------------------------------------
\* The list as it should be: head, the live slots in order of insertion, tail.
Chain == <<HeadNode>> \o [k \in 1 .. Len(slot_live) |-> slot_live[k][1]] \o <<TailNode>>

\* The slots of the ring that are not in use, in the order of their next use.
Unused ==
  [k \in 1 .. SlotCapacity - Len(slot_live) |-> pp_slots[SlotIdx(alloc_index + k - 1)]]

SlotTypeOK ==
  /\ pp_slots \in [Slots -> Slots]
  /\ alloc_index \in 0 .. IndexMod - 1 /\ free_index \in 0 .. IndexMod - 1
  /\ prev \in [SlotNodes -> SlotNodes \cup {NULL}]
  /\ next \in [SlotNodes -> SlotNodes \cup {NULL}]
  /\ in_used \in [Slots -> {0, 1}]
  /\ slot_data \in [Slots -> Data \cup {NULL}]
  /\ slot_live \in Seq(Slots \X Data)

\* Walking from head along next, and from tail along prev, visits the slots in
\* use in the order of their insertion, whatever was removed in between.
ListIsLive ==
  \A k \in 1 .. Len(Chain) - 1 :
    next[Chain[k]] = Chain[k + 1] /\ prev[Chain[k + 1]] = Chain[k]

\* The index that insert returned names its data until it is removed, and a free
\* index names nothing.
GetIsInserted ==
  \A s \in Slots :
    Get(s) = IF \E k \in 1 .. Len(slot_live) : slot_live[k][1] = s
             THEN slot_live[EntryOf(s)][2]
             ELSE NULL

\* insert is refused only when all slots are in use, although it looks at one
\* slot; then assert(alloc_idx == free_idx) holds (pointer_slot.c:83).
RefusedOnlyWhenFull ==
  SlotIdx(alloc_index) \in Slots /\ in_used[pp_slots[SlotIdx(alloc_index)]] = 1 =>
    Len(slot_live) = Allocated /\ SlotIdx(alloc_index) = SlotIdx(free_index)

\* The ring holds each unused slot once.
RingIsUnused ==
  Allocated = SlotCapacity =>
    /\ \A k \in DOMAIN Unused : in_used[Unused[k]] = 0
    /\ \A j, k \in DOMAIN Unused : Unused[j] = Unused[k] => j = k

\* The list holds the slots in use in the order of insertion, both ways, and the ring
\* each unused slot once; an index names its data until removed; insert looks at one
\* slot and yet is refused only when all are in use.
SlotsMatch ==
  SlotTypeOK /\ ListIsLive /\ RingIsUnused /\ GetIsInserted /\ RefusedOnlyWhenFull

\* The entries of pp_slots that the next insert and the next remove use exist.
WithinArrays == SlotIdx(alloc_index) \in Slots /\ SlotIdx(free_index) \in Slots
=============================================================================
