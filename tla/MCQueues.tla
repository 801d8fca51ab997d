------------------------------ MODULE MCQueues ------------------------------
(***************************************************************************)
(* The queues of muggle/c/sync for TLC, side by side: in each behaviour    *)
(* 'part' names the one that is used, in one of its modes, and the others  *)
(* stay as they were initialised.  The properties are those of the three   *)
(* modules.                                                                *)
(***************************************************************************)
EXTENDS ArrayBlockingQueue, DoubleBuffer, RingBuffer, TLC

CONSTANT RingCalls    \* bound on the writes to the ring buffer

VARIABLE part

allVars == <<part, vars, ringVars, dblVars>>

Use(f, n, l) == [flags |-> f, calls |-> n, lag |-> l]

\* Every write mode with every read mode that two readers may use, the readers
\* never lapped; one writer and one reader round the cursors' wrap; and writers
\* that lap a reader.
RingUses ==
  {Use({}, RingCalls, 1),
   Use({"WRITE_BUSY_LOOP", "MSG_READ_ONCE"}, RingCalls, 1),
   Use({"SINGLE_WRITER", "SINGLE_READER"}, 3 * RingCalls, 1),
   Use({"WRITE_BUSY_LOOP", "READ_BUSY_LOOP", "SINGLE_READER"}, RingCalls, RingCalls),
   Use({"SINGLE_WRITER", "READ_BUSY_LOOP"}, RingCalls, RingCalls)}

ASSUME QueuesAssumption == RingAssumption /\ DoubleAssumption

PartsInit ==
  /\ part \in {"array", "ring", "double"}
  /\ Init /\ RingInit /\ DblInit
  /\ part # "ring" => use = Use({}, RingCalls, 1)
  /\ part # "double" => ~non_blocking

ArrayStep == part = "array" /\ Next /\ UNCHANGED <<part, ringVars, dblVars>>
RingStep == part = "ring" /\ RingNext /\ UNCHANGED <<part, vars, dblVars>>
DoubleStep == part = "double" /\ DblNext /\ UNCHANGED <<part, vars, ringVars>>

PartsSpec == PartsInit /\ [][ArrayStep \/ RingStep \/ DoubleStep]_allVars

\* The writers of the double buffer are the producers, the writers of the ring
\* buffer the consumers: fewer permutations to try.
Symmetry ==
  UNION {Permutations(S) : S \in {Producers, Consumers, Readers}}
=============================================================================
