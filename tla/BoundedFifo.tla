---------------------------- MODULE BoundedFifo ----------------------------
(***************************************************************************)
(* What the message-passing components of muggle/c/sync promise: values    *)
(* come out in the order in which they went in, each exactly once, and at  *)
(* most Bound of them are inside.  A consumer may take several at a time.  *)
(***************************************************************************)
EXTENDS Integers, Sequences

CONSTANTS Data, Bound, MaxBatch

VARIABLES accepted, delivered

Init == accepted = <<>> /\ delivered = <<>>

Inside == Len(accepted) - Len(delivered)

Put(d) ==
  /\ Inside < Bound
  /\ accepted' = Append(accepted, d)
  /\ UNCHANGED delivered

Get(n) ==
  /\ n <= Inside
  /\ delivered' = SubSeq(accepted, 1, Len(delivered) + n)
  /\ UNCHANGED accepted

Next ==
  \/ \E d \in Data : Put(d)
  \/ \E n \in 1 .. MaxBatch : Get(n)

Spec == Init /\ [][Next]_<<accepted, delivered>>
=============================================================================
