------------------------------- MODULE MCSync -------------------------------
(***************************************************************************)
(* The channel for TLC: with every access to a shared word visible at      *)
(* once, in all its modes, or with stores on their way (ChannelOrder); and *)
(* the progress of the channel and of the queues of MCQueues.  In each     *)
(* behaviour 'part' names the one that is used.                            *)
(***************************************************************************)
EXTENDS Channel, FiniteSets, TLC

CONSTANTS
  OrderCalls,   \* bound on the writes where stores are on their way
  Readers       \* of the ring buffer and the array blocking queue

VARIABLES
  part,
  machine, mem, pending, o_pc, o_data, o_cur, o_rpc, o_pos, o_read, o_calls, o_sent, o_got,
  use, next, cursor, ring_read_cursor, ring_datas, ring_mutex, read_mutex,
  ring_pc, ring_data, idx, ring_rpc, ring_r_pos, ring_w_cursor, ring_calls, msgs,
  published, returned, ring_got,
  datas, take_idx, put_idx, cnt, abq_mutex, abq_pc, abq_data, abq_calls, put, taken,
  buf, front, back, non_blocking, dbl_mutex, dbl_pc, dbl_data, dbl_ret, read, dbl_calls,
  dbl_put, dbl_taken

orderVars == <<machine, mem, pending, o_pc, o_data, o_cur, o_rpc, o_pos, o_read, o_calls,
               o_sent, o_got>>
ringVars == <<use, next, cursor, ring_read_cursor, ring_datas, ring_mutex, read_mutex,
              ring_pc, ring_data, idx, ring_rpc, ring_r_pos, ring_w_cursor, ring_calls,
              msgs, published, returned, ring_got>>
arrayVars == <<datas, take_idx, put_idx, cnt, abq_mutex, abq_pc, abq_data, abq_calls, put,
               taken>>
dblVars == <<buf, front, back, non_blocking, dbl_mutex, dbl_pc, dbl_data, dbl_ret, read,
             dbl_calls, dbl_put, dbl_taken>>
queueVars == <<ringVars, arrayVars, dblVars>>

Order == INSTANCE ChannelOrder WITH
  Reader <- "reader", Machines <- {"strong", "weak"}, MaxCalls <- OrderCalls,
  pc <- o_pc, data <- o_data, cur <- o_cur, rpc <- o_rpc, r_pos <- o_pos,
  r_data <- o_read, calls <- o_calls, sent <- o_sent, got <- o_got

Use(f) == [flags |-> f, calls |-> MaxCalls, lag |-> 1]
Uses == {Use({}), Use({"WRITE_BUSY_LOOP", "MSG_READ_ONCE"})}

Ring == INSTANCE RingBuffer WITH
  RingCapacity <- 2, CursorMod <- 4, read_cursor <- ring_read_cursor,
  write_mutex <- ring_mutex, rpc <- ring_rpc, r_pos <- ring_r_pos,
  w_cursor <- ring_w_cursor, got <- ring_got

Array == INSTANCE ArrayBlockingQueue WITH
  Producers <- Writers, Consumers <- Readers, Capacity <- 1, mutex <- abq_mutex,
  pc <- abq_pc, data <- abq_data, calls <- abq_calls

Double == INSTANCE DoubleBuffer WITH
  DblWriters <- Writers, DblCapacity <- 1, DblMaxCalls <- MaxCalls, ret <- dbl_ret

AllInit ==
  /\ Init /\ Order!Init /\ Ring!RingInit /\ Array!Init /\ Double!DblInit
  /\ part # "order" => machine = "strong"
  /\ part # "channel" => fn_write = "futex" /\ fn_read = "futex"
  /\ part # "ring" => use = Use({})
  /\ ~non_blocking

ChanStep == part = "channel" /\ Next /\ UNCHANGED <<part, orderVars, queueVars>>
OrderStep == part = "order" /\ Order!Next /\ UNCHANGED <<part, vars, queueVars>>
RingStep ==
  part = "ring" /\ Ring!RingNext /\ UNCHANGED <<part, vars, orderVars, arrayVars, dblVars>>
ArrayStep ==
  part = "array" /\ Array!Next /\ UNCHANGED <<part, vars, orderVars, ringVars, dblVars>>
DoubleStep ==
  part = "double" /\ Double!DblNext /\ UNCHANGED <<part, vars, orderVars, ringVars, arrayVars>>

PartsInit == part \in {"channel", "order"} /\ AllInit

PartsSpec ==
  /\ PartsInit
  /\ [][ChanStep \/ OrderStep]_<<part, vars, orderVars, queueVars>>

Symmetry == Permutations(Writers)

-----------------------------------------------------------------------------
\* The fairness of the components: a thread inside a function goes on, and a thread that
\* waits for a mutex which is free again and again gets it.  ('part' does not change, so
\* one condition states this of the threads of two components.)
ArrayLock(t) == part = "array" /\ Array!Lock(t) /\ UNCHANGED <<ringVars, dblVars>>
DoubleLock(t) == part = "double" /\ Double!DblLock(t) /\ UNCHANGED <<ringVars, arrayVars>>
PartsFairness ==
  /\ \A w \in Writers :
       /\ WF_vars(part = "channel" /\ WriterStep(w))
       /\ WF_ringVars(part = "ring" /\ Ring!WriterStep(w))
       /\ WF_arrayVars(part = "array" /\ Array!ProducerStep(w))
       /\ WF_dblVars(part = "double" /\ Double!DblWriterStep(w))
  /\ WF_vars(part = "channel" /\ ReaderStep)
  /\ WF_dblVars(part = "double" /\ Double!DblReaderStep)
  /\ \A r \in Readers :
       /\ WF_ringVars(part = "ring" /\ Ring!ReaderStep(r))
       /\ WF_arrayVars(part = "array" /\ Array!ConsumerStep(r))
  /\ \A t \in Writers \cup Readers : WF_arrayVars(part = "array" /\ Array!Unlock(t))
  /\ \A t \in Double!DblThreads : WF_dblVars(part = "double" /\ Double!DblUnlock(t))
  /\ \A w \in Writers : SF_queueVars(ArrayLock(w) \/ DoubleLock(w))
  /\ \A r \in Readers : SF_queueVars(ArrayLock(r) \/ DoubleLock(Double!Reader))

LiveInit == part \in {"channel", "ring", "array", "double"} /\ AllInit

LiveSpec ==
  /\ LiveInit
  /\ [][ChanStep \/ RingStep \/ ArrayStep \/ DoubleStep]_<<
       part, vars, orderVars, queueVars>>
  /\ PartsFairness

-----------------------------------------------------------------------------
\* With stores that others see later than they were executed, the reader still gets what
\* was sent in its order and no sleeper is forgotten: on a machine that keeps the order of
\* stores, and with one writer at a time on one that does not.
StoresMayLag == Order!ReadsWhatWasStored /\ Order!SleepersAreWoken

\* Every write to a channel and to a ring buffer, every put and every write to a
\* double buffer returns: no writer stays asleep on a futex or a condition, waits
\* for ever for the writers of the positions before its own, or for the one writer
\* of several that a swap wakes.
CallsReturn ==
  WritesReturn /\ Ring!WritesReturn /\ Array!PutsReturn /\ Double!DblWritesReturn

\* What a write or put has accepted is read, on a ring buffer by every reader (under
\* the read lock by one): no reader sleeps through the wake-up meant for it.
WrittenIsRead ==
  AcceptedIsRead /\ Ring!PublishedIsRead /\ Array!PutIsTaken /\ Double!DblPutIsTaken
=============================================================================
