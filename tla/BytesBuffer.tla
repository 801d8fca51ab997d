----------------------------- MODULE BytesBuffer -----------------------------
(***************************************************************************)
(* muggle_bytes_buffer_t (muggle/c/memory/bytes_buffer.c): a ring of c     *)
(* bytes whose writer may jump back to the start before the end of the     *)
(* buffer, leaving a truncate position t for the reader.  It is used by    *)
(* one thread.                                                             *)
(*                                                                         *)
(* The k-th byte ever written has the value k modulo ByteMod, so that the  *)
(* bytes in the buffer at one time are told apart.                         *)
(***************************************************************************)
EXTENDS Integers, Sequences

CONSTANTS
  c,            \* capacity
  ByteMod,      \* number of byte values, more than c
  MaxWrite,     \* largest num_bytes of a write
  Readers,      \* the calls used to read: a subset of {"read", "fc"}
  PartialMove   \* may writer_move be called with less than writer_fc was?

BufferAssumption ==
  /\ c \in Nat \ {0, 1}
  /\ ByteMod \in Nat /\ ByteMod > c
  /\ MaxWrite \in Nat
  /\ Readers \subseteq {"read", "fc"}
  /\ PartialMove \in BOOLEAN

VARIABLES
  w, r, t,
  buffer,
  written,   \* the value of the next byte to write
  content    \* history: the bytes written and not yet read

vars == <<w, r, t, buffer, written, content>>

Bytes == 0 .. ByteMod - 1

\* The next n bytes to write.
Source(n) == [k \in 1 .. n |-> (written + k - 1) % ByteMod]

\* The buffer after memcpy(buffer + p, src, Len(src)), and the bytes of
\* memcpy(dst, buffer + p, n).
Copied(buf, p, src) ==
  [i \in 0 .. c - 1 |-> IF i \in p .. p + Len(src) - 1 THEN src[i - p + 1]
                        ELSE buf[i]]
BytesAt(p, n) == [k \in 1 .. n |-> buffer[p + k - 1]]

-----------------------------------------------------------------------------
\* muggle_bytes_buffer_contiguous_writable
Cw == IF w >= r THEN (IF r # 0 THEN c - w ELSE c - w - 1) ELSE r - w - 1

\* muggle_bytes_buffer_jump_writable
Jw == IF w >= r /\ r # 0 THEN r - 1 ELSE 0

\* muggle_bytes_buffer_contiguous_readable
Cr == IF w >= r THEN w - r ELSE t - r

\* muggle_bytes_buffer_jump_readable
Jr == IF w >= r THEN 0 ELSE w

writable == Cw + Jw
readable == Cr + Jr

\* muggle_bytes_buffer_init
Init ==
  /\ w = 0 /\ r = 0 /\ t = c
  /\ buffer = [i \in 0 .. c - 1 |-> 0]
  /\ written = 0
  /\ content = <<>>

\* The writer moves n bytes forward.
Forward(n) ==
  /\ w' = IF w + n = c THEN 0 ELSE w + n
  /\ t' = IF t < w + n THEN c ELSE t


\* The writer jumps to the start.
Jump(n) == t' = w /\ w' = n

\* n bytes have been handed to the buffer.
Handed(n) ==
  /\ written' = (written + n) % ByteMod
  /\ content' = content \o Source(n)

\* muggle_bytes_buffer_write; it returns false when the bytes do not fit.
Write(n) ==
  /\ \/ /\ Cw >= n
        /\ buffer' = Copied(buffer, w, Source(n))
        /\ Forward(n)
     \/ /\ Cw < n /\ Cw + Jw >= n /\ Jw >= n
        /\ buffer' = Copied(buffer, 0, Source(n))
        /\ Jump(n)
     \/ /\ Cw < n /\ Cw + Jw >= n /\ Jw < n
        /\ buffer' = Copied(Copied(buffer, w, SubSeq(Source(n), 1, Cw)), 0,
                            SubSeq(Source(n), Cw + 1, n))
        /\ t' = c
        /\ w' = n - Cw
  /\ Handed(n)
  /\ UNCHANGED r

\* muggle_bytes_buffer_writer_fc(n): the place found, if any.
WriterFc(n) == IF Cw >= n THEN {w} ELSE IF Jw >= n THEN {0} ELSE {}

\* A caller of writer_fc(n) stores m bytes at the place it got and calls
\* muggle_bytes_buffer_writer_move(m).
FcWrite(n, m) ==
  /\ m = n \/ PartialMove
  /\ \E p \in WriterFc(n) : buffer' = Copied(buffer, p, Source(m))
  /\ \/ Cw >= m /\ Forward(m)
     \/ Cw < m /\ Jw >= m /\ Jump(m)
  /\ Handed(m)
  /\ UNCHANGED r

\* muggle_bytes_buffer_fetch(n): the bytes it copies, when it returns true.
Fetched(n) ==
  IF Cr >= n THEN BytesAt(r, n) ELSE BytesAt(r, Cr) \o BytesAt(0, n - Cr)

\* muggle_bytes_buffer_refresh after the read position has become p.
Refresh(p) ==
  IF w = p THEN w' = 0 /\ r' = 0 /\ t' = c ELSE r' = p /\ UNCHANGED <<w, t>>

\* n bytes have been taken: first those the buffer shows although they have been
\* read before, if there are any.
Taken(n) ==
  LET again == readable - Len(content) IN
  content' = SubSeq(content, (IF n > again THEN n - again ELSE 0) + 1, Len(content))

\* muggle_bytes_buffer_read
Read(n) ==
  /\ readable >= n
  /\ Refresh(IF Cr >= n THEN (IF r + n = t THEN 0 ELSE r + n) ELSE n - Cr)
  /\ Taken(n)
  /\ UNCHANGED <<buffer, written>>

\* A caller of reader_fc(n) uses the bytes at r and calls
\* muggle_bytes_buffer_reader_move(n).
FcRead(n) ==
  /\ Cr >= n
  /\ Refresh(r + n)
  /\ Taken(n)
  /\ UNCHANGED <<buffer, written>>

\* muggle_bytes_buffer_clear
Clear ==
  /\ w' = 0 /\ r' = 0 /\ t' = c
  /\ content' = <<>>
  /\ UNCHANGED <<buffer, written>>

Next ==
  \/ \E n \in 1 .. MaxWrite : Write(n)
  \/ \E n \in 1 .. MaxWrite, m \in 1 .. MaxWrite : m <= n /\ FcWrite(n, m)
  \/ "read" \in Readers /\ \E n \in 1 .. c - 1 : Read(n)
  \/ "fc" \in Readers /\ \E n \in 1 .. c - 1 : FcRead(n)
  \/ Clear

Spec == Init /\ [][Next]_vars

-----------------------------------------------------------------------------
\* The bytes the buffer offers for reading.
Shown == Fetched(readable)

TypeOK ==
  /\ w \in 0 .. c - 1 /\ r \in 0 .. c /\ t \in 1 .. c
  /\ r <= t
  /\ buffer \in [0 .. c - 1 -> Bytes]
  /\ written \in Bytes
  /\ content \in Seq(Bytes) /\ Len(content) < c

\* No byte is lost or overwritten before it is read, however writes of different
\* sizes, jumps and reads follow each other: the bytes shown end with the bytes
\* written and not yet read.
NothingLost ==
  LET again == readable - Len(content) IN
  again >= 0 /\ SubSeq(Shown, again + 1, readable) = content

\* No byte is shown again once it has been read.
NothingRepeated == readable = Len(content)

\* A reader that uses reader_fc and reader_move only gets on: while bytes are left
\* unread, some are contiguous.
ReaderGetsOn == content # <<>> => Cr > 0
=============================================================================
