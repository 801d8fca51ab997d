----------------------------- MODULE FileRotate -----------------------------
(***************************************************************************)
(* The file rotate handler (muggle/c/log/log_file_rotate_handler.c): lines *)
(* are appended to a file that, when it has max_bytes, becomes backup 1,   *)
(* while backup i becomes i + 1 and the last one is removed.  Every call   *)
(* to the file system is a step, between which the process may crash and   *)
(* be started again.                                                       *)
(*                                                                         *)
(* File 0 is filepath, file i is "filepath.i".  A line is its number.      *)
(***************************************************************************)
EXTENDS Integers, Sequences, FiniteSets, SequencesExt

CONSTANTS
  Threads,        \* the threads that write
  backup_count, max_bytes,
  Sizes,          \* the sizes of lines
  OpenFails,      \* may fopen fail while rotating?
  MaxLines,       \* bound on the lines
  MaxCrashes      \* bound on the crashes

RotateAssumption ==
  /\ backup_count \in Nat /\ max_bytes \in Nat
  /\ Sizes \subseteq Nat \ {0}
  /\ OpenFails \in BOOLEAN
  /\ MaxLines \in Nat /\ MaxCrashes \in Nat

Lines == 1 .. MaxLines

VARIABLES
  files,          \* the lines of each file that exists
  fp, offset,     \* of the handler; fp: is file 0 open?
  mtx,            \* {} or the owner of the handler's mutex
  state,          \* "down", "up", or "init" while the handler is initialised
  pc, line, k,    \* of each thread; k counts down in rotate
  size,           \* history: the size of each line
  calls, crashes,
  written, acked  \* history: lines in the order written; lines whose write has
                  \* returned a number of bytes

locals == <<pc, line, k>>
history == <<size, calls, crashes, written, acked>>
vars == <<files, fp, offset, mtx, state, locals, history>>

Goto(x, l) == pc' = [pc EXCEPT ![x] = l]
SizeOf(s) == FoldSeq(LAMBDA n, t : size[n] + t, 0, s)

Init ==
  /\ files = <<>>
  /\ fp = FALSE /\ offset = 0
  /\ mtx = {}
  /\ state = "down"
  /\ pc = [x \in Threads |-> "idle"]
  /\ line = [x \in Threads |-> 0]
  /\ k = [x \in Threads |-> 0]
  /\ size = [n \in Lines |-> 0]
  /\ calls = 0 /\ crashes = 0
  /\ written = <<>> /\ acked = {}

-----------------------------------------------------------------------------
\* fopen(name, "ab+")
Opened == IF 0 \in DOMAIN files THEN files ELSE [n \in DOMAIN files \cup {0} |->
                                                  IF n = 0 THEN <<>> ELSE files[n]]

\* muggle_os_rename: it replaces dst, and does nothing when there is no src.
Renamed(src, dst) ==
  IF src \notin DOMAIN files THEN files
  ELSE [n \in (DOMAIN files \ {src}) \cup {dst} |->
          IF n = dst THEN files[src] ELSE files[n]]

\* muggle_log_file_rotate_handler_init.  If fopen fails the handler cannot be used.
Start(x) ==
  /\ state = "down"
  /\ files' = Opened
  /\ fp' = TRUE
  /\ offset' = SizeOf(Opened[0])
  /\ \/ offset' >= max_bytes /\ state' = "init" /\ Goto(x, "close")
     \/ offset' < max_bytes /\ state' = "up" /\ UNCHANGED pc
  /\ UNCHANGED <<mtx, line, k, history>>

\* muggle_log_file_rotate_handler_write with a line of s bytes.
WriteCall(x, s) ==
  /\ state = "up" /\ pc[x] = "idle"
  /\ calls < MaxLines
  /\ calls' = calls + 1
  /\ size' = [size EXCEPT ![calls + 1] = s]
  /\ line' = [line EXCEPT ![x] = calls + 1]
  /\ Goto(x, "lock")
  /\ UNCHANGED <<files, fp, offset, mtx, state, k, crashes, written, acked>>

Lock(x) ==
  /\ pc[x] = "lock"
  /\ mtx = {}
  /\ mtx' = {x}
  /\ Goto(x, "fwrite")
  /\ UNCHANGED <<files, fp, offset, state, line, k, history>>

\* fwrite and fflush, and the test whether to rotate.
Fwrite(x) ==
  /\ pc[x] = "fwrite" /\ fp
  /\ files' = [files EXCEPT ![0] = Append(@, line[x])]
  /\ written' = Append(written, line[x])
  /\ offset' = offset + size[line[x]]
  /\ Goto(x, IF offset' >= max_bytes THEN "close" ELSE "unlock")
  /\ UNCHANGED <<fp, mtx, state, line, k, size, calls, crashes, acked>>

\* Without an open file nothing is written, and ret is the length of the line.
NoFile(x) ==
  /\ pc[x] = "fwrite" /\ ~fp
  /\ Goto(x, "unlock")
  /\ UNCHANGED <<files, fp, offset, mtx, state, line, k, history>>

Unlock(x) ==
  /\ pc[x] = "unlock"
  /\ mtx' = {}
  /\ acked' = acked \cup {line[x]}
  /\ Goto(x, "idle")
  /\ UNCHANGED <<files, fp, offset, state, line, k, size, calls, crashes, written>>

-----------------------------------------------------------------------------
\* muggle_log_file_rotate_handler_rotate: fclose,
Close(x) ==
  /\ pc[x] = "close"
  /\ fp' = FALSE
  /\ Goto(x, "remove")
  /\ UNCHANGED <<files, offset, mtx, state, line, k, history>>

\* Mutant: when the last backup exists, the first one is removed.
RemoveNewest(x) ==
  /\ pc[x] = "remove"
  /\ files' = IF backup_count \in DOMAIN files
              THEN [n \in DOMAIN files \ {1} |-> files[n]] ELSE files
  /\ k' = [k EXCEPT ![x] = backup_count - 1]
  /\ Goto(x, "shift")
  /\ UNCHANGED <<fp, offset, mtx, state, line, history>>

\* the last backup is removed,
RemoveOldest(x) ==
  /\ pc[x] = "remove"
  /\ files' = [n \in DOMAIN files \ ({backup_count} \ {0}) |-> files[n]]
  /\ k' = [k EXCEPT ![x] = backup_count - 1]
  /\ Goto(x, "shift")
  /\ UNCHANGED <<fp, offset, mtx, state, line, history>>

\* the others are renamed, from the last to the first,
Shift(x) ==
  /\ pc[x] = "shift" /\ k[x] > 0
  /\ files' = Renamed(k[x], k[x] + 1)
  /\ k' = [k EXCEPT ![x] = @ - 1]
  /\ UNCHANGED <<fp, offset, mtx, state, pc, line, history>>

\* then the file itself,
Backup(x) ==
  /\ pc[x] = "shift" /\ k[x] <= 0
  /\ files' = Renamed(0, 1)
  /\ Goto(x, "open")
  /\ UNCHANGED <<fp, offset, mtx, state, line, k, history>>

\* and a new one is opened.  Neither caller does more than print if that fails.
Open(x) ==
  /\ pc[x] = "open"
  /\ \/ files' = Opened /\ fp' = TRUE /\ offset' = 0
     \/ OpenFails /\ UNCHANGED <<files, fp, offset>>
  /\ IF state = "init" THEN state' = "up" /\ Goto(x, "idle")
                       ELSE Goto(x, "unlock") /\ UNCHANGED state
  /\ UNCHANGED <<mtx, line, k, history>>

\* The process is gone, at any time; the files stay.
Crash ==
  /\ state # "down" /\ crashes < MaxCrashes
  /\ crashes' = crashes + 1
  /\ state' = "down"
  /\ fp' = FALSE /\ offset' = 0 /\ mtx' = {}
  /\ pc' = [x \in Threads |-> "idle"]
  /\ line' = [x \in Threads |-> 0]
  /\ k' = [x \in Threads |-> 0]
  /\ UNCHANGED <<files, size, calls, written, acked>>

Rotate(x) == Close(x) \/ RemoveOldest(x) \/ Shift(x) \/ Backup(x) \/ Open(x)

Next ==
  \/ Crash
  \/ \E x \in Threads :
       \/ Start(x)
       \/ \E s \in Sizes : WriteCall(x, s)
       \/ Lock(x) \/ Fwrite(x) \/ NoFile(x) \/ Unlock(x)
       \/ Rotate(x)

Spec == Init /\ [][Next]_vars

-----------------------------------------------------------------------------
\* The lines that are left, from the oldest file to the newest.
Kept ==
  LET f(n) == IF n \in DOMAIN files THEN files[n] ELSE <<>>
      c[n \in Nat] == IF n = 0 THEN f(0) ELSE f(n) \o c[n - 1]
  IN  c[backup_count + 1]

\* No rotation is going on.
Resting == \A x \in Threads : pc[x] \in {"idle", "lock", "fwrite", "unlock"}

TypeOK ==
  /\ DOMAIN files \subseteq 0 .. backup_count + 1
  /\ \A n \in DOMAIN files : files[n] \in Seq(Lines)
  /\ fp \in BOOLEAN /\ offset \in Nat
  /\ mtx \subseteq Threads /\ Cardinality(mtx) <= 1
  /\ state \in {"down", "init", "up"}
  /\ pc \in [Threads -> {"idle", "lock", "fwrite", "unlock", "close", "remove",
                         "shift", "open"}]
  /\ line \in [Threads -> 0 .. MaxLines]
  /\ k \in [Threads -> -1 .. backup_count - 1]
  /\ calls \in 0 .. MaxLines /\ crashes \in 0 .. MaxCrashes

\* What is left is the newest part of what was written, in order and without a
\* gap: also in the middle of a rotation, and after one that a crash cut short.
KeptIsNewest ==
  Kept = SubSeq(written, Len(written) - Len(Kept) + 1, Len(written))

\* A file that has reached max_bytes gets no further line, over restarts too.
FilesBounded ==
  \A n \in DOMAIN files : files[n] # <<>> => SizeOf(Front(files[n])) < max_bytes

\* "max backup file count" (log_file_rotate_handler.h:39)
BackupsBounded == Cardinality(DOMAIN files \ {0}) <= backup_count

\* Without crashes lines are given up only when all the backups exist.
BackupsUsed ==
  crashes = 0 /\ Resting /\ Kept # written => 1 .. backup_count \subseteq DOMAIN files

\* "on success, return number of bytes be writed - otherwise return negative
\* number" (log_file_rotate_handler.c:64): a line whose write has returned a number
\* of bytes has been written, also when another thread was rotating.
AckedIsWritten == acked \subseteq Range(written)
=============================================================================
