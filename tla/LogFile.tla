------------------------------- MODULE LogFile -------------------------------
(***************************************************************************)
(* The file handler (muggle/c/log/log_file_handler.c) and the way all file *)
(* handlers come to their file: a relative path is taken from the working  *)
(* directory, its directories are made by muggle_os_mkdir, and the file is *)
(* opened for appending.  Several processes do so in the same file system, *)
(* where every system call is a step, while a thread of each may change    *)
(* the working directory and other programs make and remove things.        *)
(*                                                                         *)
(* A path is the sequence of its components from the root, <<>>.           *)
(***************************************************************************)
EXTENDS Integers, Sequences, SequencesExt, FiniteSets

CONSTANTS
  Procs,            \* the processes, each with one handler
  Names,            \* [abs, comps]: the file paths handlers are given
  Start,            \* the working directory at the start
  Places,           \* the paths other programs, and chdir, use
  MaxDepth,         \* the components that fit in MUGGLE_MAX_PATH
  MaxFaults,        \* bound on failing calls and on what other programs do
  MaxLogs           \* bound on the lines of each process

VARIABLES
  dirs, files,      \* the directories, and the lines of each file
  cwd,              \* of each process
  pc, name, path, i,    \* of each call: the path given, log_path, and mkdir's place
  ret,              \* what init returned
  fp,               \* the file that is open, <<>> if none
  mtx,              \* is the handler's mutex initialised?
  began,            \* history: where the file should be
  logged,           \* history: the lines written
  faults

hvars == <<name, path, i, ret, fp, mtx, began, logged>>
vars == <<dirs, files, cwd, pc, hvars, faults>>

Goto(p, l) == pc' = [pc EXCEPT ![p] = l]
Set(f, p, v) == [f EXCEPT ![p] = v]
Exists(x) == x \in dirs \/ x \in DOMAIN files

Init ==
  /\ dirs = {SubSeq(Start, 1, n) : n \in 0 .. Len(Start)}
  /\ files = <<>>
  /\ cwd = [p \in Procs |-> Start]
  /\ pc = [p \in Procs |-> "idle"]
  /\ name = [p \in Procs |-> [abs |-> FALSE, comps |-> <<>>]]
  /\ path = [p \in Procs |-> <<>>] /\ i = [p \in Procs |-> 0]
  /\ ret = [p \in Procs |-> "none"]
  /\ fp = [p \in Procs |-> <<>>] /\ mtx = [p \in Procs |-> FALSE]
  /\ began = [p \in Procs |-> <<>>]
  /\ logged = [p \in Procs |-> <<>>]
  /\ faults = 0

-----------------------------------------------------------------------------
\* An init that failed: the mutex stays as it is, and what was made stays made.
Fail(p) ==
  /\ ret' = Set(ret, p, "failed")
  /\ Goto(p, "idle")

\* A system call fails for a reason outside the model (no space, no permission).
Fault == faults < MaxFaults /\ faults' = faults + 1

\* muggle_log_handler_init_default, and the choice of the path.
InitCall(p, n) ==
  /\ pc[p] = "idle" /\ ~mtx[p]
  /\ name' = Set(name, p, n)
  /\ mtx' = Set(mtx, p, TRUE)
  /\ path' = Set(path, p, IF n.abs THEN n.comps ELSE <<>>)
  /\ began' = Set(began, p, IF n.abs THEN n.comps ELSE <<>>)
  /\ Goto(p, IF n.abs THEN "fopen" ELSE "curdir")
  /\ UNCHANGED <<dirs, files, cwd, i, ret, fp, logged, faults>>
InitNoMutex(p) ==
  /\ pc[p] = "idle" /\ ~mtx[p]
  /\ Fault /\ Fail(p)
  /\ UNCHANGED <<dirs, files, cwd, name, path, i, fp, mtx, began, logged>>

\* muggle_os_curdir, which fails in a directory that is gone, and muggle_path_join.
Curdir(p) ==
  /\ pc[p] = "curdir"
  /\ path' = Set(path, p, cwd[p] \o name[p].comps)
  /\ began' = Set(began, p, path'[p])
  /\ IF cwd[p] \in dirs /\ Len(path'[p]) <= MaxDepth
     THEN Goto(p, "exists") /\ UNCHANGED ret
     ELSE Fail(p)
  /\ UNCHANGED <<dirs, files, cwd, name, i, fp, mtx, logged, faults>>

\* muggle_path_dirname and muggle_path_exists
DirExists(p) ==
  /\ pc[p] = "exists"
  /\ i' = Set(i, p, 1)
  /\ Goto(p, IF Exists(Front(path[p])) THEN "fopen" ELSE "mkdir")
  /\ UNCHANGED <<dirs, files, cwd, name, path, ret, fp, mtx, began, logged, faults>>

\* Mutant: a directory that is there already is an error.
MkdirStrict(p) ==
  LET d == SubSeq(path[p], 1, i[p])
  IN  /\ pc[p] = "mkdir"
      /\ \/ /\ ~Exists(d) /\ Front(d) \in dirs
            /\ dirs' = dirs \cup {d}
            /\ i' = Set(i, p, i[p] + 1)
            /\ Goto(p, IF i'[p] < Len(path[p]) THEN "mkdir" ELSE "fopen")
            /\ UNCHANGED <<ret, faults>>
         \/ /\ \/ Exists(d) \/ Front(d) \notin dirs
            /\ Fail(p)
            /\ UNCHANGED <<dirs, i, faults>>
         \/ Fault /\ Fail(p) /\ UNCHANGED <<dirs, i>>
      /\ UNCHANGED <<files, cwd, name, path, fp, mtx, began, logged>>

\* muggle_os_mkdir: one directory after the other, from the root.  What exists is
\* taken for a directory.
Mkdir(p) ==
  LET d == SubSeq(path[p], 1, i[p])
  IN  /\ pc[p] = "mkdir"
      /\ \/ /\ Exists(d) \/ Front(d) \in dirs
            /\ dirs' = IF Exists(d) THEN dirs ELSE dirs \cup {d}
            /\ i' = Set(i, p, i[p] + 1)
            /\ Goto(p, IF i'[p] < Len(path[p]) THEN "mkdir" ELSE "fopen")
            /\ UNCHANGED <<ret, faults>>
         \/ /\ ~Exists(d) /\ Front(d) \notin dirs
            /\ Fail(p)
            /\ UNCHANGED <<dirs, i, faults>>
         \/ Fault /\ Fail(p) /\ UNCHANGED <<dirs, i>>
      /\ UNCHANGED <<files, cwd, name, path, fp, mtx, began, logged>>

\* fopen(f, "a")
OpenAt(p, f) ==
  /\ pc[p] = "fopen"
  /\ \/ /\ Front(f) \in dirs /\ f \notin dirs
        /\ files' = IF f \in DOMAIN files THEN files
                    ELSE [x \in DOMAIN files \cup {f} |-> IF x = f THEN <<>> ELSE files[x]]
        /\ fp' = Set(fp, p, f)
        /\ ret' = Set(ret, p, "OK")
        /\ Goto(p, "open")
        /\ UNCHANGED faults
     \/ /\ Front(f) \notin dirs \/ f \in dirs
        /\ Fail(p)
        /\ UNCHANGED <<files, fp, faults>>
     \/ Fault /\ Fail(p) /\ UNCHANGED <<files, fp>>
  /\ UNCHANGED <<dirs, cwd, name, path, i, mtx, began, logged>>

\* Mutant: the path is opened as it was given.
FopenGiven(p) == OpenAt(p, IF name[p].abs THEN path[p] ELSE cwd[p] \o name[p].comps)

Fopen(p) == OpenAt(p, path[p])

-----------------------------------------------------------------------------
\* Mutant: the line goes where the stream stands, and not to the end.
WriteOver(p) ==
  /\ pc[p] = "open" /\ Len(logged[p]) < MaxLogs
  /\ LET n == Len(logged[p]) + 1
     IN  /\ logged' = Set(logged, p, Append(logged[p], n))
         /\ files' = [files EXCEPT ![fp[p]] = Append(SubSeq(@, 1, n - 1), <<p, n>>)]
  /\ UNCHANGED <<dirs, cwd, pc, name, path, i, ret, fp, mtx, began, faults>>

\* muggle_log_file_handler_write: fwrite and fflush, under the mutex.
Write(p) ==
  /\ pc[p] = "open" /\ Len(logged[p]) < MaxLogs
  /\ LET n == Len(logged[p]) + 1
     IN  /\ logged' = Set(logged, p, Append(logged[p], n))
         /\ files' = [files EXCEPT ![fp[p]] = Append(@, <<p, n>>)]
  /\ UNCHANGED <<dirs, cwd, pc, name, path, i, ret, fp, mtx, began, faults>>

\* muggle_log_file_handler_destroy
Destroy(p) ==
  /\ pc[p] = "open"
  /\ fp' = Set(fp, p, <<>>)
  /\ mtx' = Set(mtx, p, FALSE)
  /\ Goto(p, "closed")
  /\ UNCHANGED <<dirs, files, cwd, name, path, i, ret, began, logged, faults>>

\* muggle_os_chdir by another thread of the process.
Chdir(p, d) ==
  /\ d \in dirs
  /\ cwd' = Set(cwd, p, d)
  /\ UNCHANGED <<dirs, files, pc, hvars, faults>>

\* Another program makes a directory or a file, or removes an empty directory.
Other(d) ==
  /\ Fault
  /\ \/ /\ ~Exists(d) /\ Front(d) \in dirs
        /\ \/ dirs' = dirs \cup {d} /\ UNCHANGED files
           \/ files' = [x \in DOMAIN files \cup {d} |-> IF x = d THEN <<>> ELSE files[x]]
              /\ UNCHANGED dirs
     \/ /\ d \in dirs
        /\ \A x \in dirs \cup DOMAIN files : x # <<>> => Front(x) # d
        /\ dirs' = dirs \ {d}
        /\ UNCHANGED files
  /\ UNCHANGED <<cwd, pc, hvars>>

Handle(p) ==
  \/ \E n \in Names : InitCall(p, n)
  \/ InitNoMutex(p) \/ Curdir(p) \/ DirExists(p) \/ Mkdir(p) \/ Fopen(p)
  \/ Write(p) \/ Destroy(p)

Next ==
  \/ \E p \in Procs : Handle(p) \/ \E d \in Places : Chdir(p, d)
  \/ \E d \in Places : Other(d)

Spec == Init /\ [][Next]_vars

-----------------------------------------------------------------------------
\* The call cannot succeed: the path is too long, its directory is not made because
\* the path is absolute, or a handler's file is where it needs a directory, or the
\* other way round.
Hopeless(p) ==
  \/ Len(began[p]) > MaxDepth
  \/ name[p].abs
  \/ began[p] \in dirs
  \/ \E n \in 1 .. Len(began[p]) - 1 : SubSeq(began[p], 1, n) \in DOMAIN files

\* Handlers whose processes start together and make the same directories do not hinder
\* each other: when no call fails for a reason from outside and no other program
\* interferes, init of a relative path succeeds if it can.
StartsUnhindered ==
  \A p \in Procs : faults = 0 /\ ret[p] = "failed" => Hopeless(p)

\* The file of a handler is the one its path named when init read the working
\* directory, whatever chdir did since; it is in a directory, and has every line the
\* handler wrote, in order, also when other processes write to it.
LinesAreThere ==
  \A p \in Procs :
    /\ pc[p] = "open" => fp[p] = began[p] /\ Front(fp[p]) \in dirs /\ mtx[p]
    /\ ret[p] = "OK" =>
         LET own == SelectSeq(files[began[p]], LAMBDA l : l[1] = p)
         IN  [n \in 1 .. Len(own) |-> own[n][2]] = logged[p]
=============================================================================
