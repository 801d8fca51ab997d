-------------------------------- MODULE MCLog --------------------------------
(***************************************************************************)
(* The loggers and the file handlers of muggle/c/log for TLC.  In each     *)
(* behaviour 'part' names the one that is used.                            *)
(***************************************************************************)
EXTENDS Logger, TLC

CONSTANTS MaxLines, MaxCrashes, FirstTime, MaxTime, MaxStarts

VARIABLES
  part,
  files, fp, offset, rot_mtx, state, rot_pc, line, k, size, rot_calls, crashes,
  rot_written, acked,
  clock, tr_state, set, last_sec, last_tm, tr_fp, tr_files, logged, pending,
  newest, starts,
  dirs, lf_files, cwd, lf_pc, name, path, lf_i, ret, lf_fp, lf_mtx, began, lf_logged, faults

rotVars == <<files, fp, offset, rot_mtx, state, rot_pc, line, k, size, rot_calls,
             crashes, rot_written, acked>>
timeVars == <<clock, tr_state, set, last_sec, last_tm, tr_fp, tr_files, logged,
              pending, newest, starts>>
fileVars == <<dirs, lf_files, cwd, lf_pc, name, path, lf_i, ret, lf_fp, lf_mtx, began,
              lf_logged, faults>>

Rotate == INSTANCE FileRotate WITH
  Threads <- Loggers, backup_count <- 2, max_bytes <- 2, Sizes <- {1, 2},
  OpenFails <- FALSE, mtx <- rot_mtx, pc <- rot_pc, calls <- rot_calls,
  written <- rot_written

RotateFails == INSTANCE FileRotate WITH
  Threads <- Loggers, backup_count <- 2, max_bytes <- 2, Sizes <- {1, 2},
  OpenFails <- TRUE, mtx <- rot_mtx, pc <- rot_pc, calls <- rot_calls,
  written <- rot_written

\* A minute has 3 seconds, an hour 2 minutes, a day 2 hours, a month 2 days.
Utc == [unit : {"s", "m", "h", "d"}, mod : {1, 2}, local : {FALSE}]
TimeRotate == INSTANCE FileTimeRotate WITH
  Threads <- Loggers, SecsPerMin <- 3, MinsPerHour <- 2, HoursPerDay <- 2,
  DaysPerMonth <- 2, TimeZone <- 6, Settings <- Utc, Stamps <- {"now", "zero"},
  Zeroed <- TRUE, OpenFails <- TRUE, Jumps <- {1, 3}, MaxMsgs <- 2,
  state <- tr_state, fp <- tr_fp, files <- tr_files

\* Two processes whose files are one, or the one's file the other's directory; an
\* absolute path among them.
OneFile == INSTANCE LogFile WITH
  Procs <- Loggers,
  Names <- {[abs |-> FALSE, comps |-> <<"log", "d", "x">>],
            [abs |-> FALSE, comps |-> <<"log">>],
            [abs |-> TRUE, comps |-> <<"w", "log", "x">>]},
  Start <- <<"w">>, Places <- {<<"w">>, <<"w", "log">>}, MaxDepth <- 5, MaxFaults <- 2,
  MaxLogs <- 2, files <- lf_files, pc <- lf_pc, i <- lf_i, fp <- lf_fp, mtx <- lf_mtx,
  logged <- lf_logged

ASSUME Rotate!RotateAssumption /\ TimeRotate!TimeAssumption

PartsInit ==
  /\ part \in {"logger", "rotate", "rotate fails", "time rotate", "file"}
  /\ Init /\ Rotate!Init /\ TimeRotate!Init /\ OneFile!Init
  /\ part = "logger" \/ (~async /\ wanted = [h \in Handlers |-> FATAL])
  /\ part = "time rotate" \/ set = [unit |-> "s", mod |-> 1, local |-> FALSE]

LoggerStep == part = "logger" /\ Next /\ UNCHANGED <<part, rotVars, timeVars, fileVars>>
RotateStep ==
  /\ \/ part = "rotate" /\ Rotate!Next
     \/ part = "rotate fails" /\ RotateFails!Next
  /\ UNCHANGED <<part, vars, timeVars, fileVars>>
TimeRotateStep ==
  part = "time rotate" /\ TimeRotate!Next /\ UNCHANGED <<part, vars, rotVars, fileVars>>
FileStep == part = "file" /\ OneFile!Next /\ UNCHANGED <<part, vars, rotVars, timeVars>>

PartsSpec ==
  PartsInit /\ [][LoggerStep \/ RotateStep \/ TimeRotateStep \/ FileStep]_<<
                    part, vars, rotVars, timeVars, fileVars>>

Symmetry == Permutations(Loggers)

-----------------------------------------------------------------------------
\* File rotate handler: what is left is the newest part of what was written, in
\* order and without a gap, also after a rotation that a crash cut short; a full
\* file gets no further line, over restarts too; there are at most "max backup file
\* count" backups (log_file_rotate_handler.h:39), and lines are given up only when
\* all of them exist; a line whose write returned a number of bytes is written.
RotationKeeps ==
  /\ Rotate!TypeOK
  /\ Rotate!KeptIsNewest /\ Rotate!FilesBounded
  /\ Rotate!BackupsBounded /\ Rotate!BackupsUsed
  /\ part = "rotate" => Rotate!AckedIsWritten

\* File time rotate handler: the open file is that of the period of the newest
\* message, or of the start; only the last message of a file may be of a later
\* period; and a late message brings no older file back.
FilesFollowTime ==
  /\ [](TimeRotate!TypeOK /\ TimeRotate!OpenIsCurrent /\ TimeRotate!OnlyLastIsLater)
  /\ TimeRotate!NeverBack

=============================================================================
