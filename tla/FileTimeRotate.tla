--------------------------- MODULE FileTimeRotate ---------------------------
(***************************************************************************)
(* The file time rotate handler (muggle/c/log/log_file_time_rot_handler.c):*)
(* a message of a later period than the one before makes the handler open  *)
(* a file with a new name.  The body of write runs under the mutex of the  *)
(* handler and is one step; the timestamp of a message is taken before,    *)
(* when log is called, so messages may come out of order.                  *)
(*                                                                         *)
(* The calendar has the code's fields and few units of each; a year is     *)
(* part of tm_mon.  A message is its number.                               *)
(***************************************************************************)
EXTENDS Integers, Sequences, FiniteSets, SequencesExt

CONSTANTS
  Threads,
  SecsPerMin, MinsPerHour, HoursPerDay, DaysPerMonth,
  TimeZone,        \* seconds that local time is ahead
  Settings,        \* what init may be given: [unit, mod, local]
  Stamps,          \* kinds of msg->ts: "now", "zero", "garbage"
  Zeroed,          \* is the memory of the handler zero before init?
  OpenFails,       \* may fopen fail?
  Jumps,           \* by how much the clock moves
  FirstTime, MaxTime,  \* bounds of the clock
  MaxMsgs,         \* bound on the messages
  MaxStarts        \* bound on the starts of the process

TimeAssumption ==
  /\ {SecsPerMin, MinsPerHour, HoursPerDay, DaysPerMonth} \subseteq Nat \ {0}
  /\ {TimeZone, FirstTime, MaxTime} \subseteq Nat /\ MaxMsgs \in Nat /\ MaxStarts \in Nat
  /\ Jumps \subseteq Nat \ {0} /\ {Zeroed, OpenFails} \subseteq BOOLEAN
  /\ \A s \in Settings : /\ s.unit \in {"s", "m", "h", "d"}
                         /\ s.mod \in Nat \ {0} /\ s.local \in BOOLEAN
  /\ Stamps \subseteq {"now", "zero", "garbage"}

Times == FirstTime .. MaxTime
Msgs == 1 .. MaxMsgs

VARIABLES
  clock,
  state,                 \* "down", "up", or "wild" after a wild pointer was used
  set,                   \* rotate_unit, rotate_mod and use_local_time
  last_sec, last_tm,
  fp,                    \* the name of the open file, <<>> for NULL
  files,                 \* the messages in each file
  logged,                \* history: when each message was logged
  pending,               \* of each thread: the message about to be written and its ts
  newest,                \* history: the newest time the handler was told
  starts

handler == <<state, set, last_sec, last_tm, fp>>
vars == <<clock, handler, files, logged, pending, newest, starts>>

NULL == <<>>
None == [msg |-> 0, ts |-> 0]

-----------------------------------------------------------------------------
\* gmtime_r
Gm(t) ==
  LET m == t \div SecsPerMin
      h == m \div MinsPerHour
      d == h \div HoursPerDay
  IN  [sec |-> t % SecsPerMin, min |-> m % MinsPerHour, hour |-> h % HoursPerDay,
       mday |-> (d % DaysPerMonth) + 1, mon |-> d \div DaysPerMonth]

\* gmtime_r or localtime_r
Tm(t, local) == Gm(IF local THEN t + TimeZone ELSE t)

Day(tm) == <<tm.mon, tm.mday>>
Hour(tm) == Append(Day(tm), tm.hour)
Minute(tm) == Append(Hour(tm), tm.min)

\* The suffix of the file for last_tm.
Name(unit, tm) ==
  CASE unit = "s" -> Append(Minute(tm), tm.sec)
    [] unit = "m" -> Minute(tm)
    [] unit = "h" -> Hour(tm)
    [] unit = "d" -> Day(tm)

\* Mutant: only the field of the unit is compared.
NeedRotField(unit, mod, a, b) ==
  CASE unit = "s" -> a.sec \div mod # b.sec \div mod
    [] unit = "m" -> a.min \div mod # b.min \div mod
    [] unit = "h" -> a.hour \div mod # b.hour \div mod
    [] unit = "d" -> a.mday \div mod # b.mday \div mod

\* The comparison of muggle_log_file_time_rot_handler_detect.
NeedRot(unit, mod, a, b) ==
  CASE unit = "s" -> a.sec \div mod # b.sec \div mod \/ Minute(a) # Minute(b)
    [] unit = "m" -> a.min \div mod # b.min \div mod \/ Hour(a) # Hour(b)
    [] unit = "h" -> a.hour \div mod # b.hour \div mod \/ Day(a) # Day(b)
    [] unit = "d" -> a.mday \div mod # b.mday \div mod \/ a.mon # b.mon

\* fopen(name, "ab+")
Open(name, fs) ==
  \/ /\ fp' = name
     /\ files' = IF name \in DOMAIN fs THEN fs
                 ELSE [n \in DOMAIN fs \cup {name} |-> IF n = name THEN <<>> ELSE fs[n]]
  \/ /\ OpenFails
     /\ fp' = NULL
     /\ files' = fs

Init ==
  /\ clock = FirstTime
  /\ state = "down"
  /\ set \in Settings
  /\ last_sec = 0 /\ last_tm = Gm(0)
  /\ fp = NULL
  /\ files = <<>>
  /\ logged = <<>>
  /\ pending = [x \in Threads |-> None]
  /\ newest = 0 /\ starts = 0

\* What a byte of the handler may hold before init: muggle_log_handler_init_default
\* clears no more than the part that all handlers have.
Before == IF Zeroed THEN {FALSE} ELSE BOOLEAN

\* muggle_log_file_time_rot_handler_init.  It converts the time with the
\* use_local_time that was there before, and rotate closes the fp that was there.
Start ==
  /\ state = "down" /\ starts < MaxStarts
  /\ starts' = starts + 1
  /\ \E local, open \in Before :
       /\ last_sec' = clock
       /\ last_tm' = Tm(clock, local)
       /\ Open(Name(set.unit, last_tm'), files)
       /\ state' = IF open THEN "wild" ELSE IF fp' = NULL THEN "down" ELSE "up"
  /\ newest' = clock
  /\ UNCHANGED <<clock, set, logged, pending>>

\* A thread calls log.  The asynchronous logger leaves msg->ts as malloc returned
\* it when no formatter asks for the time; the synchronous one leaves 0.
LogCall(x, stamp) ==
  /\ state = "up" /\ pending[x] = None
  /\ Len(logged) < MaxMsgs
  /\ logged' = Append(logged, clock)
  /\ \E t \in CASE stamp = "now" -> {clock}
                [] stamp = "zero" -> {0}
                [] stamp = "garbage" -> Times :
       pending' = [pending EXCEPT ![x] = [msg |-> Len(logged'), ts |-> t]]
  /\ UNCHANGED <<clock, handler, files, newest, starts>>

\* "if (handler->last_sec >= sec) return false"
IsLate(sec) == last_sec >= sec

\* muggle_log_file_time_rot_handler_write: the message is written, then detect
\* decides, and rotate opens the file of the new last_tm.
Write(x) ==
  LET m == pending[x].msg
      ts == pending[x].ts
      sec == IF ts = 0 THEN clock ELSE ts
      tm == Tm(sec, set.local)
      fs == [files EXCEPT ![fp] = Append(@, m)]
  IN
  /\ state = "up" /\ m # 0 /\ fp # NULL
  /\ IF IsLate(sec) THEN UNCHANGED <<last_sec, last_tm>>
     ELSE last_sec' = sec /\ last_tm' = tm
  /\ IF ~IsLate(sec) /\ NeedRot(set.unit, set.mod, tm, last_tm)
     THEN Open(Name(set.unit, tm), fs)
     ELSE files' = fs /\ UNCHANGED fp
  /\ newest' = IF ts = 0 THEN clock
               ELSE IF logged[m] > newest THEN logged[m] ELSE newest
  /\ pending' = [pending EXCEPT ![x] = None]
  /\ UNCHANGED <<clock, state, set, logged, starts>>

\* The same without a file: the message is dropped.
WriteNoFile(x) ==
  /\ state = "up" /\ pending[x] # None /\ fp = NULL
  /\ pending' = [pending EXCEPT ![x] = None]
  /\ UNCHANGED <<clock, handler, files, logged, newest, starts>>

\* muggle_log_file_time_rot_handler_destroy, or the end of the process.
Stop ==
  /\ state = "up"
  /\ state' = "down"
  /\ fp' = NULL
  /\ pending' = [x \in Threads |-> None]
  /\ UNCHANGED <<clock, set, last_sec, last_tm, files, logged, newest, starts>>

Tick ==
  /\ clock' \in {clock + j : j \in Jumps} \cap Times
  /\ UNCHANGED <<handler, files, logged, pending, newest, starts>>

Next ==
  \/ Start
  \/ Stop
  \/ Tick
  \/ \E x \in Threads : Write(x)
  \/ \E x \in Threads : WriteNoFile(x)
  \/ \E x \in Threads, stamp \in Stamps : LogCall(x, stamp)

Spec == Init /\ [][Next]_vars

-----------------------------------------------------------------------------
\* The period a time belongs to, counted in seconds: its number within the next
\* larger unit, and which one that is.  Days are counted from 1.
Period(t) ==
  LET z == IF set.local THEN t + TimeZone ELSE t
      h == SecsPerMin * MinsPerHour
      d == h * HoursPerDay
      whole == CASE set.unit = "s" -> SecsPerMin [] set.unit = "m" -> h
                 [] set.unit = "h" -> d          [] set.unit = "d" -> d * DaysPerMonth
      part == CASE set.unit = "s" -> 1 [] set.unit = "m" -> SecsPerMin
                [] set.unit = "h" -> h [] set.unit = "d" -> d
      first == IF set.unit = "d" THEN 1 ELSE 0
  IN  <<z \div whole, (((z % whole) \div part) + first) \div set.mod>>

TypeOK ==
  /\ clock \in Times /\ state \in {"down", "up", "wild"} /\ set \in Settings
  /\ last_sec \in 0 .. MaxTime
  /\ last_tm.mday \in 1 .. DaysPerMonth
  /\ fp # NULL => fp \in DOMAIN files
  /\ \A n \in DOMAIN files : Range(files[n]) \subseteq DOMAIN logged
  /\ logged \in Seq(Times) /\ Len(logged) <= MaxMsgs
  /\ \A x \in Threads : pending[x].msg \in 0 .. Len(logged)
  /\ starts \in 0 .. MaxStarts /\ newest \in 0 .. MaxTime

\* "if true, use local time, otherwise use UTC+0" (log_file_time_rot_handler.h:44):
\* the open file is the file of the period of the newest message, or of the start.
OpenIsCurrent ==
  state = "up" /\ fp # NULL =>
    \E t \in Times : /\ Name(set.unit, Tm(t, set.local)) = fp
                     /\ Period(t) = Period(newest)

\* write puts the message before it looks at the time: a file may end with one
\* message of a later period, and has no other.
OnlyLastIsLater ==
  \A n \in DOMAIN files : \A k \in 1 .. Len(files[n]) - 1 :
    \E t \in Times :
      /\ Name(set.unit, Tm(t, set.local)) = n
      /\ LET a == Period(logged[files[n][k]])
             b == Period(t)
         IN  a[1] < b[1] \/ (a[1] = b[1] /\ a[2] <= b[2])

\* A message that comes late (detect: last_sec >= sec) goes to the open file; it
\* does not bring an older file back.
NeverBack ==
  [][fp # NULL /\ fp' \notin {fp, NULL} =>
       \E k \in 1 .. Len(fp) : fp'[k] > fp[k] /\ \A j \in 1 .. k - 1 : fp'[j] = fp[j]]_vars

\* init opens the first file; there is none to close (rotate: "if (handler->fp)").
ClosesOwn == state # "wild"
=============================================================================
