-------------------------------- MODULE Text --------------------------------
(***************************************************************************)
(* The string functions of muggle/c/base/str.c and the path functions of   *)
(* muggle/c/os/path.c.  A string is a sequence of characters without the   *)
(* final '\0', and positions count from 0 as in the code.  For the         *)
(* conversions a text is what strtol and its like find in it: a number, or *)
(* none, at the front, and the rest behind it.  The buffer a path is       *)
(* written to is a function from positions, which goes on behind the size  *)
(* the caller states, so that a write past the end can be seen.            *)
(***************************************************************************)
EXTENDS Integers, Sequences, SequencesExt

CONSTANTS
  NULL,
  Texts, Subs,       \* the strings searched and the strings searched for
  Bounds,            \* the values of start and end
  Values, Rests,     \* the numbers texts begin with, and what follows them
  INT_MAX, LONG_MAX, LLONG_MAX,   \* 2^31 - 1 and more in the code
  Paths,             \* the paths of the calls
  Heads, Tails,      \* the paths that are joined
  Sizes,             \* the sizes of the caller's buffer
  CurDir,            \* the working directory
  MUGGLE_MAX_PATH    \* 1024 in the code

VARIABLES query, answer   \* a call, and what it returned

vars == <<query, answer>>

BLANK == " "
FOREVER == -2      \* the answer of a call that does not return

-----------------------------------------------------------------------------
(***************************************************************************)
(* Searching.                                                              *)
(***************************************************************************)
\* Is sub in s at position i?
Matches(s, i, sub) == i + Len(sub) <= Len(s) /\ SubSeq(s, i + 1, i + Len(sub)) = sub

\* strstr(s + pos, sub), as a position in s; -1 for NULL.
strstr(s, pos, sub) ==
  LET found == {i \in pos .. Len(s) : Matches(s, i, sub)}
  IN  IF found = {} THEN -1 ELSE Min(found)

isspace(c) == c = BLANK

StartsWith(str, prefix) ==
  /\ str # NULL /\ prefix # NULL
  /\ Len(str) >= Len(prefix)
  /\ \A i \in 1 .. Len(prefix) : str[i] = prefix[i]
  /\ ~(Len(str) # 0 /\ Len(prefix) = 0)

EndsWith(str, suffix) ==
  /\ str # NULL /\ suffix # NULL
  /\ Len(str) >= Len(suffix)
  /\ \A i \in 0 .. Len(suffix) - 1 : str[Len(str) - i] = suffix[Len(suffix) - i]
  /\ ~(Len(str) # 0 /\ Len(suffix) = 0)

\* Where the search ends, 0 standing for the end of the string.
End(str, end) == IF end = 0 \/ end > Len(str) THEN Len(str) ELSE end

\* The tests of count and find before they search.
Searches(str, sub, start, end) ==
  /\ str # NULL /\ sub # NULL
  /\ start >= 0 /\ end >= 0
  /\ start < Len(str)
  /\ End(str, end) > start

\* Mutant: the last occurrence may reach past the end.
CountPast(str, sub, start, end) ==
  LET from[pos \in 0 .. Len(str)] ==
        LET at == strstr(str, pos, sub)
        IN  IF at = -1 \/ at >= End(str, end) THEN 0
            ELSE 1 + (IF at + Len(sub) >= End(str, end) THEN 0 ELSE from[at + Len(sub)])
  IN  IF ~Searches(str, sub, start, end) THEN 0
      ELSE IF sub = <<>> THEN FOREVER ELSE from[start]

\* The loop goes on behind each occurrence; behind an empty one that is the same place.
Count(str, sub, start, end) ==
  LET from[pos \in 0 .. Len(str)] ==
        LET at == strstr(str, pos, sub)
        IN  IF at = -1 \/ at + Len(sub) > End(str, end) THEN 0
            ELSE 1 + (IF at + Len(sub) >= End(str, end) THEN 0 ELSE from[at + Len(sub)])
  IN  IF ~Searches(str, sub, start, end) THEN 0
      ELSE IF sub = <<>> THEN FOREVER ELSE from[start]

Find(str, sub, start, end) ==
  IF ~Searches(str, sub, start, end) THEN -1
  ELSE LET pos == strstr(str, start, sub)
       IN  IF pos = -1 \/ pos + Len(sub) > End(str, end) THEN -1 ELSE pos

\* The positions of a string without a blank.
Solid(str) == {i \in 0 .. Len(str) - 1 : ~isspace(str[i + 1])}

\* The loop tests the '\0' of an empty string.
LstripIdx(str) ==
  IF str = NULL THEN -1
  ELSE IF str = <<>> THEN 0 ELSE IF Solid(str) = {} THEN -1 ELSE Min(Solid(str))

\* The loop reads the byte before an empty string, and answers -1 whatever it is.
RstripIdx(str) ==
  IF str = NULL THEN -1 ELSE IF Solid(str) = {} THEN -1 ELSE Max(Solid(str))

-----------------------------------------------------------------------------
(***************************************************************************)
(* Conversions.  t.value is the number at the front of text t, NULL when   *)
(* there is none, and t.rest what endptr points at.                        *)
(***************************************************************************)
FAILED == [ok |-> FALSE, val |-> 0]
Is(v) == [ok |-> TRUE, val |-> v]

\* An integer as a signed and as an unsigned word of the size of max.
Signed(v, max) == ((v + max + 1) % (2 * max + 2)) - (max + 1)
Unsigned(v, max) == v % (2 * max + 2)

\* strtol and strtoul: the value returned, the limit when it is out of range (ERANGE).
strtol(v, max) == IF v > max THEN max ELSE IF v < -max - 1 THEN -max - 1 ELSE v
erange(v, max) == v > max \/ v < -max - 1
strtoul(v, max) ==
  IF v > 2 * max + 1 \/ -v > 2 * max + 1 THEN 2 * max + 1 ELSE Unsigned(v, max)

\* endptr is not the start, and only blanks follow.
OneWord(t) == t.value # NULL /\ (t.rest = <<>> \/ LstripIdx(t.rest) = -1)

\* Mutant: the number may be followed by anything.
ToiLoose(t) ==
  IF t.value = NULL \/ erange(t.value, INT_MAX) THEN FAILED ELSE Is(Signed(t.value, INT_MAX))

\* The tests of the range are reached only when nothing follows the number.
Toi(t) ==
  LET ret == strtol(t.value, LONG_MAX)
  IN  IF ~OneWord(t) THEN FAILED
      ELSE IF t.rest = <<>> /\ (erange(t.value, LONG_MAX) \/ erange(ret, INT_MAX)) THEN FAILED
      ELSE Is(Signed(ret, INT_MAX))

Tou(t) ==
  LET ret == strtoul(t.value, LONG_MAX)
  IN  IF ~OneWord(t) \/ ret = 2 * LONG_MAX + 1 THEN FAILED ELSE Is(Unsigned(ret, INT_MAX))

Tol(t) ==
  LET ret == strtol(t.value, LONG_MAX)
  IN  IF ~OneWord(t) \/ ret \in {LONG_MAX, -LONG_MAX - 1, LLONG_MAX, -LLONG_MAX - 1}
      THEN FAILED ELSE Is(ret)

Toul(t) ==
  LET ret == strtoul(t.value, LONG_MAX)
  IN  IF ~OneWord(t) \/ ret \in {2 * LONG_MAX + 1, 2 * LLONG_MAX + 1} THEN FAILED ELSE Is(ret)

Toll(t) ==
  LET ret == strtol(t.value, LLONG_MAX)
  IN  IF ~OneWord(t) \/ ret \in {LLONG_MAX, -LLONG_MAX - 1} THEN FAILED ELSE Is(ret)

Toull(t) ==
  LET ret == strtoul(t.value, LLONG_MAX)
  IN  IF ~OneWord(t) \/ ret = 2 * LLONG_MAX + 1 THEN FAILED ELSE Is(ret)

\* What strtof and its like make of a number: one too large becomes an infinity.
Reals == {"finite", "inf", "-inf", "too large", "-too large"}
strtod(v) == CASE v = "too large" -> "inf" [] v = "-too large" -> "-inf" [] OTHER -> v

\* HUGE_VAL is the positive infinity only.
Tof(t) == IF ~OneWord(t) \/ strtod(t.value) = "inf" THEN FAILED ELSE Is(strtod(t.value))

Tod(t) ==
  IF ~OneWord(t) \/ (t.rest = <<>> /\ t.value = "too large") THEN FAILED
  ELSE Is(strtod(t.value))

Told(t) ==
  IF ~OneWord(t) \/ (t.rest = <<>> /\ t.value = "too large") THEN FAILED
  ELSE Is(strtod(t.value))

-----------------------------------------------------------------------------
(***************************************************************************)
(* Paths.                                                                  *)
(***************************************************************************)
NUL == "nul"
UNSET == "?"              \* what is in the buffer before the call
Letters == {"a", "b", "w"}
Seps == {"/", "\\"}

At(path, i) == IF i < Len(path) THEN path[i + 1] ELSE NUL     \* path[i]
RECURSIVE Upto(_, _)
\* The length of the string in a buffer of n bytes; n when it has no end.
Upto(buf, n) ==
  IF n = 0 THEN 0 ELSE LET k == Upto(buf, n - 1)
                       IN  IF k < n - 1 \/ buf[n - 1] = NUL THEN k ELSE n
String(buf, n) == [i \in 1 .. Upto(buf, n) |-> buf[i - 1]]

\* The buffers have as many bytes as a call can name, and two more.
Top == Max({MUGGLE_MAX_PATH} \cup Sizes) + 1
Blank == [i \in 0 .. Top |-> UNSET]
Put(buf, i, c) == [buf EXCEPT ![i] = c]
\* strncpy(buf + at, s, n): the bytes behind the end of s are '\0'.
strncpy(buf, at, s, n) ==
  [i \in DOMAIN buf |-> IF i >= at /\ i - at < n THEN At(s, i - at) ELSE buf[i]]

Refused(buf) == [err |-> "INVALID_PARAM", buf |-> buf]
Done(buf) == [err |-> "OK", buf |-> buf]

\* The position of the last separator before position n, or -1.
LastSep(path, n) == Max({-1} \cup {i \in 0 .. n - 1 : At(path, i) \in Seps})

-----------------------------------------------------------------------------
IsAbs(path) ==
  \/ Len(path) > 1 /\ path[1] = "/"
  \/ Len(path) > 2 /\ path[1] \in Letters /\ path[2] = ":" /\ path[3] \in Seps

Basename(path, size) ==
  LET pos == LastSep(path, Len(path))
      rest == Len(path) - 1 - pos
      len == IF rest >= size THEN size - 1 ELSE rest
  IN  IF size <= 1 \/ path = <<>> THEN Refused(Blank)
      ELSE IF pos < 0 THEN IF Len(path) > size - 1 THEN Refused(Blank)
                           ELSE Done(strncpy(Blank, 0, path, size - 1))
      ELSE IF rest <= 0 THEN Refused(Blank)
      ELSE Done(Put(strncpy(Blank, 0, SubSeq(path, pos + 2, pos + 1 + len), len), len, NUL))


\* "/" and "c:/" keep their separator.
Dirname(path, size) ==
  LET sep == LastSep(path, Len(path))
      root == IF sep = 0 THEN 1 ELSE sep
      pos == IF root - 1 > 0 /\ At(path, root - 1) = ":" THEN root + 1 ELSE root
  IN  IF size <= 1 \/ path = <<>> \/ sep < 0 \/ pos >= size THEN Refused(Blank)
      ELSE Done(Put(strncpy(Blank, 0, path, pos), pos, NUL))

\* Mutant: the last byte is not kept free for the '\0'.
JoinTight(path1, path2, size) ==
  LET ends == At(path1, Len(path1) - 1) \in Seps
      len1 == IF ends THEN Len(path1) ELSE Len(path1) + 1
      p == IF path2[1] = "/" THEN Tail(path2) ELSE path2
      ret == strncpy(Blank, 0, path1 \o (IF ends THEN <<>> ELSE <<"/">>) \o p, len1 + Len(p))
  IN  IF path1 = <<>> \/ path2 = <<>> \/ p = <<>> \/ len1 + Len(p) > size THEN Refused(Blank)
      ELSE Done(Put(ret, len1 + Len(p), NUL))

\* max_len is an unsigned int: with size 0 it has no limit.  A path1 of max_len bytes
\* leaves ret without an end, but then every branch ends in an error.
Join(path1, path2, size) ==
  LET max_len == IF size = 0 THEN Top + 1 ELSE size - 1
      ret == strncpy(Blank, 0, path1, max_len)
      ends == At(path1, Len(path1) - 1) \in Seps
      len1 == IF ends THEN Len(path1) ELSE Len(path1) + 1
      joined == IF ends THEN ret ELSE Put(ret, Len(path1), "/")
      p == IF path2[1] = "/" THEN Tail(path2) ELSE path2
  IN  IF max_len = 0 \/ path1 = <<>> \/ path2 = <<>> \/ Len(path1) > max_len
      THEN Refused(Blank)
      ELSE IF p = <<>> \/ len1 + Len(p) > max_len THEN Refused(joined)
      ELSE Done(Put(strncpy(joined, len1, p, Len(p)), len1 + Len(p), NUL))

-----------------------------------------------------------------------------
(***************************************************************************)
(* muggle_path_normpath copies path to ret and takes back the last         *)
(* component for a "..".  In s, cursor and pos are the code's.             *)
(***************************************************************************)
IsUp(s) == /\ s.pos >= 3 /\ s.buf[s.pos - 3] = "." /\ s.buf[s.pos - 2] = "."
           /\ s.buf[s.pos - 1] \in Seps

\* "..", and what follows it, is copied: at the end of path that is the '\0'.
KeepUp(path, s) ==
  [cursor |-> s.cursor + 2, pos |-> s.pos + 3,
   buf |-> Put(Put(Put(s.buf, s.pos, "."), s.pos + 1, "."), s.pos + 2, At(path, s.cursor + 2))]

\* Mutant: the component is taken back, and the separator before it too.
TakeBackAll(s) ==
  LET i == Max({-1} \cup {j \in 0 .. s.pos - 2 : s.buf[j] \in Seps})
  IN  [s EXCEPT !.cursor = @ + 2, !.pos = IF i < 0 THEN 0 ELSE i]

TakeBack(s) ==
  LET i == Max({-1} \cup {j \in 0 .. s.pos - 2 : s.buf[j] \in Seps})
  IN  [s EXCEPT !.cursor = @ + 2, !.pos = i + 1]

Advance(path, s) == IF At(path, s.cursor) # NUL THEN [s EXCEPT !.cursor = @ + 1] ELSE s

RECURSIVE NormLoop(_, _)
NormLoop(path, s) ==
  LET c(i) == At(path, s.cursor + i)
  IN  IF c(0) = NUL THEN s
      ELSE IF ~(c(0) = "." /\ c(1) = ".")
           THEN NormLoop(path, [cursor |-> s.cursor + 1, pos |-> s.pos + 1,
                                buf |-> Put(s.buf, s.pos, c(0))])
      ELSE IF c(2) \notin Seps \cup {NUL} THEN s
      ELSE IF s.pos = 0 \/ IsUp(s) THEN NormLoop(path, Advance(path, KeepUp(path, s)))
      ELSE IF s.buf[s.pos - 1] \notin Seps \/ s.pos < 2 THEN s
      ELSE NormLoop(path, Advance(path, TakeBack(s)))

\* The loop ends at the '\0', or with an error before it.
Normpath(path, size) ==
  LET dot == ~IsAbs(path) /\ Len(path) >= 2 /\ path[1] = "." /\ path[2] \in Seps
      s == NormLoop(path, [cursor |-> IF dot THEN 2 ELSE 0, pos |-> 0, buf |-> Blank])
  IN  IF Len(path) >= size THEN Refused(Blank)
      ELSE IF At(path, s.cursor) # NUL THEN Refused(s.buf)
      ELSE IF s.pos > 0 THEN Done(Put(s.buf, s.pos, NUL))
      ELSE IF size <= 2 THEN Refused(s.buf)
      ELSE Done(Put(Put(Put(s.buf, 0, "."), 1, "/"), 2, NUL))

\* muggle_os_curdir
Curdir(size) == IF Len(CurDir) < size THEN "OK" ELSE "SYS_CALL"

Abspath(path, size) ==
  LET full == Join(CurDir, path, MUGGLE_MAX_PATH)
  IN  IF size <= 1 THEN Refused(Blank)
      ELSE IF IsAbs(path) THEN IF Len(path) > size - 1 THEN Refused(Blank)
                               ELSE Done(strncpy(Blank, 0, path, size - 1))
      ELSE IF Curdir(MUGGLE_MAX_PATH) # "OK"
           THEN [err |-> Curdir(MUGGLE_MAX_PATH), buf |-> Blank]
      ELSE IF full.err # "OK" THEN Refused(Blank)
      ELSE Normpath(String(full.buf, MUGGLE_MAX_PATH), size)

-----------------------------------------------------------------------------
Integral == {"toi", "tou", "tol", "toul", "toll", "toull"}
Floating == {"tof", "tod", "told"}

Searching ==
  [fn : {"startswith", "endswith"}, str : Texts, sub : Subs]
    \cup [fn : {"count", "find"}, str : Texts, sub : Subs, start : Bounds, end : Bounds]
    \cup [fn : {"lstrip", "rstrip"}, str : Texts]
Converting ==
  [fn : Integral, value : Values \cup {NULL}, rest : Rests]
    \cup [fn : Floating, value : Reals, rest : Rests]

Pathwise == {"abspath", "basename", "dirname", "normpath", "join"}
PathCalls ==
  [fn : Pathwise \ {"join"}, path : Paths, size : Sizes]
    \cup [fn : {"join"}, path : Heads, path2 : Tails, size : Sizes]

Answer(q) ==
  CASE q.fn = "startswith" -> StartsWith(q.str, q.sub)
    [] q.fn = "endswith" -> EndsWith(q.str, q.sub)
    [] q.fn = "count" -> Count(q.str, q.sub, q.start, q.end)
    [] q.fn = "find" -> Find(q.str, q.sub, q.start, q.end)
    [] q.fn = "lstrip" -> LstripIdx(q.str)
    [] q.fn = "rstrip" -> RstripIdx(q.str)
    [] q.fn = "toi" -> Toi(q)
    [] q.fn = "tou" -> Tou(q)
    [] q.fn = "tol" -> Tol(q)
    [] q.fn = "toul" -> Toul(q)
    [] q.fn = "toll" -> Toll(q)
    [] q.fn = "toull" -> Toull(q)
    [] q.fn = "tof" -> Tof(q)
    [] q.fn = "tod" -> Tod(q)
    [] q.fn = "told" -> Told(q)
    [] q.fn = "abspath" -> Abspath(q.path, q.size)
    [] q.fn = "basename" -> Basename(q.path, q.size)
    [] q.fn = "dirname" -> Dirname(q.path, q.size)
    [] q.fn = "normpath" -> Normpath(q.path, q.size)
    [] q.fn = "join" -> Join(q.path, q.path2, q.size)

Init == query \in Searching \cup Converting \cup PathCalls /\ answer = NULL
Next == answer = NULL /\ answer' = Answer(query) /\ UNCHANGED query
Spec == Init /\ [][Next]_vars

-----------------------------------------------------------------------------
\* The positions in start .. end at which the string searched for lies whole.
Occurrences(q) ==
  {i \in q.start .. End(q.str, q.end) :
     i >= 0 /\ Matches(SubSeq(q.str, 1, End(q.str, q.end)), i, q.sub)}

\* Sets of occurrences that do not overlap.
Apart(q) ==
  {S \in SUBSET Occurrences(q) : \A i, j \in S : i < j => i + Len(q.sub) <= j}

\* muggle_str_count: the greedy loop counts as many occurrences as fit without
\* overlapping between start and end, none of which reaches past the end.
\* muggle_str_find: the lowest of them, or -1.  Prefix and suffix tests agree with
\* concatenation (an empty one is found in an empty string only), and the strip
\* functions cut off nothing but blanks and all of them.
SearchesRight ==
  LET q == query
      given == answer # NULL /\ q.str # NULL /\ (q.fn \notin {"lstrip", "rstrip"} => q.sub # NULL)
      inside == q.start \in 0 .. Len(q.str) - 1 /\ q.end >= 0
  IN  q \in Searching => 
      /\ q.fn = "startswith" /\ given => 
           (answer <=> /\ \E i \in 0 .. Len(q.str) : SubSeq(q.str, 1, i) = q.sub
                       /\ q.sub = <<>> => q.str = <<>>)
      /\ q.fn = "endswith" /\ given =>
           (answer <=> /\ \E i \in 0 .. Len(q.str) : SubSeq(q.str, i + 1, Len(q.str)) = q.sub
                       /\ q.sub = <<>> => q.str = <<>>)
      /\ q.fn = "count" /\ given /\ inside /\ q.sub # <<>> =>
           answer = Max({Cardinality(S) : S \in Apart(q)})
      /\ q.fn = "find" /\ given /\ inside /\ End(q.str, q.end) > q.start =>
           IF Occurrences(q) = {} THEN answer = -1 ELSE answer = Min(Occurrences(q))
      /\ q.fn = "lstrip" /\ given /\ q.str # <<>> =>
           /\ \A i \in 1 .. (IF answer = -1 THEN Len(q.str) ELSE answer) : isspace(q.str[i])
           /\ answer # -1 => ~isspace(q.str[answer + 1])
      /\ q.fn = "rstrip" /\ given =>
           /\ \A i \in answer + 2 .. Len(q.str) : isspace(q.str[i])
           /\ answer # -1 => ~isspace(q.str[answer + 1])

\* The range of the type each conversion is for.
Low(fn) == CASE fn = "toi" -> -INT_MAX - 1 [] fn = "tol" -> -LONG_MAX - 1
             [] fn = "toll" -> -LLONG_MAX - 1 [] OTHER -> 0
High(fn) == CASE fn = "toi" -> INT_MAX [] fn = "tou" -> 2 * INT_MAX + 1
              [] fn = "tol" -> LONG_MAX [] fn = "toul" -> 2 * LONG_MAX + 1
              [] fn = "toll" -> LLONG_MAX [] fn = "toull" -> 2 * LLONG_MAX + 1
\* The values that stand for an overflow in the result of strtol and strtoul.
Reserved == {2 * LONG_MAX + 1, LONG_MAX, -LONG_MAX - 1}

\* muggle_str_to*: a conversion that succeeds had a number and nothing but blanks
\* behind it, and gives that number if the type can hold it; it succeeds for every
\* such number other than the ones the code takes for an overflow, and refuses what a
\* signed type cannot hold (muggle_str_toi only if no blank follows; the unsigned ones
\* take a negative number modulo their range, and muggle_str_tou a large one, too).
ConversionsRight ==
  LET q == query
      word == \A i \in 1 .. Len(q.rest) : isspace(q.rest[i])
      fits == q.value \in Low(q.fn) .. High(q.fn)
  IN  /\ answer # NULL /\ q.fn \in Integral =>
           /\ answer.ok => q.value # NULL /\ word /\ (fits => answer.val = q.value)
           /\ q.value # NULL /\ word /\ fits /\ q.value \notin Reserved => answer.ok
           /\ q.value # NULL /\ q.fn \in {"toi", "tol", "toll"} /\ ~fits =>
                ~answer.ok \/ (q.fn = "toi" /\ q.rest # <<>>)
           /\ q.value # NULL /\ q.fn \in {"toul", "toull"} /\ q.value > High(q.fn) => ~answer.ok
      /\ answer # NULL /\ q.fn \in Floating =>
           /\ answer.ok => word
           /\ word /\ q.value = "finite" => answer = Is("finite")
           /\ word /\ q.value = "too large" => ~answer.ok \/ (q.fn # "tof" /\ q.rest # <<>>)

(***************************************************************************)
(* Where a path leads: from the root or not, how many directories up, and  *)
(* then the names.                                                         *)
(***************************************************************************)
Enter(place, word) ==
  CASE word \in {<<>>, <<".">>} -> place
    [] word # <<".", ".">> -> [place EXCEPT !.names = Append(@, word)]
    [] OTHER -> IF place.names # <<>> THEN [place EXCEPT !.names = Front(@)]
                ELSE [place EXCEPT !.ups = @ + 1]

Words(path) ==
  LET f == FoldLeft(LAMBDA acc, c : IF c \in Seps THEN [all |-> Append(acc.all, acc.word), word |-> <<>>]
                                    ELSE [acc EXCEPT !.word = Append(@, c)],
                    [all |-> <<>>, word |-> <<>>], path)
  IN  Append(f.all, f.word)

Place(path) ==
  FoldLeft(Enter, [root |-> At(path, 0) \in Seps, ups |-> 0, names |-> <<>>], Words(path))

\* Inside the path there is neither an empty component nor a ".".
Plain(path) ==
  \A i \in 2 .. Len(Words(path)) - 1 : Words(path)[i] \notin {<<>>, <<".">>}

\* A path whose final ".." stays in the result.
EndsUp(path) == Len(path) >= 2 /\ SubSeq(path, Len(path) - 1, Len(path)) = <<".", ".">>

\* The calls that write one byte more than they say: see the README.
Overrun(q) ==
  \/ q.fn = "join" /\ q.size = 0
  \/ q.fn = "normpath" /\ q.size = Len(q.path) + 1 /\ EndsUp(q.path)
\* The calls that leave the result without its '\0'.
Unended(q) ==
  \/ q.fn = "basename" /\ q.size = Len(q.path) + 1 /\ LastSep(q.path, Len(q.path)) < 0
  \/ q.fn = "abspath" /\ q.size = Len(q.path) + 1 /\ IsAbs(q.path)

\* "size: the max size of returned path (include '\0')" (path.h:23 and four more): no
\* function of path.c writes behind the size it is given, whether it succeeds or not,
\* and what a successful one leaves in the buffer is a string; except in the calls
\* above, in which the size is just enough for the path.
StaysInBuffer ==
  query.fn \in Pathwise /\ answer # NULL =>
    /\ ~Overrun(query) => \A i \in query.size .. Top : answer.buf[i] = UNSET
    /\ answer.err = "OK" /\ ~Unended(query) /\ ~Overrun(query) =>
         Upto(answer.buf, query.size) < query.size

\* muggle_path_normpath leads where the path does, and keeps no ".." behind a name;
\* muggle_path_abspath makes a relative path absolute.
NormalMeansSame ==
  LET q == query
      out == String(answer.buf, q.size)
  IN  q.fn \in Pathwise /\ answer # NULL /\ answer.err = "OK" /\ ~Unended(q) =>
        /\ q.fn = "normpath" /\ Plain(q.path) =>
             /\ Place(out) = Place(q.path)
             /\ \A i, j \in 1 .. Len(Words(out)) :
                  i < j /\ Words(out)[j] = <<".", ".">> => Words(out)[i] = <<".", ".">>
        /\ q.fn = "abspath" =>
             /\ IsAbs(out) \/ out = <<"/">>
             /\ Plain(CurDir \o <<"/">> \o q.path) /\ ~IsAbs(q.path) =>
                  Place(out) = Place(CurDir \o <<"/">> \o q.path)

\* muggle_path_dirname and muggle_path_basename take a path apart, and muggle_path_join
\* of the two leads where the path did; join adds a separator only where there is none.
PartsMakeWhole ==
  LET q == query
      out == String(answer.buf, q.size)
      big == Top - 1
      base == Basename(q.path, big)
  IN  q.fn \in Pathwise /\ answer # NULL /\ answer.err = "OK" /\ ~Unended(q) =>
        /\ q.fn = "dirname" =>
             IF base.err # "OK" THEN Place(out) = Place(q.path)
             ELSE Place(String(Join(out, String(base.buf, big), big).buf, big)) = Place(q.path)
        /\ q.fn = "basename" =>
             \A i \in 1 .. Len(out) : out[i] \notin Seps
        /\ q.fn = "join" /\ q.size > 0 =>
             Place(out) = Place(q.path \o <<"/">> \o q.path2)
=============================================================================
