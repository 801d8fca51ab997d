----------------------------- MODULE ModLemmas -----------------------------
(***************************************************************************)
(* Arithmetic of ring indices: the facts about % that the proofs about the *)
(* ring-based components rest on (IDX_IN_POW_OF_2_RING in macro.h masks an *)
(* index, and 32-bit cursors wrap).                                        *)
(***************************************************************************)
EXTENDS Integers, TLAPS

\* Quotient and remainder of a natural number.
LEMMA DivMod ==
  ASSUME NEW a \in Nat, NEW m \in Nat \ {0}
  PROVE  /\ a \div m \in Nat
         /\ a % m \in 0 .. m - 1
         /\ a = m * (a \div m) + (a % m)
  OBVIOUS

\* A remainder below the divisor is unique.
LEMMA ModUnique ==
  ASSUME NEW m \in Nat \ {0}, NEW q1 \in Int, NEW r1 \in 0 .. m - 1,
         NEW q2 \in Int, NEW r2 \in 0 .. m - 1,
         m * q1 + r1 = m * q2 + r2
  PROVE  q1 = q2 /\ r1 = r2
  <1>1. CASE q1 > q2
    <2>1. q1 >= q2 + 1 BY <1>1
    <2>2. m * q1 >= m * (q2 + 1) BY <2>1
    <2>3. m * (q2 + 1) = m * q2 + m OBVIOUS
    <2> QED BY <2>2, <2>3
  <1>2. CASE q1 < q2
    <2>1. q2 >= q1 + 1 BY <1>2
    <2>2. m * q2 >= m * (q1 + 1) BY <2>1
    <2>3. m * (q1 + 1) = m * q1 + m OBVIOUS
    <2> QED BY <2>2, <2>3
  <1>3. CASE q1 = q2 BY <1>3
  <1> QED BY <1>1, <1>2, <1>3

\* The remainder read off a decomposition.
LEMMA ModOf ==
  ASSUME NEW a \in Nat, NEW m \in Nat \ {0}, NEW q \in Int,
         NEW r \in 0 .. m - 1, a = m * q + r
  PROVE  a % m = r
  <1> DEFINE q0 == a \div m
             r0 == a % m
  <1>1. q0 \in Nat /\ r0 \in 0 .. m - 1 /\ a = m * q0 + r0
    BY Zenon, DivMod
  <1> HIDE DEF q0, r0
  <1>2. m * q0 + r0 = m * q + r /\ q0 \in Int
    BY <1>1
  <1>3. r0 = r
    BY Zenon, <1>1, <1>2, ModUnique
  <1> QED BY <1>3 DEF r0

\* Incrementing a wrapped cursor is wrapping the incremented one.
LEMMA ModSucc ==
  ASSUME NEW a \in Nat, NEW m \in Nat \ {0}
  PROVE  ((a % m) + 1) % m = (a + 1) % m
  <1> DEFINE q == a \div m
             r == a % m
             b == a + 1
  <1>a. q \in Nat /\ r \in 0 .. m - 1 /\ a = m * q + r
    BY Zenon, DivMod
  <1>b. b = a + 1 /\ b \in Nat
    OBVIOUS
  <1> HIDE DEF q, r, b
  <1>1. q \in Nat /\ r \in 0 .. m - 1 /\ b = m * q + r + 1 /\ b \in Nat
    BY <1>a, <1>b
  <1>2. CASE r < m - 1
    <2>1. r + 1 \in 0 .. m - 1 /\ r + 1 \in Nat
      BY <1>1, <1>2
    <2>2. b % m = r + 1
      BY <2>1, <1>1, ModOf
    <2>3. r + 1 = m * 0 + (r + 1)
      BY <1>1
    <2>4. (r + 1) % m = r + 1
      BY <2>3, <2>1, ModOf
    <2> QED BY <2>2, <2>4 DEF r, b
  <1>3. CASE r = m - 1
    <2>1. b = m * (q + 1) + 0 /\ q + 1 \in Int /\ 0 \in 0 .. m - 1
      BY <1>1, <1>3
    <2>2. b % m = 0
      BY <2>1, <1>1, ModOf
    <2>3. r + 1 = m * 1 + 0 /\ r + 1 \in Nat
      BY <1>3
    <2>4. (r + 1) % m = 0
      BY <2>3, <2>1, ModOf
    <2> QED BY <2>2, <2>4 DEF r, b
  <1> QED BY <1>1, <1>2, <1>3

\* Adding a full lap does not change the slot.
LEMMA ModLap ==
  ASSUME NEW a \in Nat, NEW m \in Nat \ {0}
  PROVE  (a + m) % m = a % m
  <1> DEFINE q == a \div m
             r == a % m
             b == a + m
  <1>1. q \in Nat /\ r \in 0 .. m - 1 /\ a = m * q + r
    BY Zenon, DivMod
  <1>2. b = m * (q + 1) + r /\ b \in Nat /\ q + 1 \in Int
    BY <1>1
  <1> HIDE DEF q, r, b
  <1>3. b % m = r
    BY <1>1, <1>2, ModOf
  <1> QED BY <1>3 DEF b, r

\* Masking a wrapped cursor is masking the unwrapped one, when the number of
\* cursor values is a multiple of the capacity.
LEMMA ModMod ==
  ASSUME NEW a \in Nat, NEW m \in Nat \ {0}, NEW c \in Nat \ {0},
         m % c = 0
  PROVE  (a % m) % c = a % c
  <1> DEFINE q == a \div m
             r == a % m
             k == m \div c
             q2 == r \div c
             s == r % c
  <1>1. q \in Nat /\ r \in Nat /\ a = m * q + r
    BY DivMod
  <1>2. k \in Nat /\ m = c * k
    BY DivMod
  <1>3. q2 \in Nat /\ s \in 0 .. c - 1 /\ r = c * q2 + s
    BY Zenon, <1>1, DivMod
  <1>r. r = a % m /\ s = r % c
    OBVIOUS
  <1> HIDE DEF q, r, k, q2, s
  <1>4. m * q = c * (k * q)
    BY <1>1, <1>2
  <1>5. k * q \in Nat
    BY <1>1, <1>2
  <1>6. a = c * (k * q) + c * q2 + s
    BY <1>1, <1>3, <1>4
  <1>7. c * (k * q) + c * q2 = c * (k * q + q2)
    BY <1>1, <1>3, <1>5
  <1>8. k * q + q2 \in Int /\ a = c * (k * q + q2) + s
    BY <1>3, <1>5, <1>6, <1>7
  <1>9. a % c = s
    BY Zenon, <1>3, <1>8, ModOf
  <1> QED BY <1>9, <1>r

\* Two different positions less than a lap apart are in different slots.
LEMMA ModApart ==
  ASSUME NEW a \in Nat, NEW b \in Nat, NEW m \in Nat \ {0},
         a < b, b < a + m
  PROVE  a % m # b % m
  <1> DEFINE q1 == a \div m
             q2 == b \div m
             r == a % m
  <1> SUFFICES ASSUME a % m = b % m
               PROVE  FALSE
    OBVIOUS
  <1>1. q1 \in Nat /\ r \in 0 .. m - 1 /\ a = m * q1 + r
    BY Zenon, DivMod
  <1>2. q2 \in Nat /\ b = m * q2 + r
    BY Zenon, DivMod
  <1> HIDE DEF q1, q2, r
  <1>3. m * q1 < m * q2 /\ m * q2 < m * q1 + m
    BY <1>1, <1>2
  <1>4. m * (q1 + 1) = m * q1 + m
    BY <1>1
  <1>5. q1 < q2
    BY <1>1, <1>2, <1>3
  <1>6. q1 + 1 <= q2
    BY <1>1, <1>2, <1>5
  <1>7. m * (q1 + 1) <= m * q2
    BY <1>1, <1>2, <1>6
  <1> QED BY <1>1, <1>2, <1>3, <1>4, <1>7

-----------------------------------------------------------------------------
(* Indices that may be negative: differences of cursors.                   *)

\* Quotient and remainder of an integer.
LEMMA IntDivMod ==
  ASSUME NEW a \in Int, NEW m \in Nat \ {0}
  PROVE  /\ a \div m \in Int
         /\ a % m \in 0 .. m - 1
         /\ a = m * (a \div m) + (a % m)
  OBVIOUS

\* The remainder of an integer read off a decomposition.
LEMMA IntModOf ==
  ASSUME NEW a \in Int, NEW m \in Nat \ {0}, NEW q \in Int,
         NEW r \in 0 .. m - 1, a = m * q + r
  PROVE  a % m = r
  <1> DEFINE q0 == a \div m
             r0 == a % m
  <1>1. q0 \in Int /\ r0 \in 0 .. m - 1 /\ a = m * q0 + r0
    BY IntDivMod
  <1> HIDE DEF q0, r0
  <1>2. r0 = r
    BY Zenon, <1>1, ModUnique
  <1> QED BY <1>2 DEF r0

\* Integers that differ by whole laps are in the same slot.
LEMMA IntModLaps ==
  ASSUME NEW a \in Int, NEW m \in Nat \ {0}, NEW k \in Int
  PROVE  (a + m * k) % m = a % m
  <1> DEFINE q == a \div m
             r == a % m
             b == a + m * k
  <1>1. q \in Int /\ r \in 0 .. m - 1 /\ a = m * q + r
    BY IntDivMod
  <1>2. b \in Int /\ q + k \in Int /\ b = m * (q + k) + r
    BY <1>1
  <1> HIDE DEF q, r, b
  <1>3. b % m = r
    BY <1>1, <1>2, IntModOf
  <1> QED BY <1>3 DEF r, b

\* A difference from a masked index is masked like the difference from the index.
LEMMA IntModSub ==
  ASSUME NEW a \in Int, NEW b \in Int, NEW m \in Nat \ {0}
  PROVE  /\ (a - (b % m)) % m = (a - b) % m
         /\ ((a % m) - b) % m = (a - b) % m
  <1> DEFINE q == b \div m
             r == b % m
             s == a \div m
             t == a % m
  <1>1. q \in Int /\ r \in 0 .. m - 1 /\ b = m * q + r
    BY IntDivMod
  <1>2. s \in Int /\ t \in 0 .. m - 1 /\ a = m * s + t
    BY IntDivMod
  <1> HIDE DEF q, r, s, t
  <1> DEFINE x == a - r
             y == t - b
             z == a - b
  <1>3. x \in Int /\ y \in Int /\ z \in Int /\ -s \in Int
    BY <1>1, <1>2
  <1>4. x % m = z % m
    <2>1. x = z + m * q /\ q \in Int
      BY <1>1
    <2> HIDE DEF x, z
    <2>2. (z + m * q) % m = z % m
      BY Zenon, <1>3, <2>1, IntModLaps
    <2> QED BY <2>1, <2>2
  <1>5. y % m = z % m
    <2>1. y = z + m * (-s)
      BY <1>2
    <2> HIDE DEF y, z
    <2>2. (z + m * (-s)) % m = z % m
      BY Zenon, <1>3, IntModLaps
    <2> QED BY <2>1, <2>2
  <1> QED BY <1>4, <1>5 DEF r, t, x, y, z

\* The neighbour of an index that is not at the edge of its lap.
LEMMA IntModStep ==
  ASSUME NEW a \in Int, NEW m \in Nat \ {0}
  PROVE  /\ a % m < m - 1 => (a + 1) % m = (a % m) + 1
         /\ a % m > 0 => (a - 1) % m = (a % m) - 1
  <1> DEFINE q == a \div m
             r == a % m
  <1>1. q \in Int /\ r \in 0 .. m - 1 /\ a = m * q + r
    BY IntDivMod
  <1> HIDE DEF q, r
  <1>2. ASSUME r < m - 1 PROVE (a + 1) % m = r + 1
    <2>1. r + 1 \in 0 .. m - 1 /\ a + 1 = m * q + (r + 1) /\ a + 1 \in Int
      BY <1>1, <1>2
    <2> QED BY <1>1, <2>1, IntModOf
  <1>3. ASSUME r > 0 PROVE (a - 1) % m = r - 1
    <2>1. r - 1 \in 0 .. m - 1 /\ a - 1 = m * q + (r - 1) /\ a - 1 \in Int
      BY <1>1, <1>3
    <2> QED BY <1>1, <2>1, IntModOf
  <1> QED BY <1>2, <1>3 DEF r

\* Counting backwards mirrors the slots.
LEMMA IntModMirror ==
  ASSUME NEW a \in Int, NEW m \in Nat \ {0}
  PROVE  (-1 - a) % m = m - 1 - (a % m)
  <1> DEFINE q == a \div m
             r == a % m
  <1>1. q \in Int /\ r \in 0 .. m - 1 /\ a = m * q + r
    BY IntDivMod
  <1> HIDE DEF q, r
  <1>2. m - 1 - r \in 0 .. m - 1 /\ -q - 1 \in Int /\ -1 - a \in Int
    BY <1>1
  <1>3. -1 - a = m * (-q - 1) + (m - 1 - r)
    BY <1>1
  <1> QED BY Zenon, <1>2, <1>3, IntModOf DEF r

\* A small index is its own slot.
LEMMA IntModSmall ==
  ASSUME NEW m \in Nat \ {0}, NEW r \in 0 .. m - 1
  PROVE  r % m = r
  <1>1. r \in Int /\ 0 \in Int /\ r = m * 0 + r
    OBVIOUS
  <1> QED BY <1>1, IntModOf
=============================================================================
