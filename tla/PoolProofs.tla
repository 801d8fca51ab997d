----------------------------- MODULE PoolProofs -----------------------------
(***************************************************************************)
(* Proofs about the memory pools, for every capacity, number of threads    *)
(* and number of calls.                                                    *)
(***************************************************************************)
EXTENDS SowrMemoryPool, TsMemoryPool, ModLemmas, SequenceTheorems, FiniteSetTheorems,
        TLAPS

-----------------------------------------------------------------------------
(***************************************************************************)
(* SowrMemoryPool: PoolIsSafe for every capacity, number of values of      *)
(* alloc_idx and number of stores not yet seen.                            *)
(***************************************************************************)

\* The live blocks s, oldest first, are the positions before the index a.
Behind(a, s) == \A i \in 1 .. Len(s) : s[i] = SowrIdx(a - 1 - (Len(s) - i))

\* A value f of free_idx says that SowrIdx(a - f) blocks are live.  Of the values in F,
\* which alloc may still read, the last one is right, the older ones say too many,
\* and a cache at c lets alloc go no further than the oldest.
Lags(a, c, F, n) ==
  /\ SowrIdx(a - F[Len(F)]) = n
  /\ \A i, j \in 1 .. Len(F) : i <= j => SowrIdx(a - F[j]) <= SowrIdx(a - F[i])
  /\ SowrIdx(c - SowrIdx(a)) + SowrIdx(a - F[1]) <= SowrCapacity - 1

SowrIInv ==
  /\ SowrTypeOK
  /\ Behind(alloc_idx, live)
  /\ Lags(alloc_idx, cached_free_pos, free_idx, Len(live))

\* A masked index is a block.
LEMMA Masked ==
  ASSUME NEW x \in Int
  PROVE  SowrIdx(x) \in SowrBlocks
  BY SowrAssumption, IntDivMod DEF SowrIdx, SowrBlocks

\* That alloc_idx wraps around changes no position.
LEMMA Wraps ==
  ASSUME NEW a \in Int, NEW x \in Int
  PROVE  /\ (a % IdxMod) \in 0 .. IdxMod - 1
         /\ SowrIdx((a % IdxMod) - x) = SowrIdx(a - x)
         /\ SowrIdx(x - (a % IdxMod)) = SowrIdx(x - a)
  <1> DEFINE q == a \div IdxMod
             r == a % IdxMod
             m == IdxMod \div SowrCapacity
  <1>0. SowrCapacity \in Nat \ {0} /\ IdxMod \in Nat \ {0} /\ IdxMod % SowrCapacity = 0
    BY SowrAssumption
  <1>1. q \in Int /\ r \in 0 .. IdxMod - 1 /\ a = IdxMod * q + r
    BY <1>0, IntDivMod
  <1>2. m \in Nat /\ IdxMod = SowrCapacity * m
    BY <1>0, DivMod
  <1> HIDE DEF q, r, m
  <1> DEFINE k == m * q
  <1>3. k \in Int /\ -k \in Int
    BY <1>1, <1>2
  <1>4. a = SowrCapacity * k + r
    BY <1>0, <1>1, <1>2
  <1> HIDE DEF k
  <1> DEFINE u == a - x
             v == x - a
  <1>5. u \in Int /\ v \in Int /\ r - x = u + SowrCapacity * (-k) /\ x - r = v + SowrCapacity * k
    BY <1>0, <1>1, <1>3, <1>4
  <1> HIDE DEF u, v
  <1>6. (u + SowrCapacity * (-k)) % SowrCapacity = u % SowrCapacity
    BY Zenon, <1>0, <1>3, <1>5, IntModLaps
  <1>7. (v + SowrCapacity * k) % SowrCapacity = v % SowrCapacity
    BY Zenon, <1>0, <1>3, <1>5, IntModLaps
  <1> QED BY <1>1, <1>5, <1>6, <1>7 DEF SowrIdx, r, u, v

\* The next position, and the one before.
LEMMA Neighbours ==
  ASSUME NEW x \in Int
  PROVE  /\ SowrIdx(x) < SowrCapacity - 1 => SowrIdx(x + 1) = SowrIdx(x) + 1
         /\ SowrIdx(x) > 0 => SowrIdx(x - 1) = SowrIdx(x) - 1
  BY Zenon, SowrAssumption, IntModStep DEF SowrIdx

-----------------------------------------------------------------------------
(* The operations on these.                                                *)

\* A block is taken: alloc moves away from every value of free_idx and towards the cache.
LEMMA TakeLags ==
  ASSUME NEW a \in Int, NEW c \in SowrBlocks, NEW F \in Seq(Int), F # <<>>, NEW n \in Nat,
         Lags(a, c, F, n), SowrIdx(a) # c
  PROVE  Lags((a + 1) % IdxMod, c, F, n + 1)
  <1> DEFINE b == (a + 1) % IdxMod
  <1>0. /\ SowrCapacity \in Nat \ {0} /\ c \in Int /\ Len(F) \in Nat \ {0}
        /\ \A i \in 1 .. Len(F) : F[i] \in Int
    BY SowrAssumption DEF SowrBlocks
  <1>1. SowrIdx(c - SowrIdx(a)) = SowrIdx(c - a) /\ SowrIdx(c - SowrIdx(b)) = SowrIdx(c - b)
    <2>1. b \in Int
      BY Wraps, SowrAssumption
    <2> HIDE DEF b
    <2> QED BY Zenon, <1>0, <2>1, IntModSub DEF SowrIdx
  <1>2. SowrIdx(c - a) > 0
    <2>1. SowrIdx(c - a) \in SowrBlocks
      BY <1>0, Masked
    <2>2. SowrIdx(c - a) # 0
      <3> SUFFICES ASSUME SowrIdx(c - a) = 0 PROVE FALSE
        OBVIOUS
      <3> DEFINE q == (c - a) \div SowrCapacity
      <3>1. q \in Int /\ c - a = SowrCapacity * q + SowrIdx(c - a)
        BY <1>0, IntDivMod DEF SowrIdx
      <3>2. a = SowrCapacity * (-q) + c /\ -q \in Int
        BY <1>0, <3>1
      <3> HIDE DEF q
      <3>3. a % SowrCapacity = c
        BY Zenon, <1>0, <3>2, IntModOf DEF SowrBlocks
      <3> QED BY <3>3 DEF SowrIdx
    <2> QED BY <1>0, <2>1, <2>2 DEF SowrBlocks
  <1>3. SowrIdx(c - b) = SowrIdx(c - a) - 1
    <2>1. SowrIdx(c - b) = SowrIdx(c - (a + 1))
      BY <1>0, Wraps
    <2>2. c - (a + 1) = (c - a) - 1 /\ c - a \in Int
      BY <1>0
    <2> QED BY <1>2, <2>1, <2>2, Neighbours
  <1>4. ASSUME NEW i \in 1 .. Len(F)
        PROVE  SowrIdx(b - F[i]) = SowrIdx(a - F[i]) + 1
    <2>1. SowrIdx(a - F[i]) <= SowrIdx(a - F[1])
      <3>1. 1 \in 1 .. Len(F) /\ 1 <= i
        BY <1>0, <1>4
      <3> QED BY Zenon, <1>0, <1>4, <3>1 DEF Lags
    <2>2. SowrIdx(a - F[i]) \in SowrBlocks /\ SowrIdx(a - F[1]) \in SowrBlocks /\ SowrIdx(c - a) \in SowrBlocks
      BY <1>0, <1>4, Masked
    <2>3. SowrIdx(a - F[i]) < SowrCapacity - 1
      BY <1>0, <1>1, <1>2, <2>1, <2>2 DEF Lags, SowrBlocks
    <2>4. SowrIdx(b - F[i]) = SowrIdx((a + 1) - F[i])
      <3> DEFINE e == a + 1
                 x == F[i]
      <3>1. e \in Int /\ x \in Int
        BY <1>0, <1>4
      <3> HIDE DEF e, x
      <3>2. SowrIdx((e % IdxMod) - x) = SowrIdx(e - x)
        BY <3>1, Wraps
      <3> QED BY <3>2 DEF e, x
    <2>5. (a + 1) - F[i] = (a - F[i]) + 1 /\ a - F[i] \in Int
      BY <1>0, <1>4
    <2> QED BY <2>3, <2>4, <2>5, Neighbours
  <1>5. ASSUME NEW i \in 1 .. Len(F) PROVE SowrIdx(a - F[i]) \in Int
    <2>1. SowrIdx(a - F[i]) \in SowrBlocks
      BY <1>0, <1>5, Masked
    <2> QED BY <1>0, <2>1 DEF SowrBlocks
  <1>6. SowrIdx(c - a) \in Int
    BY <1>0, Masked DEF SowrBlocks
  <1> HIDE DEF b
  <1>7. Lags(b, c, F, n + 1)
    <2>1. /\ SowrIdx(a - F[Len(F)]) = n
          /\ \A i, j \in 1 .. Len(F) : i <= j => SowrIdx(a - F[j]) <= SowrIdx(a - F[i])
          /\ SowrIdx(c - a) + SowrIdx(a - F[1]) <= SowrCapacity - 1
      BY <1>1 DEF Lags
    <2>2. SowrIdx(b - F[Len(F)]) = n + 1
      <3>1. Len(F) \in 1 .. Len(F)
        BY <1>0
      <3>2. SowrIdx(b - F[Len(F)]) = SowrIdx(a - F[Len(F)]) + 1
        BY <1>4, <3>1
      <3> QED BY <2>1, <3>2
    <2>3. \A i, j \in 1 .. Len(F) : i <= j => SowrIdx(b - F[j]) <= SowrIdx(b - F[i])
      BY <1>4, <1>5, <2>1
    <2>4. SowrIdx(c - b) + SowrIdx(b - F[1]) <= SowrCapacity - 1
      <3>1. 1 \in 1 .. Len(F)
        BY <1>0
      <3>2. SowrIdx(b - F[1]) = SowrIdx(a - F[1]) + 1 /\ SowrIdx(a - F[1]) \in Int
        BY <1>4, <1>5, <3>1
      <3> QED BY <1>0, <1>3, <1>6, <2>1, <3>2
    <2> QED BY <1>1, <2>2, <2>3, <2>4 DEF Lags
  <1> QED BY <1>7 DEF b

\* alloc reads a value of free_idx, and those before it are gone.
LEMMA RefreshLags ==
  ASSUME NEW a \in Int, NEW c \in SowrBlocks, NEW F \in Seq(Int), NEW n \in Nat,
         Lags(a, c, F, n), NEW k \in 1 .. Len(F)
  PROVE  Lags(a, SowrIdx(F[k] - 1), SubSeq(F, k, Len(F)), n)
  <1> DEFINE G == SubSeq(F, k, Len(F))
  <1>0. /\ SowrCapacity \in Nat \ {0} /\ Len(F) \in Nat \ {0} /\ k \in Nat /\ F[k] \in Int
        /\ SowrIdx(a - F[k]) \in Int
    <2>1. F[k] \in Int /\ SowrCapacity \in Nat \ {0}
      BY SowrAssumption
    <2>2. SowrIdx(a - F[k]) \in SowrBlocks
      BY <2>1, Masked
    <2> QED BY <2>1, <2>2 DEF SowrBlocks
  <1>1. Len(G) = Len(F) - k + 1 /\ \A i \in 1 .. Len(G) : G[i] = F[k + i - 1]
    BY <1>0, SubSeqProperties
  <1> HIDE DEF G
  <1>2. G[1] = F[k] /\ G[Len(G)] = F[Len(F)]
    <2>1. 1 \in 1 .. Len(G) /\ k + 1 - 1 = k
      BY <1>0, <1>1
    <2>2. Len(G) \in 1 .. Len(G) /\ k + Len(G) - 1 = Len(F)
      BY <1>0, <1>1
    <2>3. G[1] = F[k + 1 - 1] /\ G[Len(G)] = F[k + Len(G) - 1]
      BY Zenon, <1>1, <2>1, <2>2
    <2> QED BY <2>1, <2>2, <2>3
  <1>3. SowrIdx(SowrIdx(F[k] - 1) - SowrIdx(a)) = SowrCapacity - 1 - SowrIdx(a - F[k])
    <2> DEFINE x == F[k] - 1
               y == a - F[k]
    <2>1. x \in Int /\ y \in Int /\ x - a = -1 - y
      BY <1>0
    <2> HIDE DEF x, y
    <2>2. SowrIdx(x) \in SowrBlocks
      BY <2>1, Masked
    <2>3. SowrIdx(x) \in Int
      BY <1>0, <2>2 DEF SowrBlocks
    <2>4. SowrIdx(SowrIdx(x) - SowrIdx(a)) = SowrIdx(SowrIdx(x) - a) /\ SowrIdx(SowrIdx(x) - a) = SowrIdx(x - a)
      BY Zenon, <1>0, <2>1, <2>3, IntModSub DEF SowrIdx
    <2>5. SowrIdx(-1 - y) = SowrCapacity - 1 - SowrIdx(y)
      BY Zenon, <1>0, <2>1, IntModMirror DEF SowrIdx
    <2> QED BY <2>1, <2>4, <2>5 DEF x, y
  <1>4. \A i, j \in 1 .. Len(G) : i <= j => SowrIdx(a - G[j]) <= SowrIdx(a - G[i])
    <2> SUFFICES ASSUME NEW i \in 1 .. Len(G), NEW j \in 1 .. Len(G), i <= j
                 PROVE  SowrIdx(a - G[j]) <= SowrIdx(a - G[i])
      OBVIOUS
    <2>1. k + i - 1 \in 1 .. Len(F) /\ k + j - 1 \in 1 .. Len(F) /\ k + i - 1 <= k + j - 1
      BY <1>0, <1>1
    <2>2. SowrIdx(a - F[k + j - 1]) <= SowrIdx(a - F[k + i - 1])
      BY Zenon, <2>1 DEF Lags
    <2> QED BY Zenon, <1>1, <2>2
  <1>5. Lags(a, SowrIdx(F[k] - 1), G, n)
    <2>1. SowrIdx(a - G[Len(G)]) = n
      BY <1>2 DEF Lags
    <2>2. SowrIdx(SowrIdx(F[k] - 1) - SowrIdx(a)) + SowrIdx(a - G[1]) <= SowrCapacity - 1
      BY <1>0, <1>2, <1>3
    <2> QED BY <1>4, <2>1, <2>2 DEF Lags
  <1> QED BY <1>5 DEF G

\* The k-th oldest of n live blocks is freed, with the older ones.
LEMMA FreeLags ==
  ASSUME NEW a \in Int, NEW c \in SowrBlocks, NEW F \in Seq(Int), F # <<>>, NEW n \in Nat,
         Lags(a, c, F, n), NEW k \in 1 .. n
  PROVE  Lags(a, c, Append(F, SowrIdx(a - 1 - (n - k)) + 1), n - k)
  <1> DEFINE f == SowrIdx(a - 1 - (n - k)) + 1
             G == Append(F, f)
             l == Len(F)
  <1>0. /\ SowrCapacity \in Nat \ {0} /\ l \in Nat \ {0}
        /\ \A i \in 1 .. l : F[i] \in Int
    BY SowrAssumption
  <1>1. n \in SowrBlocks /\ n - k \in 0 .. SowrCapacity - 1
    <2>1. n \in SowrBlocks
      BY <1>0, Masked DEF Lags
    <2> QED BY <1>0, <2>1 DEF SowrBlocks
  <1>2. f \in Int /\ SowrIdx(a - f) = n - k
    <2> DEFINE x == a - 1 - (n - k)
               y == a - 1
    <2>1. x \in Int /\ y \in Int /\ y - x = n - k
      OBVIOUS
    <2> HIDE DEF x, y
    <2>2. SowrIdx(x) \in SowrBlocks
      BY <2>1, Masked
    <2>3. SowrIdx(x) \in Int
      BY <1>0, <2>2 DEF SowrBlocks
    <2>4. SowrIdx(y - SowrIdx(x)) = SowrIdx(y - x)
      BY Zenon, <1>0, <2>1, IntModSub DEF SowrIdx
    <2>5. SowrIdx(n - k) = n - k
      BY Zenon, <1>0, <1>1, IntModSmall DEF SowrIdx
    <2>6. a - f = y - SowrIdx(x)
      BY <2>3 DEF x, y
    <2> QED BY <2>1, <2>3, <2>4, <2>5, <2>6 DEF x
  <1>3. Len(G) = l + 1 /\ G[l + 1] = f /\ \A i \in 1 .. l : G[i] = F[i]
    BY <1>2, AppendProperties
  <1> HIDE DEF f, G, l
  <1>4. \A i \in 1 .. l : SowrIdx(a - F[i]) >= n /\ SowrIdx(a - F[i]) \in Int
    <2> SUFFICES ASSUME NEW i \in 1 .. l PROVE SowrIdx(a - F[i]) >= n /\ SowrIdx(a - F[i]) \in Int
      OBVIOUS
    <2>1. SowrIdx(a - F[i]) \in SowrBlocks
      BY <1>0, Masked
    <2>2. l \in 1 .. l /\ i <= l
      BY <1>0
    <2>3. SowrIdx(a - F[l]) <= SowrIdx(a - F[i])
      BY <2>2 DEF Lags, l
    <2> QED BY <1>0, <2>1, <2>3 DEF Lags, SowrBlocks, l
  <1>5. \A i, j \in 1 .. l + 1 : i <= j => SowrIdx(a - G[j]) <= SowrIdx(a - G[i])
    <2> SUFFICES ASSUME NEW i \in 1 .. l + 1, NEW j \in 1 .. l + 1, i <= j
                 PROVE  SowrIdx(a - G[j]) <= SowrIdx(a - G[i])
      OBVIOUS
    <2>1. CASE i = l + 1
      <3>1. j = l + 1
        BY <1>0, <2>1
      <3> QED BY <1>2, <1>3, <2>1, <3>1
    <2>2. CASE i # l + 1 /\ j = l + 1
      <3>1. i \in 1 .. l
        BY <1>0, <2>2
      <3>2. SowrIdx(a - G[j]) = n - k /\ G[i] = F[i] /\ SowrIdx(a - F[i]) >= n
        BY <1>2, <1>3, <1>4, <2>2, <3>1
      <3> QED BY <1>4, <3>1, <3>2
    <2>3. CASE i # l + 1 /\ j # l + 1
      <3>1. i \in 1 .. l /\ j \in 1 .. l
        BY <1>0, <2>3
      <3> QED BY Zenon, <1>3, <3>1 DEF Lags, l
    <2> QED BY <2>1, <2>2, <2>3
  <1>6. Lags(a, c, G, n - k)
    <2>1. G[1] = F[1]
      BY <1>0, <1>3
    <2> QED BY <1>2, <1>3, <1>5, <2>1 DEF Lags
  <1> QED BY <1>6 DEF G, f

\* The block at alloc_pos is the youngest of the live ones.
LEMMA TakeBehind ==
  ASSUME NEW a \in Int, NEW s \in Seq(SowrBlocks), Behind(a, s)
  PROVE  Behind((a + 1) % IdxMod, Append(s, SowrIdx(a)))
  <1> DEFINE b == (a + 1) % IdxMod
             t == Append(s, SowrIdx(a))
             n == Len(s)
  <1>1. n \in Nat /\ Len(t) = n + 1 /\ t[n + 1] = SowrIdx(a) /\ \A i \in 1 .. n : t[i] = s[i]
    BY Masked, AppendProperties
  <1>2. \A i \in 1 .. n : s[i] = SowrIdx(a - 1 - (n - i))
    BY DEF Behind
  <1> HIDE DEF t, n
  <1>3. ASSUME NEW i \in 1 .. n + 1
        PROVE  t[i] = SowrIdx(b - 1 - ((n + 1) - i))
    <2> DEFINE e == a + 1
               x == 1 + ((n + 1) - i)
    <2>1. e \in Int /\ x \in Int /\ e - x = a - ((n + 1) - i)
      BY <1>1, <1>3
    <2>2. b \in Int /\ b - 1 - ((n + 1) - i) = b - x
      <3>1. b \in Int
        BY SowrAssumption, Wraps, e \in Int
      <3> HIDE DEF b
      <3> QED BY <1>1, <1>3, <3>1
    <2> HIDE DEF e, x
    <2>3. SowrIdx((e % IdxMod) - x) = SowrIdx(e - x)
      BY <2>1, Wraps
    <2>4. CASE i = n + 1
      <3>1. a - ((n + 1) - i) = a
        BY <1>1, <2>4
      <3> QED BY <1>1, <2>1, <2>2, <2>3, <2>4, <3>1 DEF e
    <2>5. CASE i # n + 1
      <3>1. i \in 1 .. n /\ a - ((n + 1) - i) = a - 1 - (n - i)
        BY <1>1, <1>3, <2>5
      <3> QED BY Zenon, <1>1, <1>2, <2>1, <2>2, <2>3, <3>1 DEF e
    <2> QED BY <2>4, <2>5
  <1> QED BY <1>1, <1>3 DEF Behind, t

\* What stays live after a free are the youngest blocks.
LEMMA FreeBehind ==
  ASSUME NEW a \in Int, NEW s \in Seq(SowrBlocks), Behind(a, s), NEW k \in 1 .. Len(s)
  PROVE  /\ SubSeq(s, k + 1, Len(s)) \in Seq(SowrBlocks)
         /\ Len(SubSeq(s, k + 1, Len(s))) = Len(s) - k
         /\ Behind(a, SubSeq(s, k + 1, Len(s)))
  <1> DEFINE t == SubSeq(s, k + 1, Len(s))
             n == Len(s)
  <1>1. /\ n \in Nat /\ k \in Nat /\ t \in Seq(SowrBlocks) /\ Len(t) = n - k
        /\ \A i \in 1 .. n - k : t[i] = s[k + i]
    BY SubSeqProperties
  <1>2. \A i \in 1 .. n : s[i] = SowrIdx(a - 1 - (n - i))
    BY DEF Behind
  <1> HIDE DEF t, n
  <1>3. ASSUME NEW i \in 1 .. n - k
        PROVE  t[i] = SowrIdx(a - 1 - ((n - k) - i))
    <2>1. k + i \in 1 .. n /\ a - 1 - (n - (k + i)) = a - 1 - ((n - k) - i)
      BY <1>1, <1>3
    <2>2. s[k + i] = SowrIdx(a - 1 - (n - (k + i)))
      BY <1>2, <2>1
    <2> QED BY <1>1, <1>3, <2>1, <2>2
  <1> QED BY Zenon, <1>1, <1>3 DEF Behind, t, n

\* Fewer blocks than the capacity behind the same index are different ones.
LEMMA BehindApart ==
  ASSUME NEW a \in Int, NEW s \in Seq(SowrBlocks), Behind(a, s), Len(s) <= SowrCapacity - 1,
         NEW i \in 1 .. Len(s), NEW j \in 1 .. Len(s), s[i] = s[j]
  PROVE  i = j
  <1> DEFINE n == Len(s)
             x == a - 1 - (n - i)
             y == a - 1 - (n - j)
  <1>0. SowrCapacity \in Nat \ {0} /\ n \in Nat
    BY SowrAssumption
  <1>1. x \in Int /\ y \in Int /\ x - y = i - j
    BY <1>0
  <1>2. SowrIdx(x) = SowrIdx(y)
    BY DEF Behind
  <1> HIDE DEF x, y
  <1>3. SowrIdx(x - SowrIdx(x)) = SowrIdx(x - x) /\ SowrIdx(x - SowrIdx(y)) = SowrIdx(x - y)
        /\ SowrIdx(y - SowrIdx(x)) = SowrIdx(y - x)  /\ SowrIdx(y - SowrIdx(y)) = SowrIdx(y - y)
    BY Zenon, <1>0, <1>1, IntModSub DEF SowrIdx
  <1>4. SowrIdx(0) = 0
    BY <1>0, IntModSmall, 0 \in 0 .. SowrCapacity - 1 DEF SowrIdx
  <1>5. SowrIdx(i - j) = 0 /\ SowrIdx(j - i) = 0
    <2>1. x - x = 0 /\ y - y = 0 /\ y - x = j - i
      BY <1>1
    <2> QED BY <1>1, <1>2, <1>3, <1>4, <2>1
  <1>6. CASE i >= j
    <2>1. i - j \in 0 .. SowrCapacity - 1
      BY <1>0, <1>6
    <2>2. SowrIdx(i - j) = i - j
      BY <1>0, <2>1, IntModSmall DEF SowrIdx
    <2> QED BY <1>5, <2>2
  <1>7. CASE i < j
    <2>1. j - i \in 0 .. SowrCapacity - 1
      BY <1>0, <1>7
    <2>2. SowrIdx(j - i) = j - i
      BY <1>0, <2>1, IntModSmall DEF SowrIdx
    <2> QED BY <1>5, <2>2
  <1> QED BY <1>6, <1>7

-----------------------------------------------------------------------------
(* The invariant is inductive.                                             *)

\* muggle_sowr_memory_pool_init establishes the invariant.
LEMMA SowrInitIInv == SowrInit => SowrIInv
  <1> SUFFICES ASSUME SowrInit PROVE SowrIInv
    OBVIOUS
  <1>0. SowrCapacity \in Nat \ {0} /\ IdxMod \in Nat \ {0} /\ MaxLag \in Nat
    BY SowrAssumption
  <1>1. SowrTypeOK
    BY <1>0 DEF SowrInit, SowrTypeOK, SowrBlocks
  <1>2. Behind(alloc_idx, live)
    BY DEF SowrInit, Behind
  <1>3. SowrIdx(0) = 0 /\ SowrIdx(SowrCapacity - 1) = SowrCapacity - 1
    BY <1>0, IntModSmall, 0 \in 0 .. SowrCapacity - 1,
       SowrCapacity - 1 \in 0 .. SowrCapacity - 1 DEF SowrIdx
  <1>4. Lags(0, SowrCapacity - 1, <<0>>, 0)
    <2>1. 0 - 0 = 0 /\ (SowrCapacity - 1) - 0 = SowrCapacity - 1 /\ Len(<<0>>) = 1 /\ <<0>>[1] = 0
      BY <1>0
    <2> QED BY <1>0, <1>3, <2>1 DEF Lags
  <1> QED BY <1>1, <1>2, <1>4 DEF SowrInit, SowrIInv

\* A block is taken with a cache that allows it.
LEMMA TakeStep ==
  ASSUME SowrTypeOK, Behind(alloc_idx, live), SowrTake,
         Lags(alloc_idx, cached_free_pos', free_idx', Len(live)),
         AllocPos # cached_free_pos', cached_free_pos' \in SowrBlocks,
         free_idx' \in Seq(0 .. SowrCapacity), Len(free_idx') \in 1 .. MaxLag + 1
  PROVE  SowrIInv'
  <1>1. alloc_idx \in Int /\ live \in Seq(SowrBlocks) /\ Len(live) \in Nat
    BY SowrAssumption DEF SowrTypeOK
  <1>2. AllocPos \in SowrBlocks
    BY <1>1, Masked DEF AllocPos
  <1>3. /\ live' = Append(live, SowrIdx(alloc_idx)) /\ live' \in Seq(SowrBlocks)
        /\ Len(live') = Len(live) + 1
    BY <1>1, <1>2 DEF SowrTake, AllocPos
  <1>4. alloc_idx' = (alloc_idx + 1) % IdxMod /\ alloc_idx' \in 0 .. IdxMod - 1
    BY <1>1, Wraps DEF SowrTake
  <1>5. free_idx' \in Seq(Int) /\ free_idx' # <<>>
    BY SowrAssumption
  <1>6. Lags(alloc_idx', cached_free_pos', free_idx', Len(live'))
    BY <1>1, <1>3, <1>4, <1>5, TakeLags DEF AllocPos
  <1>7. Behind(alloc_idx', live')
    BY <1>1, <1>3, <1>4, TakeBehind
  <1> QED BY <1>3, <1>4, <1>6, <1>7 DEF SowrIInv, SowrTypeOK

\* Every step keeps the invariant.
LEMMA NextIInv == SowrIInv /\ [SowrNext]_sowrVars => SowrIInv'
  <1> SUFFICES ASSUME SowrIInv, [SowrNext]_sowrVars PROVE SowrIInv'
    OBVIOUS
  <1>0. /\ alloc_idx \in Int /\ cached_free_pos \in SowrBlocks /\ live \in Seq(SowrBlocks)
        /\ Len(live) \in Nat /\ free_idx \in Seq(0 .. SowrCapacity) /\ free_idx \in Seq(Int)
        /\ free_idx # <<>> /\ Len(free_idx) \in 1 .. MaxLag + 1
        /\ SowrCapacity \in Nat \ {0} /\ MaxLag \in Nat
        /\ Behind(alloc_idx, live)
        /\ Lags(alloc_idx, cached_free_pos, free_idx, Len(live))
    BY SowrAssumption DEF SowrIInv, SowrTypeOK
  <1>1. CASE AllocFast
    BY <1>0, <1>1, TakeStep DEF AllocFast, SowrIInv
  <1>2. CASE AllocSlow
    <2>1. PICK k \in 1 .. Len(free_idx) :
            /\ free_idx' = SubSeq(free_idx, k, Len(free_idx))
            /\ cached_free_pos' = SowrIdx(free_idx[k] - 1)
      BY <1>2 DEF AllocSlow, Refresh
    <2>2. Lags(alloc_idx, cached_free_pos', free_idx', Len(live))
      BY <1>0, <2>1, RefreshLags
    <2>3. cached_free_pos' \in SowrBlocks
      BY <1>0, <2>1, Masked
    <2>4. free_idx' \in Seq(0 .. SowrCapacity) /\ Len(free_idx') \in 1 .. MaxLag + 1
      <3>1. k \in 1 .. Len(free_idx) + 1 /\ Len(free_idx) \in k - 1 .. Len(free_idx)
        BY <1>0, <2>1
      <3>2. free_idx' \in Seq(0 .. SowrCapacity)
        <4> DEFINE S == 0 .. SowrCapacity
        <4>1. free_idx \in Seq(S)
          BY <1>0
        <4> HIDE DEF S
        <4>2. SubSeq(free_idx, k, Len(free_idx)) \in Seq(S)
          BY <3>1, <4>1, SubSeqProperties
        <4> QED BY <2>1, <4>2 DEF S
      <3>3. Len(free_idx') = Len(free_idx) - k + 1
        BY <1>0, <2>1, <3>1, SubSeqProperties
      <3> QED BY <1>0, <3>2, <3>3
    <2>5. CASE AllocPos # cached_free_pos' /\ SowrTake
      BY <1>0, <2>2, <2>3, <2>4, <2>5, TakeStep DEF SowrIInv
    <2>6. CASE UNCHANGED <<alloc_idx, live>>
      <3>1. SowrTypeOK'
        BY <2>3, <2>4, <2>6 DEF SowrIInv, SowrTypeOK
      <3> QED BY <1>0, <2>2, <2>6, <3>1 DEF SowrIInv
    <2> QED BY <1>2, <2>5, <2>6 DEF AllocSlow
  <1>3. ASSUME NEW k \in SowrBlocks, SowrFree(k) PROVE SowrIInv'
    <2>1. /\ k \in 1 .. Len(live) /\ Len(free_idx) <= MaxLag
          /\ free_idx' = Append(free_idx, live[k] + 1)
          /\ live' = SubSeq(live, k + 1, Len(live))
          /\ alloc_idx' = alloc_idx /\ cached_free_pos' = cached_free_pos
      BY <1>3 DEF SowrFree
    <2>2. /\ live' \in Seq(SowrBlocks) /\ Len(live') = Len(live) - k
          /\ Behind(alloc_idx', live')
      BY <1>0, <2>1, FreeBehind
    <2>3. live[k] = SowrIdx(alloc_idx - 1 - (Len(live) - k)) /\ live[k] \in SowrBlocks
      BY <1>0, <2>1 DEF Behind
    <2>4. Lags(alloc_idx, cached_free_pos, Append(free_idx, live[k] + 1), Len(live) - k)
      BY Zenon, <1>0, <2>1, <2>3, FreeLags
    <2>5. /\ live[k] + 1 \in 0 .. SowrCapacity
          /\ free_idx' \in Seq(0 .. SowrCapacity) /\ Len(free_idx') \in 1 .. MaxLag + 1
      <3>1. live[k] + 1 \in 0 .. SowrCapacity
        BY <1>0, <2>3 DEF SowrBlocks
      <3> QED BY <1>0, <2>1, <3>1
    <2>6. SowrTypeOK'
      BY <2>1, <2>2, <2>5 DEF SowrIInv, SowrTypeOK
    <2> QED BY <2>1, <2>2, <2>4, <2>6 DEF SowrIInv
  <1>4. CASE UNCHANGED sowrVars
    BY <1>4 DEF sowrVars, SowrIInv, SowrTypeOK, Behind, Lags
  <1> QED BY <1>1, <1>2, <1>3, <1>4 DEF SowrNext

\* What the invariant says of the blocks.
LEMMA SafeFollows == SowrIInv => PoolIsSafe
  <1> SUFFICES ASSUME SowrIInv PROVE PoolIsSafe
    OBVIOUS
  <1> DEFINE l == Len(free_idx)
             f == free_idx[l]
  <1>0. /\ SowrCapacity \in Nat \ {0} /\ alloc_idx \in Int /\ cached_free_pos \in Int
        /\ live \in Seq(SowrBlocks) /\ Len(live) \in Nat /\ l \in Nat \ {0} /\ f \in Int
        /\ free_idx[1] \in Int /\ 1 \in 1 .. l /\ l \in 1 .. l
    BY SowrAssumption DEF SowrIInv, SowrTypeOK, SowrBlocks
  <1>1. SowrIdx(alloc_idx - f) = Len(live) /\ SowrIdx(alloc_idx - f) \in SowrBlocks
    BY <1>0, Masked DEF SowrIInv, Lags
  <1>2. Len(live) <= SowrCapacity - 1
    BY <1>0, <1>1 DEF SowrBlocks
  <1>3. SowrNoDoubleOwner
    BY <1>0, <1>2, BehindApart DEF SowrNoDoubleOwner, SowrIInv
  <1>4. CacheIsBehind
    <2>1. SowrIdx(alloc_idx - f) <= SowrIdx(alloc_idx - free_idx[1])
      BY <1>0 DEF SowrIInv, Lags
    <2>2. CachedRoom + SowrIdx(alloc_idx - free_idx[1]) <= SowrCapacity - 1
      BY DEF SowrIInv, Lags, CachedRoom, AllocPos
    <2>3. SowrIdx(alloc_idx - free_idx[1]) \in Int /\ CachedRoom \in Int
      <3>1. SowrIdx(alloc_idx - free_idx[1]) \in SowrBlocks /\ AllocPos \in SowrBlocks
        BY <1>0, Masked DEF AllocPos
      <3>2. AllocPos \in Int
        BY <1>0, <3>1 DEF SowrBlocks
      <3>3. CachedRoom \in SowrBlocks
        BY <1>0, <3>2, Masked DEF CachedRoom
      <3> QED BY <1>0, <3>1, <3>3 DEF SowrBlocks
    <2> HIDE DEF f
    <2> QED BY <1>0, <1>1, <2>1, <2>2, <2>3 DEF CacheIsBehind
  <1>5. AllFreeIsExact
    <2> HIDE DEF f
    <2>1. SowrIdx(alloc_idx - f) = 0 <=> SowrIdx(f) = SowrIdx(alloc_idx)
      <3>1. SowrIdx(0) = 0
        BY <1>0, IntModSmall, 0 \in 0 .. SowrCapacity - 1 DEF SowrIdx
      <3>2. ASSUME SowrIdx(f) = SowrIdx(alloc_idx) PROVE SowrIdx(alloc_idx - f) = 0
        <4>1. SowrIdx(alloc_idx - SowrIdx(f)) = SowrIdx(alloc_idx - f)
          BY Zenon, <1>0, IntModSub DEF SowrIdx
        <4>2. SowrIdx(alloc_idx - SowrIdx(alloc_idx)) = SowrIdx(alloc_idx - alloc_idx)
          BY Zenon, <1>0, IntModSub DEF SowrIdx
        <4> QED BY <1>0, <3>1, <3>2, <4>1, <4>2
      <3>3. ASSUME SowrIdx(alloc_idx - f) = 0 PROVE SowrIdx(f) = SowrIdx(alloc_idx)
        <4> DEFINE q == (alloc_idx - f) \div SowrCapacity
        <4>1. q \in Int /\ alloc_idx - f = SowrCapacity * q + SowrIdx(alloc_idx - f)
          BY <1>0, IntDivMod DEF SowrIdx
        <4>2. alloc_idx = f + SowrCapacity * q
          BY <1>0, <3>3, <4>1
        <4> HIDE DEF q
        <4>3. (f + SowrCapacity * q) % SowrCapacity = f % SowrCapacity
          BY Zenon, <1>0, <4>1, IntModLaps
        <4> QED BY <4>2, <4>3 DEF SowrIdx
      <3> QED BY <3>2, <3>3
    <2>2. Len(live) = 0 <=> live = <<>>
      BY <1>0
    <2> QED BY <1>1, <2>1, <2>2 DEF AllFreeIsExact, IsAllFree, AllocPos, f
  <1> QED BY <1>3, <1>4, <1>5 DEF SowrIInv, PoolIsSafe

\* muggle_sowr_memory_pool_alloc and _free: whatever old value of free_idx alloc reads,
\* the live blocks stay different, and muggle_sowr_memory_pool_is_all_free is exact.
THEOREM SowrPoolIsSafe == SowrSpec => []PoolIsSafe
  <1>1. SowrSpec => []SowrIInv
    BY SowrInitIInv, NextIInv, PTL DEF SowrSpec
  <1> QED BY <1>1, SafeFollows, PTL

-----------------------------------------------------------------------------
(***************************************************************************)
(* TsMemoryPool: each block has one owner, is on its way back or lies in   *)
(* the ring, and alloc returns NULL only when the ring is empty; for any   *)
(* number of threads, any capacity and any width of the cursors, as long   *)
(* as the cursors do not wrap around and the compare-and-swap does not     *)
(* fail spuriously.                                                        *)
(***************************************************************************)

\* alloc is called fewer times than the cursors have values: they do not wrap around.
NoWrap == TsMaxCalls + TsCapacity < CursorMod

\* The threads inside alloc.
Allocating == {t \in TsThreads : ts_pc[t] \in {"test", "fetch", "cas"}}

\* The free cursor is at most a lap ahead, and each move of the alloc cursor is one
\* call of alloc that has returned.
CursorsInv ==
  /\ alloc_cursor <= free_cursor /\ free_cursor <= alloc_cursor + TsCapacity
  /\ IsFiniteSet(Allocating)
  /\ alloc_cursor + Cardinality(Allocating) <= ts_calls

\* The positions between the cursors.
Ring == alloc_cursor .. free_cursor - 1

\* The blocks in the ring, those on their way back and those with an owner are different
\* ones, and all of them.
BlocksInv ==
  /\ \A i, j \in Ring : ptrs[TsIdx(i)] = ptrs[TsIdx(j)] => i = j
  /\ \A b \in TsBlocks : ts_owners[b] <= 1
  /\ \A s, t \in Returning : block[s] = block[t] => s = t
  /\ \A t \in Returning : ts_owners[block[t]] = 0
  /\ \A t \in Returning, i \in Ring : ptrs[TsIdx(i)] # block[t]
  /\ \A i \in Ring : ts_owners[ptrs[TsIdx(i)]] = 0
  /\ \A b \in TsBlocks : \/ ts_owners[b] = 1
                         \/ \E t \in Returning : block[t] = b
                         \/ \E i \in Ring : ptrs[TsIdx(i)] = b

\* One thread is between lock and unlock; before it moves the free cursor the block is in
\* its place.
MutexInv ==
  /\ \A t \in TsThreads : ts_pc[t] \in {"put", "advance", "unlock"} => free_mutex = {t}
  /\ \A t \in TsThreads : ts_pc[t] = "advance" => ptrs[TsIdx(free_cursor)] = block[t]

\* A copy of the alloc cursor is not ahead of it; while it is up to date the ring was not
\* empty when it was tested, and the pointer fetched is the one there.
CopiesInv ==
  \A t \in Allocating :
    /\ expected[t] <= alloc_cursor
    /\ ts_pc[t] \in {"fetch", "cas"} /\ expected[t] = alloc_cursor => alloc_cursor < free_cursor
    /\ ts_pc[t] = "cas" /\ expected[t] = alloc_cursor => ts_data[t] = ptrs[TsIdx(alloc_cursor)]

TsIInv == TsTypeOK /\ CursorsInv /\ BlocksInv /\ MutexInv /\ CopiesInv

-----------------------------------------------------------------------------
(* Arithmetic of the cursors.                                              *)

\* What the assumptions say of the constants.
LEMMA Consts ==
  ASSUME TsAssumption, NoWrap
  PROVE  /\ TsCapacity \in Nat \ {0} /\ CursorMod \in Nat \ {0} /\ TsMaxCalls \in Nat
         /\ TsMaxCalls + TsCapacity < CursorMod
  BY DEF TsAssumption, NoWrap

\* The cursors are numbers, and their successors are not wrapped.
LEMMA Cursors ==
  ASSUME TsAssumption, NoWrap, TsIInv
  PROVE  /\ alloc_cursor \in Nat /\ free_cursor \in Nat /\ ts_calls \in Nat
         /\ ts_calls <= TsMaxCalls /\ Cardinality(Allocating) \in Nat
         /\ alloc_cursor <= ts_calls
         /\ \A t \in Allocating : alloc_cursor + 1 <= ts_calls
         /\ TsInc(alloc_cursor) = alloc_cursor + 1
         /\ free_cursor < CursorMod
         /\ \A i \in Ring : i \in Nat
  <1>1. /\ alloc_cursor \in Nat /\ free_cursor \in Nat /\ ts_calls \in Nat
        /\ ts_calls <= TsMaxCalls /\ free_cursor < CursorMod
    BY Consts DEF TsIInv, TsTypeOK
  <1>2. Cardinality(Allocating) \in Nat /\ alloc_cursor + Cardinality(Allocating) <= ts_calls
    BY FS_CardinalityType DEF TsIInv, CursorsInv
  <1>3. ASSUME NEW t \in Allocating PROVE Cardinality(Allocating) # 0
    BY FS_EmptySet DEF TsIInv, CursorsInv
  <1>4. TsInc(alloc_cursor) = alloc_cursor + 1
    <2>1. alloc_cursor + 1 \in 0 .. CursorMod - 1
      BY <1>1, <1>2, Consts
    <2> QED BY <2>1, Consts, IntModSmall DEF TsInc
  <1> QED BY <1>1, <1>2, <1>3, <1>4 DEF Ring

\* An interval maps one to one into a set that is at least as large.
LEMMA Pigeons ==
  ASSUME NEW a \in Int, NEW b \in Int, a <= b + 1, NEW T, IsFiniteSet(T),
         NEW f \in [a .. b -> T],
         \A i, j \in a .. b : f[i] = f[j] => i = j
  PROVE  b + 1 - a <= Cardinality(T)
  <1>1. f \in Injection(a .. b, T)
    BY DEF Injection, IsInjective
  <1>2. Cardinality(a .. b) <= Cardinality(T)
    BY <1>1, FS_Injection
  <1>3. Cardinality(a .. b) = IF a > b THEN 0 ELSE b - a + 1
    BY FS_Interval
  <1> QED BY <1>2, <1>3

\* A block on its way back is not in the ring, so that the ring has room for it.
LEMMA RoomToReturn ==
  ASSUME TsAssumption, NoWrap, TsIInv, NEW t \in Returning
  PROVE  free_cursor + 1 <= alloc_cursor + TsCapacity /\ TsInc(free_cursor) = free_cursor + 1
  <1> DEFINE T == TsBlocks \ {block[t]}
             f == [i \in Ring |-> ptrs[TsIdx(i)]]
  <1>0. alloc_cursor \in Nat /\ free_cursor \in Nat /\ alloc_cursor <= free_cursor
    BY Cursors DEF TsIInv, CursorsInv
  <1>1. block[t] \in TsBlocks
    BY DEF TsIInv, TsTypeOK, Returning
  <1>2. IsFiniteSet(TsBlocks) /\ Cardinality(TsBlocks) = TsCapacity
    <2>1. 0 \in Int /\ TsCapacity - 1 \in Int /\ TsCapacity \in Nat \ {0}
      BY Consts
    <2>2. /\ IsFiniteSet(0 .. TsCapacity - 1)
          /\ Cardinality(0 .. TsCapacity - 1) =
               IF 0 > TsCapacity - 1 THEN 0 ELSE TsCapacity - 1 - 0 + 1
      BY <2>1, FS_Interval
    <2> QED BY <2>1, <2>2 DEF TsBlocks
  <1>3. IsFiniteSet(T) /\ Cardinality(T) = TsCapacity - 1
    BY Zenon, <1>1, <1>2, FS_RemoveElement
  <1>4. ASSUME NEW i \in Ring PROVE ptrs[TsIdx(i)] \in T
    <2>1. i \in Nat
      BY <1>4, Cursors
    <2>2. TsIdx(i) \in TsBlocks
      BY Zenon, <2>1, Consts, DivMod DEF TsIdx, TsBlocks
    <2> QED BY <2>2 DEF TsIInv, TsTypeOK, BlocksInv
  <1>5. f \in [alloc_cursor .. free_cursor - 1 -> T]
    BY <1>4 DEF Ring
  <1>6. \A i, j \in alloc_cursor .. free_cursor - 1 : f[i] = f[j] => i = j
    BY DEF TsIInv, BlocksInv, Ring
  <1> HIDE DEF f, T
  <1>7. (free_cursor - 1) + 1 - alloc_cursor <= Cardinality(T)
    <2>1. /\ alloc_cursor \in Int /\ free_cursor - 1 \in Int
          /\ alloc_cursor <= (free_cursor - 1) + 1
      BY <1>0
    <2> QED BY <1>3, <1>5, <1>6, <2>1, Pigeons
  <1>8. free_cursor + 1 <= alloc_cursor + TsCapacity
    BY <1>0, <1>3, <1>7, Consts
  <1>9. TsInc(free_cursor) = free_cursor + 1
    <2>1. free_cursor + 1 \in 0 .. CursorMod - 1
      BY <1>0, <1>8, Cursors, Consts
    <2> QED BY <2>1, Consts, IntModSmall DEF TsInc
  <1> QED BY <1>8, <1>9

\* The slot behind the ring is not one of its slots.
LEMMA SlotsApart ==
  ASSUME TsAssumption, NoWrap, TsIInv, free_cursor + 1 <= alloc_cursor + TsCapacity,
         NEW i \in Ring
  PROVE  TsIdx(i) # TsIdx(free_cursor) /\ TsIdx(i) \in TsBlocks /\ TsIdx(free_cursor) \in TsBlocks
  <1>1. i \in Nat /\ free_cursor \in Nat /\ i < free_cursor /\ free_cursor < i + TsCapacity
    BY Cursors, Consts DEF Ring
  <1>2. TsIdx(i) # TsIdx(free_cursor)
    BY <1>1, Consts, ModApart DEF TsIdx
  <1> QED BY Zenon, <1>1, <1>2, Consts, DivMod DEF TsIdx, TsBlocks

-----------------------------------------------------------------------------
(* Types and cursors.                                                      *)

\* While the cursors do not wrap, the loop of alloc ends only with a block or with NULL.
LEMMA CasRetries ==
  ASSUME TsAssumption, NoWrap, ~TsWeakCas, TsIInv, NEW t \in TsThreads, AllocCasFails(t)
  PROVE  expected[t] < alloc_cursor /\ TsGoto(t, "test") /\ UNCHANGED ts_owners
  <1>1. expected[t] <= alloc_cursor /\ alloc_cursor # expected[t] /\ expected[t] \in Nat
    BY Consts DEF AllocCasFails, TsIInv, TsTypeOK, CopiesInv, Allocating
  <1>2. TsIdx(expected[t]) <= expected[t] /\ TsIdx(expected[t]) \in Nat
    <2> DEFINE e == expected[t]
    <2>1. e \in Nat /\ TsCapacity \in Nat \ {0}
      BY <1>1, Consts
    <2> HIDE DEF e
    <2>2. e % TsCapacity <= e /\ e % TsCapacity \in Nat
      BY <2>1
    <2> QED BY <2>2 DEF e, TsIdx
  <1>3. alloc_cursor \in Nat
    BY Cursors
  <1>4. expected[t] < alloc_cursor /\ alloc_cursor # TsIdx(expected[t])
    BY <1>1, <1>2, <1>3
  <1> QED BY <1>4 DEF AllocCasFails

\* Every step keeps the types.
LEMMA TypeStep ==
  ASSUME TsAssumption, NoWrap, ~TsWeakCas, TsIInv, [TsNext]_tsVars
  PROVE  TsTypeOK'
  <1> USE DEF TsTypeOK, TsGoto, tsPool
  <1>0. TsTypeOK /\ TsCapacity \in Nat \ {0} /\ CursorMod \in Nat \ {0}
    BY Consts DEF TsIInv
  <1>a. \A x \in Nat : TsIdx(x) \in TsBlocks
    BY Zenon, <1>0, DivMod DEF TsIdx, TsBlocks
  <1>1. ASSUME NEW t \in TsThreads, AllocCall(t) PROVE TsTypeOK'
    <2>1. ts_calls + 1 \in 0 .. TsMaxCalls
      BY <1>0, <1>1, Consts DEF AllocCall
    <2> QED BY <1>0, <1>1, <2>1 DEF AllocCall
  <1>2. ASSUME NEW t \in TsThreads, NEW b \in TsBlocks, FreeCall(t, b) PROVE TsTypeOK'
    <2>1. ts_owners[b] \in Nat /\ ts_owners[b] > 0
      BY <1>0, <1>2 DEF FreeCall
    <2>2. ts_owners[b] + -1 \in Nat
      BY <2>1
    <2>3. ts_owners' \in [TsBlocks -> Nat]
      BY <1>0, <1>2, <2>2 DEF FreeCall, Own
    <2> QED BY <1>0, <1>2, <2>3 DEF FreeCall
  <1>3. ASSUME NEW t \in TsThreads, AllocTest(t) PROVE TsTypeOK'
    BY <1>0, <1>3 DEF AllocTest
  <1>4. ASSUME NEW t \in TsThreads, AllocFetch(t) PROVE TsTypeOK'
    <2>1. expected[t] \in Nat
      BY <1>0
    <2>2. ptrs[TsIdx(expected[t])] \in TsBlocks
      BY <1>0, <1>a, <2>1
    <2> QED BY <1>0, <1>4, <2>2 DEF AllocFetch
  <1>5. ASSUME NEW t \in TsThreads, AllocCas(t) PROVE TsTypeOK'
    <2>1. alloc_cursor' \in 0 .. CursorMod - 1
      <3>1. expected[t] + 1 \in Nat
        BY <1>0
      <3> QED BY Zenon, <1>0, <1>5, <3>1, DivMod DEF AllocCas, TsInc
    <2>2. ts_owners' \in [TsBlocks -> Nat]
      <3>1. ts_data[t] \in TsBlocks /\ ts_owners[ts_data[t]] + 1 \in Nat
        BY <1>0
      <3> QED BY <1>0, <1>5, <3>1 DEF AllocCas, Own
    <2> QED BY <1>0, <1>5, <2>1, <2>2 DEF AllocCas
  <1>6. ASSUME NEW t \in TsThreads, AllocCasFails(t) PROVE TsTypeOK'
    <2>1. TsGoto(t, "test") /\ ts_owners' = ts_owners
      BY <1>6, CasRetries
    <2> QED BY <1>0, <1>6, <2>1 DEF AllocCasFails
  <1>7. ASSUME NEW t \in TsThreads, FreeLock(t) PROVE TsTypeOK'
    BY <1>0, <1>7 DEF FreeLock
  <1>8. ASSUME NEW t \in TsThreads, FreePut(t) PROVE TsTypeOK'
    BY Zenon, <1>0, <1>8 DEF FreePut
  <1>9. ASSUME NEW t \in TsThreads, FreeAdvance(t) PROVE TsTypeOK'
    <2>1. free_cursor' \in 0 .. CursorMod - 1
      <3>1. free_cursor + 1 \in Nat
        BY <1>0
      <3> QED BY <1>0, <1>9, <3>1, DivMod DEF FreeAdvance, TsInc
    <2> QED BY <1>0, <1>9, <2>1 DEF FreeAdvance
  <1>10. ASSUME NEW t \in TsThreads, FreeUnlock(t) PROVE TsTypeOK'
    BY <1>0, <1>10 DEF FreeUnlock
  <1>11. CASE UNCHANGED tsVars
    BY <1>0, <1>11 DEF tsVars
  <1> HIDE DEF TsTypeOK, TsGoto, tsPool
  <1> QED BY <1>1, <1>2, <1>3, <1>4, <1>5, <1>6, <1>7, <1>8, <1>9, <1>10, <1>11
          DEF TsNext, TsStep

\* A thread that stays inside or outside of alloc leaves the count of the others alone.
LEMMA SameAllocating ==
  ASSUME TsIInv, NEW t \in TsThreads, NEW l, TsGoto(t, l),
         t \in Allocating <=> l \in {"test", "fetch", "cas"}
  PROVE  Allocating' = Allocating
  BY DEF TsIInv, TsTypeOK, TsGoto, Allocating

\* A thread leaves alloc.
LEMMA LeaveAlloc ==
  ASSUME TsAssumption, NoWrap, TsIInv, NEW t \in Allocating, TsGoto(t, "idle")
  PROVE  /\ IsFiniteSet(Allocating')
         /\ Cardinality(Allocating') = Cardinality(Allocating) - 1
  <1>1. Allocating' = Allocating \ {t}
    BY DEF TsIInv, TsTypeOK, TsGoto, Allocating
  <1> QED BY <1>1, FS_RemoveElement DEF TsIInv, CursorsInv

\* The free cursor stays at most a lap ahead of the alloc cursor.
LEMMA CursorsStep ==
  ASSUME TsAssumption, NoWrap, ~TsWeakCas, TsIInv, [TsNext]_tsVars
  PROVE  CursorsInv'
  <1>0. /\ alloc_cursor \in Nat /\ free_cursor \in Nat /\ ts_calls \in Nat
        /\ alloc_cursor <= free_cursor /\ free_cursor <= alloc_cursor + TsCapacity
        /\ TsCapacity \in Nat \ {0} /\ TsInc(alloc_cursor) = alloc_cursor + 1
        /\ IsFiniteSet(Allocating) /\ Cardinality(Allocating) \in Nat
        /\ alloc_cursor + Cardinality(Allocating) <= ts_calls
    BY Cursors, Consts DEF TsIInv, CursorsInv
  <1>a. CASE /\ UNCHANGED <<alloc_cursor, free_cursor, ts_calls>> /\ Allocating' = Allocating
    BY <1>0, <1>a DEF CursorsInv
  <1>1. ASSUME NEW t \in TsThreads, AllocCall(t) PROVE CursorsInv'
    <2>1. t \notin Allocating /\ Allocating' = Allocating \cup {t}
      BY <1>1 DEF TsIInv, TsTypeOK, AllocCall, TsGoto, Allocating
    <2>2. IsFiniteSet(Allocating') /\ Cardinality(Allocating') = Cardinality(Allocating) + 1
      BY <1>0, <2>1, FS_AddElement
    <2>3. UNCHANGED <<alloc_cursor, free_cursor>> /\ ts_calls' = ts_calls + 1
      BY <1>1 DEF AllocCall, tsPool
    <2> QED BY <1>0, <2>2, <2>3 DEF CursorsInv
  <1>2. ASSUME NEW t \in TsThreads, NEW b \in TsBlocks, FreeCall(t, b) PROVE CursorsInv'
    <2>1. Allocating' = Allocating
      BY <1>2, SameAllocating DEF FreeCall, Allocating
    <2> QED BY <1>a, <1>2, <2>1 DEF FreeCall, tsPool
  <1>3. ASSUME NEW t \in TsThreads, AllocTest(t) PROVE CursorsInv'
    <2>0. /\ UNCHANGED <<alloc_cursor, free_cursor, ts_calls>> /\ t \in Allocating
          /\ TsGoto(t, "idle") \/ TsGoto(t, "fetch")
      BY <1>3 DEF AllocTest, tsPool, Allocating
    <2>1. CASE TsGoto(t, "idle")
      <3>1. IsFiniteSet(Allocating') /\ Cardinality(Allocating') = Cardinality(Allocating) - 1
        BY <2>0, <2>1, LeaveAlloc
      <3> QED BY <1>0, <2>0, <3>1 DEF CursorsInv
    <2>2. CASE TsGoto(t, "fetch")
      BY <1>a, <2>0, <2>2, SameAllocating
    <2> QED BY <2>0, <2>1, <2>2
  <1>4. ASSUME NEW t \in TsThreads, AllocFetch(t) PROVE CursorsInv'
    <2>1. Allocating' = Allocating
      BY <1>4, SameAllocating DEF AllocFetch, Allocating
    <2> QED BY <1>a, <1>4, <2>1 DEF AllocFetch, tsPool
  <1>5. ASSUME NEW t \in TsThreads, AllocCas(t) PROVE CursorsInv'
    <2>1. /\ t \in Allocating /\ TsGoto(t, "idle") /\ alloc_cursor = expected[t]
          /\ alloc_cursor' = TsInc(alloc_cursor) /\ UNCHANGED <<free_cursor, ts_calls>>
          /\ ts_pc[t] = "cas"
      BY <1>5 DEF AllocCas, Allocating
    <2>2. alloc_cursor < free_cursor
      BY <2>1 DEF TsIInv, CopiesInv
    <2>3. IsFiniteSet(Allocating') /\ Cardinality(Allocating') = Cardinality(Allocating) - 1
      BY <2>1, LeaveAlloc
    <2> QED BY <1>0, <2>1, <2>2, <2>3 DEF CursorsInv
  <1>6. ASSUME NEW t \in TsThreads, AllocCasFails(t) PROVE CursorsInv'
    <2>1. TsGoto(t, "test")
      BY <1>6, CasRetries
    <2>2. Allocating' = Allocating
      BY <1>6, <2>1, SameAllocating DEF AllocCasFails, Allocating
    <2> QED BY <1>a, <1>6, <2>2 DEF AllocCasFails, tsPool
  <1>7. ASSUME NEW t \in TsThreads, FreeLock(t) PROVE CursorsInv'
    <2>1. Allocating' = Allocating
      BY <1>7, SameAllocating DEF FreeLock, Allocating
    <2> QED BY <1>a, <1>7, <2>1 DEF FreeLock
  <1>8. ASSUME NEW t \in TsThreads, FreePut(t) PROVE CursorsInv'
    <2>1. Allocating' = Allocating
      BY <1>8, SameAllocating DEF FreePut, Allocating
    <2> QED BY <1>a, <1>8, <2>1 DEF FreePut
  <1>9. ASSUME NEW t \in TsThreads, FreeAdvance(t) PROVE CursorsInv'
    <2>1. Allocating' = Allocating
      BY <1>9, SameAllocating DEF FreeAdvance, Allocating
    <2>2. t \in Returning /\ free_cursor' = TsInc(free_cursor) /\ UNCHANGED <<alloc_cursor,
                                                                              ts_calls>>
      BY <1>9 DEF FreeAdvance, Returning
    <2>3. free_cursor + 1 <= alloc_cursor + TsCapacity /\ free_cursor' = free_cursor + 1
      BY <2>2, RoomToReturn
    <2> QED BY <1>0, <2>1, <2>2, <2>3 DEF CursorsInv
  <1>10. ASSUME NEW t \in TsThreads, FreeUnlock(t) PROVE CursorsInv'
    <2>1. Allocating' = Allocating
      BY <1>10, SameAllocating DEF FreeUnlock, Allocating
    <2> QED BY <1>a, <1>10, <2>1 DEF FreeUnlock
  <1>11. CASE UNCHANGED tsVars
    BY <1>a, <1>11 DEF tsVars, tsPool, Allocating
  <1> QED BY <1>1, <1>2, <1>3, <1>4, <1>5, <1>6, <1>7, <1>8, <1>9, <1>10, <1>11
          DEF TsNext, TsStep

-----------------------------------------------------------------------------
(* The mutex and the copies of the alloc cursor.                           *)

\* free_mutex admits one thread at a time.
LEMMA MutexStep ==
  ASSUME TsAssumption, NoWrap, ~TsWeakCas, TsIInv, [TsNext]_tsVars
  PROVE  MutexInv'
  <1>0. /\ \A t \in TsThreads : ts_pc[t] \in {"put", "advance", "unlock"} => free_mutex = {t}
        /\ \A t \in TsThreads : ts_pc[t] = "advance" => ptrs[TsIdx(free_cursor)] = block[t]
        /\ ts_pc \in [TsThreads -> {"idle", "test", "fetch", "cas", "lock", "put", "advance",
                               "unlock"}]
        /\ block \in [TsThreads -> TsBlocks] /\ ptrs \in [TsBlocks -> TsBlocks]
    BY DEF TsIInv, TsTypeOK, MutexInv
  <1>1. ASSUME NEW t \in TsThreads, UNCHANGED <<free_mutex, ptrs, free_cursor>>,
               ts_pc[t] \notin {"put", "advance", "unlock"},
               NEW l \in {"idle", "test", "fetch", "cas", "lock"}, TsGoto(t, l),
               \A s \in TsThreads \ {t} : block'[s] = block[s]
        PROVE  MutexInv'
    <2>1. /\ ts_pc'[t] = l /\ \A s \in TsThreads \ {t} : ts_pc'[s] = ts_pc[s]
      BY <1>0, <1>1 DEF TsGoto
    <2>2. \A s \in TsThreads : ts_pc'[s] \in {"put", "advance", "unlock"} => s # t /\ ts_pc'[s] = ts_pc[s]
      BY <1>1, <2>1
    <2> QED BY <1>0, <1>1, <2>2 DEF MutexInv
  <1>2. ASSUME NEW t \in TsThreads, AllocCall(t) PROVE MutexInv'
    BY <1>1, <1>2 DEF AllocCall, tsPool
  <1>3. ASSUME NEW t \in TsThreads, AllocTest(t) PROVE MutexInv'
    <2>1. TsGoto(t, "idle") \/ TsGoto(t, "fetch")
      BY <1>3 DEF AllocTest
    <2> QED BY <1>1, <1>3, <2>1 DEF AllocTest, tsPool
  <1>4. ASSUME NEW t \in TsThreads, AllocFetch(t) PROVE MutexInv'
    BY <1>1, <1>4 DEF AllocFetch, tsPool
  <1>5. ASSUME NEW t \in TsThreads, AllocCas(t) PROVE MutexInv'
    BY <1>1, <1>5 DEF AllocCas
  <1>6. ASSUME NEW t \in TsThreads, AllocCasFails(t) PROVE MutexInv'
    <2>1. TsGoto(t, "test")
      BY <1>6, CasRetries
    <2> QED BY <1>1, <1>6, <2>1 DEF AllocCasFails, tsPool
  <1>7. ASSUME NEW t \in TsThreads, NEW b \in TsBlocks, FreeCall(t, b) PROVE MutexInv'
    <2>1. \A s \in TsThreads \ {t} : block'[s] = block[s]
      BY <1>0, <1>7 DEF FreeCall
    <2> QED BY <1>1, <1>7, <2>1 DEF FreeCall, tsPool
  <1>8. ASSUME NEW t \in TsThreads, FreeLock(t) PROVE MutexInv'
    <2>1. /\ free_mutex = {} /\ free_mutex' = {t} /\ ts_pc'[t] = "put"
          /\ \A s \in TsThreads \ {t} : ts_pc'[s] = ts_pc[s]
      BY <1>0, <1>8 DEF FreeLock, TsGoto
    <2>2. \A s \in TsThreads \ {t} : ts_pc'[s] \notin {"put", "advance", "unlock"}
      BY <1>0, <2>1
    <2> QED BY <2>1, <2>2 DEF MutexInv
  <1>9. ASSUME NEW t \in TsThreads, FreePut(t) \/ FreeAdvance(t) \/ FreeUnlock(t)
        PROVE  \A s \in TsThreads \ {t} : /\ ts_pc'[s] = ts_pc[s]
                                          /\ ts_pc[s] \notin {"put", "advance", "unlock"}
    <2>1. ts_pc[t] \in {"put", "advance", "unlock"} /\ \A s \in TsThreads \ {t} : ts_pc'[s] = ts_pc[s]
      BY <1>0, <1>9 DEF FreePut, FreeAdvance, FreeUnlock, TsGoto
    <2> QED BY <1>0, <2>1
  <1>10. ASSUME NEW t \in TsThreads, FreePut(t) PROVE MutexInv'
    <2>1. TsIdx(free_cursor) \in TsBlocks
      BY Zenon, Cursors, Consts, DivMod DEF TsIdx, TsBlocks
    <2>2. /\ free_mutex' = {t} /\ ts_pc'[t] = "advance"
          /\ ptrs'[TsIdx(free_cursor)] = block[t] /\ UNCHANGED <<block, free_cursor>>
      BY <1>0, <1>10, <2>1 DEF FreePut, TsGoto
    <2> QED BY <1>9, <1>10, <2>2 DEF MutexInv
  <1>11. ASSUME NEW t \in TsThreads, FreeAdvance(t) PROVE MutexInv'
    <2>1. free_mutex' = {t} /\ ts_pc'[t] = "unlock"
      BY <1>0, <1>11 DEF FreeAdvance, TsGoto
    <2> QED BY <1>9, <1>11, <2>1 DEF MutexInv
  <1>12. ASSUME NEW t \in TsThreads, FreeUnlock(t) PROVE MutexInv'
    <2>1. ts_pc'[t] = "idle"
      BY <1>0, <1>12 DEF FreeUnlock, TsGoto
    <2> QED BY <1>9, <1>12, <2>1 DEF MutexInv
  <1>13. CASE UNCHANGED tsVars
    BY <1>0, <1>13 DEF tsVars, tsPool, MutexInv
  <1> QED BY <1>2, <1>3, <1>4, <1>5, <1>6, <1>7, <1>8, <1>10, <1>11, <1>12, <1>13
          DEF TsNext, TsStep

\* The copy that alloc took of the cursor, and the pointer it fetched, stay right.
LEMMA CopiesStep ==
  ASSUME TsAssumption, NoWrap, ~TsWeakCas, TsIInv, [TsNext]_tsVars
  PROVE  CopiesInv'
  <1>0. /\ ts_pc \in [TsThreads -> {"idle", "test", "fetch", "cas", "lock", "put", "advance",
                               "unlock"}]
        /\ expected \in [TsThreads -> Nat] /\ ts_data \in [TsThreads -> TsBlocks]
        /\ alloc_cursor \in Nat /\ free_cursor \in Nat /\ alloc_cursor <= free_cursor
        /\ TsInc(alloc_cursor) = alloc_cursor + 1
    <2>1. expected \in [TsThreads -> 0 .. CursorMod - 1] /\ CursorMod \in Nat
      BY Consts DEF TsIInv, TsTypeOK
    <2>2. expected \in [TsThreads -> Nat]
      BY <2>1
    <2> QED BY <2>2, Cursors DEF TsIInv, TsTypeOK, CursorsInv
  <1>a. \A t \in TsThreads : ts_pc[t] \in {"test", "fetch", "cas"} =>
          /\ expected[t] <= alloc_cursor
          /\ ts_pc[t] # "test" /\ expected[t] = alloc_cursor => alloc_cursor < free_cursor
          /\ ts_pc[t] = "cas" /\ expected[t] = alloc_cursor => ts_data[t] = ptrs[TsIdx(alloc_cursor)]
    BY DEF TsIInv, CopiesInv, Allocating
  <1>1. ASSUME NEW t \in TsThreads, AllocCall(t) \/ AllocCasFails(t) PROVE CopiesInv'
    <2>1. /\ UNCHANGED <<alloc_cursor, free_cursor, ptrs, ts_data>>
          /\ expected'[t] = alloc_cursor /\ ts_pc'[t] = "test"
          /\ \A s \in TsThreads \ {t} : ts_pc'[s] = ts_pc[s] /\ expected'[s] = expected[s]
      <3>1. TsGoto(t, "test")
        BY <1>1, CasRetries DEF AllocCall
      <3> QED BY <1>0, <1>1, <3>1 DEF AllocCall, AllocCasFails, tsPool, TsGoto
    <2> QED BY <1>0, <1>a, <2>1 DEF CopiesInv, Allocating
  <1>2. ASSUME NEW t \in TsThreads, AllocTest(t) PROVE CopiesInv'
    <2>1. /\ UNCHANGED <<alloc_cursor, free_cursor, ptrs, ts_data, expected>>
          /\ ts_pc[t] = "test" /\ ts_pc'[t] = (IF expected[t] = free_cursor THEN "idle" ELSE "fetch")
          /\ \A s \in TsThreads \ {t} : ts_pc'[s] = ts_pc[s]
      BY <1>0, <1>2 DEF AllocTest, tsPool, TsGoto
    <2> QED BY <1>0, <1>a, <2>1 DEF CopiesInv, Allocating
  <1>3. ASSUME NEW t \in TsThreads, AllocFetch(t) PROVE CopiesInv'
    <2>1. /\ UNCHANGED <<alloc_cursor, free_cursor, ptrs, expected>>
          /\ ts_pc[t] = "fetch" /\ ts_pc'[t] = "cas" /\ ts_data'[t] = ptrs[TsIdx(expected[t])]
          /\ \A s \in TsThreads \ {t} : ts_pc'[s] = ts_pc[s] /\ ts_data'[s] = ts_data[s]
      BY <1>0, <1>3 DEF AllocFetch, tsPool, TsGoto
    <2> QED BY <1>0, <1>a, <2>1 DEF CopiesInv, Allocating
  <1>4. ASSUME NEW t \in TsThreads, AllocCas(t) PROVE CopiesInv'
    <2>1. /\ UNCHANGED <<free_cursor, ptrs, expected, ts_data>> /\ ts_pc'[t] = "idle"
          /\ alloc_cursor' = alloc_cursor + 1
          /\ \A s \in TsThreads \ {t} : ts_pc'[s] = ts_pc[s]
      BY <1>0, <1>4 DEF AllocCas, TsGoto
    <2>2. \A s \in TsThreads : ts_pc'[s] \in {"test", "fetch", "cas"} =>
            expected'[s] <= alloc_cursor' /\ expected'[s] # alloc_cursor'
      BY <1>0, <1>a, <2>1
    <2> QED BY <2>2 DEF CopiesInv, Allocating
  <1>5. ASSUME NEW t \in TsThreads, FreePut(t) PROVE CopiesInv'
    <2>1. /\ UNCHANGED <<alloc_cursor, free_cursor, expected, ts_data>> /\ ts_pc'[t] = "advance"
          /\ ptrs' = [ptrs EXCEPT ![TsIdx(free_cursor)] = block[t]]
          /\ \A s \in TsThreads \ {t} : ts_pc'[s] = ts_pc[s]
          /\ t \in Returning
      BY <1>0, <1>5 DEF FreePut, TsGoto, Returning
    <2>2. alloc_cursor < free_cursor => ptrs'[TsIdx(alloc_cursor)] = ptrs[TsIdx(alloc_cursor)]
      <3>1. free_cursor + 1 <= alloc_cursor + TsCapacity
        BY <2>1, RoomToReturn
      <3>2. alloc_cursor < free_cursor => alloc_cursor \in Ring
        BY <1>0 DEF Ring
      <3> QED BY <2>1, <3>1, <3>2, SlotsApart DEF TsIInv, TsTypeOK
    <2> QED BY <1>0, <1>a, <2>1, <2>2 DEF CopiesInv, Allocating
  <1>6. ASSUME NEW t \in TsThreads, FreeAdvance(t) PROVE CopiesInv'
    <2>1. /\ UNCHANGED <<alloc_cursor, ptrs, expected, ts_data>> /\ ts_pc'[t] = "unlock"
          /\ \A s \in TsThreads \ {t} : ts_pc'[s] = ts_pc[s]
          /\ t \in Returning /\ free_cursor' = TsInc(free_cursor)
      BY <1>0, <1>6 DEF FreeAdvance, TsGoto, Returning
    <2>2. free_cursor' = free_cursor + 1
      BY <2>1, RoomToReturn
    <2> QED BY <1>0, <1>a, <2>1, <2>2 DEF CopiesInv, Allocating
  <1>7. ASSUME NEW t \in TsThreads,
               FreeLock(t) \/ FreeUnlock(t) \/ \E b \in TsBlocks : FreeCall(t, b)
        PROVE  CopiesInv'
    <2>1. /\ UNCHANGED <<alloc_cursor, free_cursor, ptrs, expected, ts_data>>
          /\ ts_pc'[t] \in {"put", "idle", "lock"}
          /\ \A s \in TsThreads \ {t} : ts_pc'[s] = ts_pc[s]
      BY <1>0, <1>7 DEF FreeLock, FreeUnlock, FreeCall, tsPool, TsGoto
    <2> QED BY <1>a, <2>1 DEF CopiesInv, Allocating
  <1>8. CASE UNCHANGED tsVars
    BY <1>a, <1>8 DEF tsVars, tsPool, CopiesInv, Allocating
  <1> QED BY <1>1, <1>2, <1>3, <1>4, <1>5, <1>6, <1>7, <1>8 DEF TsNext, TsStep

-----------------------------------------------------------------------------
(* The blocks.                                                             *)

\* A block is in the ring, on its way back or owned, and never two of these.
LEMMA BlocksStep ==
  ASSUME TsAssumption, NoWrap, ~TsWeakCas, TsIInv, [TsNext]_tsVars
  PROVE  BlocksInv'
  <1>0. /\ ts_pc \in [TsThreads -> {"idle", "test", "fetch", "cas", "lock", "put", "advance",
                               "unlock"}]
        /\ block \in [TsThreads -> TsBlocks] /\ ptrs \in [TsBlocks -> TsBlocks]
        /\ ts_owners \in [TsBlocks -> Nat] /\ ts_data \in [TsThreads -> TsBlocks]
        /\ alloc_cursor \in Nat /\ free_cursor \in Nat /\ alloc_cursor <= free_cursor
        /\ \A x \in Nat : TsIdx(x) \in TsBlocks
    <2>1. \A x \in Nat : TsIdx(x) \in TsBlocks
      BY Zenon, Consts, DivMod DEF TsIdx, TsBlocks
    <2> QED BY <2>1, Cursors DEF TsIInv, TsTypeOK, CursorsInv
  <1>a. /\ \A i, j \in Ring : ptrs[TsIdx(i)] = ptrs[TsIdx(j)] => i = j
        /\ \A b \in TsBlocks : ts_owners[b] <= 1
        /\ \A s, t \in Returning : block[s] = block[t] => s = t
        /\ \A t \in Returning : ts_owners[block[t]] = 0
        /\ \A t \in Returning, i \in Ring : ptrs[TsIdx(i)] # block[t]
        /\ \A i \in Ring : ts_owners[ptrs[TsIdx(i)]] = 0
        /\ \A b \in TsBlocks : \/ ts_owners[b] = 1
                               \/ \E t \in Returning : block[t] = b
                               \/ \E i \in Ring : ptrs[TsIdx(i)] = b
    BY DEF TsIInv, BlocksInv
  <1>b. ASSUME Ring' = Ring, \A i \in Ring : ptrs'[TsIdx(i)] = ptrs[TsIdx(i)],
               Returning' = Returning, UNCHANGED <<block, ts_owners>>
        PROVE  BlocksInv'
    BY <1>a, <1>b DEF BlocksInv
  <1>1. ASSUME NEW t \in TsThreads,
               AllocCall(t) \/ AllocTest(t) \/ AllocFetch(t) \/ AllocCasFails(t)
        PROVE  BlocksInv'
    <2>1. \E l \in {"test", "idle", "fetch", "cas"} : TsGoto(t, l)
      BY <1>1, CasRetries DEF AllocCall, AllocTest, AllocFetch
    <2>2. Returning' = Returning
      <3>1. ts_pc[t] \notin {"lock", "put", "advance"} /\ ts_pc'[t] \notin {"lock", "put",
      "advance"}
        BY <1>0, <1>1, <2>1 DEF AllocCall, AllocTest, AllocFetch, AllocCasFails, TsGoto
      <3>2. \A s \in TsThreads \ {t} : ts_pc'[s] = ts_pc[s]
        BY <1>0, <2>1 DEF TsGoto
      <3> QED BY <3>1, <3>2 DEF Returning
    <2>3. UNCHANGED <<alloc_cursor, free_cursor, ptrs, block, ts_owners>>
      BY <1>1, CasRetries DEF AllocCall, AllocTest, AllocFetch, AllocCasFails, tsPool
    <2> QED BY <1>b, <2>2, <2>3 DEF Ring
  <1>2. ASSUME NEW t \in TsThreads, FreeLock(t) \/ FreeUnlock(t) PROVE BlocksInv'
    <2>1. Returning' = Returning
      BY <1>0, <1>2 DEF FreeLock, FreeUnlock, TsGoto, Returning
    <2>2. UNCHANGED <<alloc_cursor, free_cursor, ptrs, block, ts_owners>>
      BY <1>2 DEF FreeLock, FreeUnlock
    <2> QED BY <1>b, <2>1, <2>2 DEF Ring
  <1>3. ASSUME NEW t \in TsThreads, FreePut(t) PROVE BlocksInv'
    <2>1. /\ Returning' = Returning /\ t \in Returning
          /\ UNCHANGED <<alloc_cursor, free_cursor, block, ts_owners>>
          /\ ptrs' = [ptrs EXCEPT ![TsIdx(free_cursor)] = block[t]]
      BY <1>0, <1>3 DEF FreePut, TsGoto, Returning
    <2>2. free_cursor + 1 <= alloc_cursor + TsCapacity
      BY <2>1, RoomToReturn
    <2>3. \A i \in Ring : ptrs'[TsIdx(i)] = ptrs[TsIdx(i)]
      BY <1>0, <2>1, <2>2, SlotsApart
    <2> QED BY <1>b, <2>1, <2>3 DEF Ring
  <1>4. ASSUME NEW t \in TsThreads, FreeAdvance(t) PROVE BlocksInv'
    <2>1. /\ Returning' = Returning \ {t} /\ t \in Returning /\ ts_pc[t] = "advance"
          /\ UNCHANGED <<alloc_cursor, ptrs, block, ts_owners>>
          /\ free_cursor' = TsInc(free_cursor)
      BY <1>0, <1>4 DEF FreeAdvance, TsGoto, Returning
    <2>2. free_cursor' = free_cursor + 1
      BY <2>1, RoomToReturn
    <2>3. Ring' = Ring \cup {free_cursor} /\ free_cursor \notin Ring
      BY <1>0, <2>1, <2>2 DEF Ring
    <2>4. ptrs[TsIdx(free_cursor)] = block[t] /\ block[t] \in TsBlocks
      BY <1>0, <2>1 DEF TsIInv, MutexInv, Returning
    <2>5. \A i, j \in Ring' : ptrs[TsIdx(i)] = ptrs[TsIdx(j)] => i = j
      BY <1>a, <2>1, <2>3, <2>4
    <2>6. \A s \in Returning', i \in Ring' : ptrs[TsIdx(i)] # block[s]
      BY <1>a, <2>1, <2>3, <2>4
    <2>7. \A i \in Ring' : ts_owners[ptrs[TsIdx(i)]] = 0
      BY <1>a, <2>1, <2>3, <2>4
    <2>8. \A b \in TsBlocks : \/ ts_owners[b] = 1
                              \/ \E s \in Returning' : block[s] = b
                              \/ \E i \in Ring' : ptrs[TsIdx(i)] = b
      BY <1>a, <2>1, <2>3, <2>4
    <2> QED BY <1>a, <2>1, <2>5, <2>6, <2>7, <2>8 DEF BlocksInv
  <1>5. ASSUME NEW t \in TsThreads, AllocCas(t) PROVE BlocksInv'
    <2> DEFINE d == ts_data[t]
    <2>1. /\ t \in Allocating /\ ts_pc[t] = "cas" /\ alloc_cursor = expected[t]
          /\ UNCHANGED <<free_cursor, ptrs, block>>
          /\ alloc_cursor' = TsInc(alloc_cursor) /\ d \in TsBlocks
          /\ ts_owners' = [ts_owners EXCEPT ![d] = @ + 1]
          /\ Returning' = Returning
      BY <1>0, <1>5 DEF AllocCas, TsGoto, Own, Allocating, Returning
    <2>2. alloc_cursor < free_cursor /\ d = ptrs[TsIdx(alloc_cursor)]
      BY Zenon, <2>1 DEF TsIInv, CopiesInv
    <2>3. alloc_cursor' = alloc_cursor + 1
      BY <2>1, Cursors
    <2>4. Ring' = Ring \ {alloc_cursor} /\ alloc_cursor \in Ring
      BY <1>0, <2>1, <2>2, <2>3 DEF Ring
    <2>5. ts_owners[d] = 0 /\ (\A s \in Returning : block[s] # d)
          /\ \A i \in Ring' : ptrs[TsIdx(i)] # d
      BY <1>a, <2>2, <2>4
    <2>6. ts_owners'[d] = 1 /\ \A b \in TsBlocks \ {d} : ts_owners'[b] = ts_owners[b]
      BY <1>0, <2>1, <2>5
    <2> HIDE DEF d
    <2>7. \A b \in TsBlocks : ts_owners'[b] <= 1
      BY <1>a, <2>6
    <2>8. \A s \in Returning : ts_owners'[block[s]] = 0
      <3>1. \A s \in Returning : block[s] \in TsBlocks
        BY <1>0 DEF Returning
      <3> QED BY <1>a, <2>5, <2>6, <3>1
    <2>9. \A i \in Ring' : ts_owners'[ptrs[TsIdx(i)]] = 0
      <3>1. \A i \in Ring' : i \in Nat /\ ptrs[TsIdx(i)] \in TsBlocks
        BY <1>0, <2>4 DEF Ring
      <3>2. \A i \in Ring' : i \in Ring
        BY Zenon, <2>4
      <3>3. \A i \in Ring : ts_owners[ptrs[TsIdx(i)]] = 0
        BY Zenon, <1>a
      <3>4. ASSUME NEW i \in Ring' PROVE ts_owners'[ptrs[TsIdx(i)]] = 0
        <4>1. ptrs[TsIdx(i)] \in TsBlocks \ {d}
          BY Zenon, <2>5, <3>1
        <4>2. ts_owners'[ptrs[TsIdx(i)]] = ts_owners[ptrs[TsIdx(i)]]
          BY Zenon, <2>6, <4>1
        <4> QED BY Zenon, <3>2, <3>3, <4>2
      <3> QED BY Zenon, <3>4
    <2>10. ASSUME NEW b \in TsBlocks
           PROVE  \/ ts_owners'[b] = 1
                  \/ \E s \in Returning : block[s] = b
                  \/ \E i \in Ring' : ptrs[TsIdx(i)] = b
      BY Zenon, <1>a, <2>2, <2>4, <2>6
    <2> QED BY <1>a, <2>1, <2>4, <2>7, <2>8, <2>9, <2>10 DEF BlocksInv
  <1>6. ASSUME NEW t \in TsThreads, NEW c \in TsBlocks, FreeCall(t, c) PROVE BlocksInv'
    <2>1. /\ UNCHANGED <<alloc_cursor, free_cursor, ptrs>>
          /\ ts_owners[c] > 0 /\ ts_owners' = [ts_owners EXCEPT ![c] = @ + -1]
          /\ Returning' = Returning \cup {t} /\ t \notin Returning
          /\ block'[t] = c /\ \A s \in TsThreads \ {t} : block'[s] = block[s]
      BY <1>0, <1>6 DEF FreeCall, TsGoto, Own, Returning, tsPool
    <2>2. Ring' = Ring
      BY <2>1 DEF Ring
    <2>3. ts_owners[c] = 1
      BY <1>0, <1>a, <2>1
    <2>4. ts_owners'[c] = 0 /\ \A b \in TsBlocks \ {c} : ts_owners'[b] = ts_owners[b]
      BY <1>0, <2>1, <2>3
    <2>5. (\A s \in Returning : block[s] # c) /\ \A i \in Ring : ptrs[TsIdx(i)] # c
      BY <1>a, <2>3
    <2>6. \A s \in Returning : block'[s] = block[s] /\ block[s] \in TsBlocks
      BY <1>0, <2>1 DEF Returning
    <2>7. \A i \in Ring : ptrs[TsIdx(i)] \in TsBlocks
      BY <1>0 DEF Ring
    <2>8. \A b \in TsBlocks : ts_owners'[b] <= 1
      BY <1>a, <2>4
    <2>9. /\ \A s, r \in Returning' : block'[s] = block'[r] => s = r
          /\ \A s \in Returning' : ts_owners'[block'[s]] = 0
          /\ \A s \in Returning', i \in Ring : ptrs[TsIdx(i)] # block'[s]
      <3>1. \A s \in Returning' : s \in Returning \/ (s = t /\ block'[s] = c)
        BY <2>1
      <3>2. \A s \in Returning : block'[s] # c
        BY <2>5, <2>6
      <3>3. \A s, r \in Returning' : block'[s] = block'[r] => s = r
        BY <1>a, <2>6, <3>1, <3>2
      <3>4. \A s \in Returning' : ts_owners'[block'[s]] = 0
        BY <1>a, <2>4, <2>5, <2>6, <3>1
      <3>5. \A s \in Returning', i \in Ring : ptrs[TsIdx(i)] # block'[s]
        BY <1>a, <2>5, <2>6, <3>1
      <3> QED BY <3>3, <3>4, <3>5
    <2>10. \A i \in Ring : ts_owners'[ptrs[TsIdx(i)]] = 0
      BY Zenon, <1>a, <2>4, <2>5, <2>7
    <2>11. ASSUME NEW b \in TsBlocks
           PROVE  \/ ts_owners'[b] = 1
                  \/ \E s \in Returning' : block'[s] = b
                  \/ \E i \in Ring : ptrs[TsIdx(i)] = b
      <3>1. CASE b = c
        BY <2>1, <3>1
      <3>2. CASE b # c
        BY <1>a, <2>1, <2>4, <2>6, <3>2
      <3> QED BY <3>1, <3>2
    <2> QED BY <1>a, <2>1, <2>2, <2>8, <2>9, <2>10, <2>11 DEF BlocksInv
  <1>7. CASE UNCHANGED tsVars
    BY <1>b, <1>7 DEF tsVars, tsPool, Ring, Returning
  <1> QED BY <1>1, <1>2, <1>3, <1>4, <1>5, <1>6, <1>7 DEF TsNext, TsStep

-----------------------------------------------------------------------------
(* The theorems.                                                           *)

\* muggle_ts_memory_pool_init establishes the invariant.
LEMMA InitIInv ==
  ASSUME TsAssumption, NoWrap, TsInit
  PROVE  TsIInv
  <1>0. TsCapacity \in Nat \ {0} /\ CursorMod \in Nat \ {0} /\ TsMaxCalls \in Nat
        /\ TsCapacity < CursorMod
    BY Consts
  <1>1. TsTypeOK
    BY <1>0 DEF TsInit, TsTypeOK, TsBlocks
  <1>2. Allocating = {} /\ Returning = {}
    BY DEF TsInit, Allocating, Returning
  <1>3. CursorsInv
    BY <1>0, <1>2, FS_EmptySet DEF TsInit, CursorsInv
  <1>4. Ring = TsBlocks
    BY <1>0 DEF TsInit, Ring, TsBlocks
  <1>5. \A i \in Ring : ptrs[TsIdx(i)] = i
    BY Zenon, <1>0, <1>4, IntModSmall DEF TsInit, TsIdx, TsBlocks
  <1>6. BlocksInv
    BY <1>2, <1>4, <1>5 DEF TsInit, BlocksInv
  <1>7. MutexInv /\ CopiesInv
    BY <1>2 DEF TsInit, MutexInv, CopiesInv
  <1> QED BY <1>1, <1>3, <1>6, <1>7 DEF TsIInv

\* muggle_ts_memory_pool_alloc and _free keep cursors, ring, mutex and the threads'
\* copies consistent, whatever the interleaving.
THEOREM PoolInductive ==
  ASSUME TsAssumption, NoWrap, ~TsWeakCas
  PROVE  TsSpec => []TsIInv
  <1>1. TsInit => TsIInv
    BY InitIInv
  <1>2. TsIInv /\ [TsNext]_tsVars => TsIInv'
    BY TypeStep, CursorsStep, BlocksStep, MutexStep, CopiesStep DEF TsIInv
  <1> QED BY <1>1, <1>2, PTL DEF TsSpec

\* The number of blocks in the ring, and their positions.
LEMMA RingIsFree ==
  ASSUME TsAssumption, NoWrap, TsIInv
  PROVE  TsAvail = free_cursor - alloc_cursor /\ TsFree = {TsIdx(i) : i \in Ring}
  <1>0. /\ alloc_cursor \in Nat /\ free_cursor \in Nat /\ alloc_cursor <= free_cursor
        /\ free_cursor < CursorMod /\ CursorMod \in Nat \ {0}
    BY Cursors, Consts DEF TsIInv, CursorsInv
  <1>1. TsAvail = free_cursor - alloc_cursor
    <2>1. free_cursor - alloc_cursor \in 0 .. CursorMod - 1
      BY <1>0
    <2> QED BY <1>0, <2>1, IntModSmall DEF TsAvail
  <1>2. ASSUME NEW k \in 0 .. TsAvail - 1 PROVE alloc_cursor + k \in Ring
    BY <1>0, <1>1 DEF Ring
  <1>3. ASSUME NEW i \in Ring PROVE i - alloc_cursor \in 0 .. TsAvail - 1
                                    /\ i = alloc_cursor + (i - alloc_cursor)
    BY <1>0, <1>1 DEF Ring
  <1> QED BY <1>1, <1>2, <1>3 DEF TsFree

\* A block that muggle_ts_memory_pool_alloc has returned belongs to nobody else, no block
\* is lost, and a pointer fetched before the compare-and-swap is right if that succeeds.
THEOREM BlocksHaveOneOwner ==
  ASSUME TsAssumption, NoWrap, ~TsWeakCas
  PROVE  TsSpec => []OneOwner
  <1>1. ASSUME TsIInv PROVE OneOwner
    <2>1. TsTypeOK /\ TsNoDoubleOwner
      BY <1>1 DEF TsIInv, BlocksInv, TsNoDoubleOwner
    <2>2. FetchedIsCurrent
      <3>1. TsAvail = free_cursor - alloc_cursor /\ alloc_cursor \in Nat /\ free_cursor \in Nat
        BY <1>1, RingIsFree, Cursors
      <3>2. \A t \in TsThreads : ts_pc[t] = "cas" /\ expected[t] = alloc_cursor =>
              alloc_cursor < free_cursor /\ ts_data[t] = ptrs[TsIdx(alloc_cursor)]
        BY <1>1 DEF TsIInv, CopiesInv, Allocating
      <3> QED BY <3>1, <3>2 DEF FetchedIsCurrent
    <2>3. ASSUME NEW b \in TsBlocks PROVE TsPlaces(b) = 1
      <3> DEFINE R == {t \in Returning : block[t] = b}
                 F == {i \in TsFree : ptrs[i] = b}
      <3>0. ts_owners[b] \in Nat /\ ts_owners[b] <= 1
        BY <1>1 DEF TsIInv, TsTypeOK, BlocksInv
      <3>a. TsPlaces(b) = ts_owners[b] + Cardinality(R) + Cardinality(F)
        BY DEF TsPlaces
      <3>1. Cardinality({}) = 0 /\ \A x : Cardinality({x}) = 1
        BY Zenon, FS_EmptySet, FS_Singleton
      <3>2. CASE ts_owners[b] = 1
        <4>1. R = {} /\ F = {}
          BY <1>1, <3>2, RingIsFree DEF TsIInv, BlocksInv
        <4>2. Cardinality(R) = 0 /\ Cardinality(F) = 0
          BY <3>1, <4>1, Zenon
        <4> HIDE DEF R, F
        <4> QED BY <3>2, <3>a, <4>2
      <3>3. ASSUME NEW t \in Returning, block[t] = b PROVE TsPlaces(b) = 1
        <4>1. ts_owners[b] = 0 /\ R = {t} /\ F = {}
          BY <1>1, <3>3, RingIsFree DEF TsIInv, BlocksInv
        <4>2. Cardinality(R) = 1 /\ Cardinality(F) = 0
          BY <3>1, <4>1, Zenon
        <4> HIDE DEF R, F
        <4> QED BY <3>a, <4>1, <4>2
      <3>4. ASSUME NEW i \in Ring, ptrs[TsIdx(i)] = b PROVE TsPlaces(b) = 1
        <4>1. ts_owners[b] = 0 /\ R = {} /\ F = {TsIdx(i)}
          BY <1>1, <3>4, RingIsFree DEF TsIInv, BlocksInv
        <4>2. Cardinality(R) = 0 /\ Cardinality(F) = 1
          BY <3>1, <4>1, Zenon
        <4> HIDE DEF R, F
        <4> QED BY <3>a, <4>1, <4>2
      <3> QED BY <1>1, <3>2, <3>3, <3>4 DEF TsIInv, BlocksInv
    <2> QED BY <2>1, <2>2, <2>3 DEF OneOwner, TsConserved
  <1> QED BY <1>1, PoolInductive, PTL

\* muggle_ts_memory_pool_alloc returns NULL only when no block is in the ring.
THEOREM NullMeansEmpty ==
  ASSUME TsAssumption, NoWrap, ~TsWeakCas
  PROVE  TsSpec => NullOnlyWhenEmpty
  <1>1. ASSUME TsIInv, [TsNext]_tsVars, NEW t \in TsThreads, ts_pc[t] = "test", ts_pc'[t] = "idle"
        PROVE  TsFree = {}
    <2>1. AllocTest(t)
      <3>1. ts_pc \in [TsThreads -> {"idle", "test", "fetch", "cas", "lock", "put", "advance",
                                "unlock"}]
        BY <1>1 DEF TsIInv, TsTypeOK
      <3>2. ASSUME NEW s \in TsThreads, NEW l, TsGoto(s, l), ts_pc[s] # "test" PROVE FALSE
        BY <1>1, <3>1, <3>2 DEF TsGoto
      <3>3. ASSUME NEW s \in TsThreads, AllocTest(s) PROVE s = t
        BY <1>1, <3>1, <3>3 DEF AllocTest, TsGoto
      <3>4. ASSUME NEW s \in TsThreads, AllocCall(s) \/ AllocFetch(s) \/ AllocCas(s)
                     \/ FreeLock(s) \/ FreePut(s) \/ FreeAdvance(s) \/ FreeUnlock(s)
                     \/ \E b \in TsBlocks : FreeCall(s, b)
            PROVE  FALSE
        BY Zenon, <3>2, <3>4 DEF AllocCall, AllocFetch, AllocCas, FreeLock, FreePut,
           FreeAdvance, FreeUnlock, FreeCall
      <3>5. ASSUME NEW s \in TsThreads, AllocCasFails(s) PROVE FALSE
        BY Zenon, <1>1, <3>2, <3>5, CasRetries DEF AllocCasFails
      <3>6. ts_pc' # ts_pc
        BY <1>1
      <3> QED BY <1>1, <3>3, <3>4, <3>5, <3>6 DEF TsNext, TsStep, tsVars
    <2>2. expected[t] = free_cursor
      BY <1>1, <2>1 DEF AllocTest, TsGoto, TsIInv, TsTypeOK
    <2>3. expected[t] <= alloc_cursor /\ alloc_cursor <= free_cursor
      BY <1>1 DEF TsIInv, CopiesInv, CursorsInv, Allocating
    <2>4. alloc_cursor = free_cursor /\ alloc_cursor \in Nat
      BY <1>1, <2>2, <2>3, Cursors
    <2>5. Ring = {}
      BY <2>4 DEF Ring
    <2> QED BY <1>1, <2>5, RingIsFree
  <1>2. TsIInv /\ [TsNext]_tsVars =>
          [\A t \in TsThreads : ts_pc[t] = "test" /\ ts_pc'[t] = "idle" => TsFree = {}]_tsVars
    BY <1>1
  <1> QED BY <1>2, PoolInductive, PTL DEF TsSpec, NullOnlyWhenEmpty
=============================================================================
