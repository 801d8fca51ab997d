---------------------------- MODULE MemoryProofs ----------------------------
(***************************************************************************)
(* Proofs about the two tables of muggle/c/memory that one thread uses:    *)
(* the pool whose ring of block pointers grows (memory_pool.c) and the     *)
(* pointer slots (pointer_slot.c).                                         *)
(***************************************************************************)
EXTENDS MemoryPool, PointerSlot, ModLemmas, SequenceTheorems, TLAPS

-----------------------------------------------------------------------------
(* The available blocks as a queue, whatever ring holds them.              *)

\* The blocks 0 .. m-1 are available in the order av or have an owner in ow, each
\* once.
Shared(B, av, ow, m) ==
  /\ av \in Seq(0 .. m - 1)
  /\ ow \in [B -> {0, 1}]
  /\ \A j, k \in 1 .. Len(av) : av[j] = av[k] => j = k
  /\ \A k \in 1 .. Len(av) : ow[av[k]] = 0
  /\ \A b \in B : b >= m => ow[b] = 0
  /\ \A b \in 0 .. m - 1 : ow[b] = 0 => \E k \in 1 .. Len(av) : av[k] = b

\* The new blocks of a growth from m to n.
LEMMA NewIs ==
  ASSUME NEW m \in Nat, NEW n \in Nat, m <= n
  PROVE  /\ NewSection(m, n) \in Seq(0 .. n - 1)
         /\ Len(NewSection(m, n)) = n - m
         /\ \A i \in 1 .. n - m : NewSection(m, n)[i] = m + i - 1
  BY DEF NewSection

\* A sequence of blocks of the smaller pool is one of the larger pool.
LEMMA SeqWidens ==
  ASSUME NEW m \in Nat, NEW n \in Nat, m <= n, NEW s \in Seq(0 .. m - 1)
  PROVE  s \in Seq(0 .. n - 1)
  <1>1. (0 .. m - 1) \subseteq (0 .. n - 1)
    OBVIOUS
  <1> QED BY <1>1, SeqMonotonic

\* A growth adds the new blocks behind the available ones.
LEMMA GrowShares ==
  ASSUME NEW m \in Nat, NEW n \in Nat, m <= n, NEW M \in Nat, NEW B, B = 0 .. M - 1, n <= M,
         NEW av, NEW ow, Shared(B, av, ow, m)
  PROVE  Shared(B, av \o NewSection(m, n), ow, n)
  <1> DEFINE new == NewSection(m, n)
             g == av \o new
  <1>1. av \in Seq(0 .. m - 1) /\ av \in Seq(0 .. n - 1) /\ Len(av) \in Nat
    BY SeqWidens DEF Shared
  <1>2. /\ new \in Seq(0 .. n - 1) /\ Len(new) = n - m
        /\ \A i \in 1 .. n - m : new[i] = m + i - 1
    BY Zenon, NewIs
  <1>3. /\ g \in Seq(0 .. n - 1) /\ Len(g) = Len(av) + (n - m)
        /\ \A i \in 1 .. Len(g) : g[i] = IF i <= Len(av) THEN av[i] ELSE new[i - Len(av)]
    <2> HIDE DEF new
    <2>1. /\ g \in Seq(0 .. n - 1) /\ Len(g) = Len(av) + Len(new)
          /\ \A i \in 1 .. Len(av) + Len(new) :
               g[i] = IF i <= Len(av) THEN av[i] ELSE new[i - Len(av)]
      BY Zenon, <1>1, <1>2, ConcatProperties
    <2> HIDE DEF g
    <2> QED BY Zenon, <1>2, <2>1
  <1>4. \A i \in 1 .. Len(av) : av[i] \in 0 .. m - 1
    BY <1>1, ElementOfSeq
  <1> HIDE DEF new, g
  <1>5. \A i \in 1 .. Len(g) : /\ i <= Len(av) => g[i] = av[i] /\ g[i] < m
                               /\ i > Len(av) => g[i] = m + (i - Len(av)) - 1 /\ g[i] >= m
    <2> TAKE i \in 1 .. Len(g)
    <2>1. CASE i <= Len(av)
      <3>1. i \in 1 .. Len(av)
        BY <1>1, <1>3, <2>1
      <3>2. g[i] = av[i] /\ av[i] \in 0 .. m - 1
        BY Zenon, <1>3, <1>4, <2>1, <3>1
      <3> QED BY <1>1, <2>1, <3>2
    <2>2. CASE i > Len(av)
      <3>1. i - Len(av) \in 1 .. n - m
        BY <1>1, <1>3, <2>2
      <3>2. g[i] = new[i - Len(av)]
        BY <1>1, <1>3, <2>2
      <3>3. g[i] = m + (i - Len(av)) - 1
        BY Zenon, <1>2, <3>1, <3>2
      <3>4. m + (i - Len(av)) - 1 >= m
        BY <1>1, <2>2
      <3> QED BY <1>1, <2>2, <3>3, <3>4
    <2> QED BY <1>1, <2>1, <2>2
  <1>6. ASSUME NEW j \in 1 .. Len(g), NEW k \in 1 .. Len(g), g[j] = g[k]
        PROVE  j = k
    <2>0. \A x, y \in 1 .. Len(av) : av[x] = av[y] => x = y
      BY DEF Shared
    <2>1. CASE j <= Len(av) /\ k <= Len(av)
      <3>1. j \in 1 .. Len(av) /\ k \in 1 .. Len(av) /\ av[j] = av[k]
        BY <1>1, <1>5, <1>6, <2>1
      <3> QED BY <2>0, <3>1
    <2>2. CASE j > Len(av) /\ k > Len(av)
      BY <1>1, <1>5, <1>6, <2>2
    <2>a. ASSUME NEW i \in 1 .. Len(g) PROVE g[i] < m <=> i <= Len(av)
      <3>1. g[i] \in Int /\ i \in Int /\ Len(av) \in Int
        BY <1>1, <1>3
      <3>2. i <= Len(av) => g[i] < m
        BY <1>5
      <3>3. i > Len(av) => g[i] >= m
        BY <1>5
      <3> QED BY <3>1, <3>2, <3>3
    <2>3. g[j] < m <=> j <= Len(av)
      BY <2>a
    <2>4. g[k] < m <=> k <= Len(av)
      BY <2>a
    <2> QED BY <1>1, <1>6, <2>1, <2>2, <2>3, <2>4
  <1>7. ow \in [B -> {0, 1}] /\ \A b \in B : b >= m => ow[b] = 0
    BY DEF Shared
  <1>8. ASSUME NEW k \in 1 .. Len(g) PROVE ow[g[k]] = 0
    <2>1. CASE k <= Len(av)
      <3>1. k \in 1 .. Len(av) /\ g[k] = av[k]
        BY <1>1, <1>5, <2>1
      <3> QED BY <3>1 DEF Shared
    <2>2. CASE k > Len(av)
      <3>1. g[k] >= m /\ g[k] \in B
        BY <1>1, <1>3, <1>5, <2>2
      <3> QED BY <1>7, <3>1
    <2> QED BY <1>1, <2>1, <2>2
  <1>9. ASSUME NEW b \in 0 .. n - 1, ow[b] = 0 PROVE \E k \in 1 .. Len(g) : g[k] = b
    <2>1. CASE b < m
      <3>1. b \in 0 .. m - 1
        BY <2>1
      <3>2. PICK k \in 1 .. Len(av) : av[k] = b
        BY <1>9, <3>1 DEF Shared
      <3>3. k \in 1 .. Len(g) /\ k <= Len(av)
        BY <1>1, <1>3
      <3> QED BY <1>5, <3>2, <3>3
    <2>2. CASE b >= m
      <3> DEFINE k == Len(av) + (b - m) + 1
      <3>1. k \in 1 .. Len(g) /\ k > Len(av) /\ m + (k - Len(av)) - 1 = b
        BY <1>1, <1>3, <2>2
      <3> HIDE DEF k
      <3> QED BY <1>5, <3>1
    <2> QED BY <2>1, <2>2
  <1>10. \A b \in B : b >= n => ow[b] = 0
    BY <1>7
  <1>11. \A j, k \in 1 .. Len(g) : g[j] = g[k] => j = k
    BY <1>6
  <1> QED BY Zenon, <1>3, <1>7, <1>8, <1>9, <1>10, <1>11 DEF Shared, g, new

\* muggle_memory_pool_alloc takes the first available block.
LEMMA TakeShares ==
  ASSUME NEW m \in Nat, NEW M \in Nat, NEW B, B = 0 .. M - 1, m <= M,
         NEW av, NEW ow, Shared(B, av, ow, m), av # <<>>
  PROVE  /\ Head(av) \in B /\ ow[Head(av)] = 0
         /\ Shared(B, Tail(av), [ow EXCEPT ![Head(av)] = @ + 1], m)
  <1> DEFINE h == Head(av)
             t == Tail(av)
             o == [ow EXCEPT ![h] = @ + 1]
  <1>1. av \in Seq(0 .. m - 1) /\ Len(av) \in Nat /\ Len(av) >= 1 /\ h = av[1]
    <2>1. av \in Seq(0 .. m - 1)
      BY DEF Shared
    <2>2. Len(av) \in Nat \ {0}
      BY <2>1, EmptySeq
    <2> QED BY <2>1, <2>2
  <1>2. /\ t \in Seq(0 .. m - 1) /\ Len(t) = Len(av) - 1
        /\ \A i \in 1 .. Len(av) - 1 : t[i] = av[i + 1]
    <2>1. /\ t \in Seq(0 .. m - 1) /\ Len(t) = Len(av) - 1
          /\ \A i \in 1 .. Len(t) : t[i] = av[i + 1]
      BY Zenon, <1>1, HeadTailProperties
    <2> QED BY Zenon, <2>1
  <1>3. /\ ow \in [B -> {0, 1}]
        /\ \A j, k \in 1 .. Len(av) : av[j] = av[k] => j = k
        /\ \A k \in 1 .. Len(av) : ow[av[k]] = 0
        /\ \A b \in B : b >= m => ow[b] = 0
        /\ \A b \in 0 .. m - 1 : ow[b] = 0 => \E k \in 1 .. Len(av) : av[k] = b
    BY Zenon DEF Shared
  <1>4. 1 \in 1 .. Len(av)
    BY <1>1
  <1>5. h \in 0 .. m - 1
    BY <1>1, <1>4, ElementOfSeq
  <1>6. h \in B /\ ow[h] = 0
    BY <1>1, <1>3, <1>4, <1>5
  <1> HIDE DEF h, t
  <1>7. /\ o \in [B -> {0, 1}] /\ o[h] = 1
        /\ \A b \in B : b # h => o[b] = ow[b]
    BY <1>3, <1>6
  <1> HIDE DEF o
  <1>8. \A k \in 1 .. Len(t) : k + 1 \in 1 .. Len(av) /\ k + 1 # 1 /\ t[k] = av[k + 1]
    BY <1>1, <1>2
  <1>9. ASSUME NEW j \in 1 .. Len(t), NEW k \in 1 .. Len(t), t[j] = t[k]
        PROVE  j = k
    <2>1. j + 1 = k + 1
      <3>1. j + 1 \in 1 .. Len(av) /\ k + 1 \in 1 .. Len(av) /\ av[j + 1] = av[k + 1]
        BY Zenon, <1>8, <1>9
      <3> HIDE DEF t
      <3> QED BY Zenon, <1>3, <3>1
    <2> QED BY <1>1, <1>2, <2>1
  <1>10. ASSUME NEW k \in 1 .. Len(t) PROVE o[t[k]] = 0
    <2>1. t[k] # h
      BY Zenon, <1>1, <1>3, <1>4, <1>8
    <2>2. t[k] \in 0 .. m - 1
      BY <1>2, ElementOfSeq
    <2>3. t[k] \in B /\ ow[t[k]] = 0
      BY <1>3, <1>8, <2>2
    <2> QED BY <1>7, <2>1, <2>3
  <1>11. ASSUME NEW b \in B, b >= m PROVE o[b] = 0
    <2>1. b # h
      BY <1>5, <1>11
    <2> QED BY <1>3, <1>7, <1>11, <2>1
  <1>12. ASSUME NEW b \in 0 .. m - 1, o[b] = 0 PROVE \E k \in 1 .. Len(t) : t[k] = b
    <2>1. b \in B /\ b # h
      BY <1>7, <1>12
    <2>2. ow[b] = 0
      BY <1>7, <1>12, <2>1
    <2>3. PICK k \in 1 .. Len(av) : av[k] = b
      BY <1>3, <2>2
    <2>4. k # 1
      BY <1>1, <2>1, <2>3
    <2>5. k - 1 \in 1 .. Len(t) /\ (k - 1) + 1 = k
      BY <1>1, <1>2, <2>4
    <2> QED BY Zenon, <1>8, <2>3, <2>5
  <1>13. \A j, k \in 1 .. Len(t) : t[j] = t[k] => j = k
    BY <1>9
  <1>14. Shared(B, t, o, m)
    BY <1>2, <1>7, <1>10, <1>11, <1>12, <1>13 DEF Shared
  <1> QED BY <1>6, <1>14 DEF h, t, o

\* muggle_memory_pool_free appends the block to the available ones.
LEMMA GiveShares ==
  ASSUME NEW m \in Nat, NEW M \in Nat, NEW B, B = 0 .. M - 1, m <= M,
         NEW av, NEW ow, Shared(B, av, ow, m), NEW b \in B, ow[b] > 0
  PROVE  Shared(B, Append(av, b), [ow EXCEPT ![b] = @ - 1], m)
  <1> DEFINE t == Append(av, b)
             o == [ow EXCEPT ![b] = @ - 1]
  <1>1. av \in Seq(0 .. m - 1) /\ Len(av) \in Nat
    BY DEF Shared
  <1>3. /\ ow \in [B -> {0, 1}]
        /\ \A j, k \in 1 .. Len(av) : av[j] = av[k] => j = k
        /\ \A k \in 1 .. Len(av) : ow[av[k]] = 0
        /\ \A a \in B : a >= m => ow[a] = 0
        /\ \A a \in 0 .. m - 1 : ow[a] = 0 => \E k \in 1 .. Len(av) : av[k] = a
    BY Zenon DEF Shared
  <1>4. ow[b] = 1
    BY <1>3
  <1>5. b \in 0 .. m - 1
    BY <1>3, <1>4
  <1>2. /\ t \in Seq(0 .. m - 1) /\ Len(t) = Len(av) + 1
        /\ \A i \in 1 .. Len(av) : t[i] = av[i]
        /\ t[Len(av) + 1] = b
    BY <1>1, <1>5, AppendProperties
  <1> HIDE DEF t
  <1>6. /\ o \in [B -> {0, 1}] /\ o[b] = 0
        /\ \A a \in B : a # b => o[a] = ow[a]
    BY <1>3, <1>4
  <1> HIDE DEF o
  <1>7. \A k \in 1 .. Len(t) : k \in 1 .. Len(av) \/ k = Len(av) + 1
    BY <1>1, <1>2
  <1>8. \A k \in 1 .. Len(av) : t[k] = av[k] /\ t[k] # b
    <2> TAKE k \in 1 .. Len(av)
    <2>1. t[k] = av[k] /\ ow[av[k]] = 0
      BY <1>2, <1>3
    <2>2. ow[av[k]] # ow[b]
      BY <1>4, <2>1
    <2> QED BY Zenon, <2>1, <2>2
  <1>9. ASSUME NEW j \in 1 .. Len(t), NEW k \in 1 .. Len(t), t[j] = t[k]
        PROVE  j = k
    <2>1. CASE j \in 1 .. Len(av) /\ k \in 1 .. Len(av)
      BY Zenon, <1>3, <1>8, <1>9, <2>1
    <2>2. CASE j = Len(av) + 1
      BY Zenon, <1>2, <1>7, <1>8, <1>9, <2>2
    <2>3. CASE k = Len(av) + 1
      BY Zenon, <1>2, <1>7, <1>8, <1>9, <2>3
    <2> QED BY Zenon, <1>7, <2>1, <2>2, <2>3
  <1>10. ASSUME NEW k \in 1 .. Len(t) PROVE o[t[k]] = 0
    <2>1. CASE k \in 1 .. Len(av)
      <3>1. av[k] \in 0 .. m - 1
        BY <1>1, <2>1, ElementOfSeq
      <3>2. av[k] \in B
        BY <3>1
      <3> QED BY <1>3, <1>6, <1>8, <2>1, <3>2
    <2>2. CASE k = Len(av) + 1
      BY Zenon, <1>2, <1>6, <2>2
    <2> QED BY <1>7, <2>1, <2>2
  <1>11. ASSUME NEW a \in B, a >= m PROVE o[a] = 0
    BY <1>3, <1>6, <1>11
  <1>12. ASSUME NEW a \in 0 .. m - 1, o[a] = 0 PROVE \E k \in 1 .. Len(t) : t[k] = a
    <2>1. CASE a = b
      <3>1. Len(av) + 1 \in 1 .. Len(t)
        BY <1>1, <1>2
      <3> QED BY Zenon, <1>2, <2>1, <3>1
    <2>2. CASE a # b
      <3>1. ow[a] = 0
        BY <1>6, <1>12, <2>2
      <3>2. PICK k \in 1 .. Len(av) : av[k] = a
        BY <1>3, <3>1
      <3>3. k \in 1 .. Len(t)
        BY <1>1, <1>2
      <3> QED BY <1>2, <3>2, <3>3
    <2> QED BY <2>1, <2>2
  <1>13. \A j, k \in 1 .. Len(t) : t[j] = t[k] => j = k
    BY <1>9
  <1>14. Shared(B, t, o, m)
    BY <1>2, <1>6, <1>10, <1>11, <1>12, <1>13 DEF Shared
  <1> QED BY <1>14 DEF t, o

\* At most n blocks have an owner: they are among the n elements of a sequence.
AtMost(B, ow, n) ==
  \E us \in Seq(B) : Len(us) = n /\ \A b \in B : ow[b] = 1 => \E k \in 1 .. n : us[k] = b

\* One more when a block gets an owner.
LEMMA AtMostTakes ==
  ASSUME NEW B, NEW ow \in [B -> {0, 1}], NEW n \in Nat, AtMost(B, ow, n), NEW h \in B
  PROVE  AtMost(B, [ow EXCEPT ![h] = @ + 1], n + 1)
  <1> DEFINE o == [ow EXCEPT ![h] = @ + 1]
  <1>1. PICK us \in Seq(B) :
          Len(us) = n /\ \A b \in B : ow[b] = 1 => \E k \in 1 .. n : us[k] = b
    BY Zenon DEF AtMost
  <1> DEFINE new == Append(us, h)
  <1>2. /\ new \in Seq(B) /\ Len(new) = n + 1
        /\ \A k \in 1 .. n : new[k] = us[k]
        /\ new[n + 1] = h
    BY <1>1, AppendProperties
  <1>3. \A b \in B : b # h => o[b] = ow[b]
    OBVIOUS
  <1>4. n + 1 \in 1 .. n + 1 /\ \A k \in 1 .. n : k \in 1 .. n + 1
    OBVIOUS
  <1> HIDE DEF o, new
  <1>5. ASSUME NEW b \in B, o[b] = 1 PROVE \E k \in 1 .. n + 1 : new[k] = b
    <2>1. CASE b = h
      BY Zenon, <1>2, <1>4, <2>1
    <2>2. CASE b # h
      <3>1. PICK k \in 1 .. n : us[k] = b
        BY Zenon, <1>1, <1>3, <1>5, <2>2
      <3> QED BY Zenon, <1>2, <1>4, <3>1
    <2> QED BY <2>1, <2>2
  <1>6. AtMost(B, o, n + 1)
    BY Zenon, <1>2, <1>5 DEF AtMost
  <1> QED BY Zenon, <1>6 DEF o

\* One less when an owner gives a block back, and there was one.
LEMMA AtMostGives ==
  ASSUME NEW B, NEW ow \in [B -> {0, 1}], NEW n \in Nat, AtMost(B, ow, n), NEW h \in B,
         ow[h] = 1
  PROVE  n > 0 /\ AtMost(B, [ow EXCEPT ![h] = @ - 1], n - 1)
  <1> DEFINE o == [ow EXCEPT ![h] = @ - 1]
  <1>1. PICK us \in Seq(B) :
          Len(us) = n /\ \A b \in B : ow[b] = 1 => \E k \in 1 .. n : us[k] = b
    BY Zenon DEF AtMost
  <1>2. PICK i \in 1 .. n : us[i] = h
    BY Zenon, <1>1
  <1>3. n > 0 /\ n - 1 \in Nat
    BY <1>2
  <1> DEFINE new == [k \in 1 .. n - 1 |-> IF k = i THEN us[n] ELSE us[k]]
  <1>4. \A k \in 1 .. n : us[k] \in B
    BY Zenon, <1>1, ElementOfSeq
  <1>5. \A k \in 1 .. n - 1 : k \in 1 .. n /\ n \in 1 .. n
    BY <1>3
  <1>6. \A k \in 1 .. n - 1 : (IF k = i THEN us[n] ELSE us[k]) \in B
    BY Zenon, <1>4, <1>5
  <1>7. new \in Seq(B) /\ Len(new) = n - 1
    BY <1>3, <1>6
  <1>8. o[h] = 0 /\ \A b \in B : b # h => o[b] = ow[b]
    OBVIOUS
  <1>a. \A k \in 1 .. n - 1 : new[k] = IF k = i THEN us[n] ELSE us[k]
    BY Zenon
  <1> HIDE DEF o, new
  <1>9. ASSUME NEW b \in B, o[b] = 1 PROVE \E k \in 1 .. n - 1 : new[k] = b
    <2>1. b # h
      <3>1. 0 # 1
        OBVIOUS
      <3> QED BY Zenon, <1>8, <1>9, <3>1
    <2>2. PICK k \in 1 .. n : us[k] = b
      BY Zenon, <1>1, <1>8, <1>9, <2>1
    <2>3. k # i
      BY Zenon, <1>2, <2>1, <2>2
    <2>4. CASE k = n
      <3>1. i \in 1 .. n - 1
        BY <1>3, <2>3, <2>4
      <3> QED BY Zenon, <1>a, <2>2, <2>4, <3>1
    <2>5. CASE k # n
      <3>1. k \in 1 .. n - 1
        BY <1>3, <2>5
      <3> QED BY Zenon, <1>a, <2>2, <2>3, <3>1
    <2> QED BY <2>4, <2>5
  <1>10. AtMost(B, o, n - 1)
    BY Zenon, <1>7, <1>9 DEF AtMost
  <1> QED BY Zenon, <1>3, <1>10 DEF o

-----------------------------------------------------------------------------
(* The ring of muggle_memory_pool_t.                                       *)

\* capacity * 2 does not overflow in muggle_memory_pool_alloc: a pool has fewer than
\* 2^31 blocks.
NoOverflow == 2 * MaxCapacity < UIntMod

\* The slots of the blocks in use lead from free_index to alloc_index.
Closed(alloc, free, n, cap) == alloc = free + n \/ alloc + cap = free + n

\* What every call keeps: the indices enclose the slots in use, and the other slots
\* hold the blocks without an owner.
MpIInv ==
  /\ MpTypeOK
  /\ Closed(mp_alloc_index, mp_free_index, used, mp_capacity)
  /\ Shared(Blocks, MpAvail, owners, mp_capacity)
  /\ AtMost(Blocks, owners, used)

\* The slot of the k-th available block, counted from 1.
SlotOf(alloc, cap, k) == IF alloc + k <= cap THEN alloc + k ELSE alloc + k - cap

\* The available blocks of a ring.
RingAvail(buf, alloc, n) ==
  [k \in 1 .. Len(buf) - n |-> buf[((alloc + k - 1) % Len(buf)) + 1]]

\* The fields of a ring of block pointers: its slots, its indices and how many slots
\* are in use.
IsRing(B, buf, alloc, free, n) ==
  /\ buf \in Seq(B)
  /\ Len(buf) \in Nat /\ Len(buf) >= 1
  /\ alloc \in 0 .. Len(buf) - 1 /\ free \in 0 .. Len(buf) - 1
  /\ n \in 0 .. Len(buf)
  /\ Closed(alloc, free, n, Len(buf))

\* av is the available blocks of a ring of cap slots, slot by slot.
IsAvail(av, B, buf, cap, alloc, n) ==
  /\ av \in Seq(B) /\ Len(av) = cap - n
  /\ \A k \in 1 .. cap - n : /\ SlotOf(alloc, cap, k) \in 1 .. cap
                             /\ av[k] = buf[SlotOf(alloc, cap, k)]

\* The remainder in RingAvail is taken of less than two laps.
LEMMA AvailIs ==
  ASSUME NEW B, NEW buf \in Seq(B), NEW cap \in Nat, Len(buf) = cap, cap >= 1,
         NEW alloc \in 0 .. cap - 1, NEW n \in 0 .. cap
  PROVE  IsAvail(RingAvail(buf, alloc, n), B, buf, cap, alloc, n)
  <1> DEFINE At(k) == ((alloc + k - 1) % cap) + 1
  <1>1. cap \in Nat \ {0} /\ cap = Len(buf) /\ alloc \in 0 .. cap - 1 /\ n \in 0 .. cap
    OBVIOUS
  <1>2. ASSUME NEW k \in 1 .. cap - n
        PROVE  At(k) = SlotOf(alloc, cap, k) /\ At(k) \in 1 .. cap
    <2> DEFINE a == alloc + k - 1
    <2>0. a \in Nat /\ k \in Nat
      BY <1>1
    <2>1. CASE alloc + k <= cap
      <3>1. a \in 0 .. cap - 1 /\ a = cap * 0 + a /\ 0 \in Int
        BY <1>1, <2>0, <2>1
      <3> HIDE DEF a
      <3>2. a % cap = a
        BY Zenon, <1>1, <2>0, <3>1, ModOf
      <3> QED BY <1>1, <2>0, <2>1, <3>1, <3>2 DEF a, SlotOf
    <2>2. CASE ~(alloc + k <= cap)
      <3> DEFINE r == alloc + k - 1 - cap
      <3>1. r \in 0 .. cap - 1 /\ a = cap * 1 + r /\ 1 \in Int
        BY <1>1, <2>0, <2>2
      <3> HIDE DEF a, r
      <3>2. a % cap = r
        BY Zenon, <1>1, <2>0, <3>1, ModOf
      <3> QED BY <1>1, <2>0, <2>2, <3>1, <3>2 DEF a, r, SlotOf
    <2> QED BY <2>1, <2>2
  <1>3. \A k \in 1 .. cap : buf[k] \in B
    BY <1>1, ElementOfSeq
  <1> DEFINE av == [k \in 1 .. cap - n |-> buf[At(k)]]
  <1>4. cap - n \in Nat
    BY <1>1
  <1>5. \A k \in 1 .. cap - n : buf[At(k)] \in B
    BY <1>2, <1>3
  <1>6. av \in Seq(B) /\ Len(av) = cap - n
    <2> HIDE DEF At
    <2> QED BY <1>4, <1>5
  <1>7. RingAvail(buf, alloc, n) = av
    BY <1>1 DEF RingAvail
  <1>8. \A k \in 1 .. cap - n : /\ SlotOf(alloc, cap, k) \in 1 .. cap
                                /\ av[k] = buf[SlotOf(alloc, cap, k)]
    BY <1>2
  <1> HIDE DEF av
  <1> QED BY Zenon, <1>6, <1>7, <1>8 DEF IsAvail

\* The available blocks of the pool are those of its ring.
LEMMA AvailOfPool ==
  MpAvail = RingAvail(memory_pool_ptr_buf, mp_alloc_index, used)
  BY DEF MpAvail, RingAvail, mp_capacity

\* One more slot of the ring is in use: the first available block has left it.
TakesFirst(B, buf, alloc, free, n) ==
  /\ RingAvail(buf, alloc, n) # <<>>
  /\ buf[alloc + 1] = Head(RingAvail(buf, alloc, n))
  /\ RingAvail(buf, MpStep(alloc, Len(buf)), n + 1) = Tail(RingAvail(buf, alloc, n))
  /\ IsRing(B, buf, MpStep(alloc, Len(buf)), free, n + 1)

\* One slot less is in use: b has become the last available block.
PutsLast(B, buf, alloc, free, n, b) ==
  /\ IsRing(B, [buf EXCEPT ![free + 1] = b], alloc, MpStep(free, Len(buf)), n - 1)
  /\ Len([buf EXCEPT ![free + 1] = b]) = Len(buf)
  /\ RingAvail([buf EXCEPT ![free + 1] = b], alloc, n - 1)
       = Append(RingAvail(buf, alloc, n), b)

\* muggle_memory_pool_alloc in a ring with a slot that is not in use.
LEMMA RingTakes ==
  ASSUME NEW B, NEW buf, NEW alloc, NEW free, NEW n, IsRing(B, buf, alloc, free, n),
         n < Len(buf)
  PROVE  TakesFirst(B, buf, alloc, free, n)
  <1> DEFINE cap == Len(buf)
             a == MpStep(alloc, cap)
             av == RingAvail(buf, alloc, n)
             av2 == RingAvail(buf, a, n + 1)
  <1>1. /\ buf \in Seq(B) /\ cap \in Nat /\ cap >= 1 /\ alloc \in 0 .. cap - 1
        /\ free \in 0 .. cap - 1 /\ n \in 0 .. cap /\ n < cap
        /\ Closed(alloc, free, n, cap)
    BY DEF IsRing
  <1>2. a \in 0 .. cap - 1 /\ n + 1 \in 0 .. cap
    BY <1>1 DEF MpStep
  <1>3. /\ av \in Seq(B) /\ Len(av) = cap - n
        /\ \A k \in 1 .. cap - n : av[k] = buf[SlotOf(alloc, cap, k)]
    <2>1. IsAvail(av, B, buf, cap, alloc, n)
      BY Zenon, <1>1, AvailIs
    <2> QED BY Zenon, <2>1 DEF IsAvail
  <1>4. /\ av2 \in Seq(B) /\ Len(av2) = cap - (n + 1)
        /\ \A k \in 1 .. cap - (n + 1) : av2[k] = buf[SlotOf(a, cap, k)]
    <2>1. IsAvail(av2, B, buf, cap, a, n + 1)
      BY Zenon, <1>1, <1>2, AvailIs
    <2> QED BY Zenon, <2>1 DEF IsAvail
  <1>5. \A k \in 1 .. cap - (n + 1) :
          k + 1 \in 1 .. cap - n /\ SlotOf(a, cap, k) = SlotOf(alloc, cap, k + 1)
    <2> HIDE DEF cap
    <2> QED BY <1>1 DEF SlotOf, MpStep
  <1>6. 1 \in 1 .. cap - n /\ SlotOf(alloc, cap, 1) = alloc + 1
    <2> HIDE DEF cap
    <2> QED BY <1>1 DEF SlotOf
  <1>7. Closed(a, free, n + 1, cap)
    <2> HIDE DEF cap
    <2> QED BY <1>1 DEF Closed, MpStep
  <1> HIDE DEF cap, a, av, av2
  <1>8. av # <<>> /\ Head(av) = av[1]
    <2>1. Len(av) # 0
      BY <1>1, <1>3
    <2> QED BY <1>3, <2>1
  <1>9. /\ Tail(av) \in Seq(B) /\ Len(Tail(av)) = cap - n - 1
        /\ \A k \in 1 .. cap - n - 1 : Tail(av)[k] = av[k + 1]
    <2>1. /\ Tail(av) \in Seq(B) /\ Len(Tail(av)) = Len(av) - 1
          /\ \A k \in 1 .. Len(Tail(av)) : Tail(av)[k] = av[k + 1]
      BY Zenon, <1>3, <1>8, HeadTailProperties
    <2>2. Len(Tail(av)) = cap - n - 1
      BY Zenon, <1>3, <2>1
    <2> QED BY Zenon, <2>1, <2>2
  <1>10. cap - n - 1 = cap - (n + 1)
    BY <1>1
  <1>11. \A k \in 1 .. cap - (n + 1) : av2[k] = Tail(av)[k]
    BY Zenon, <1>3, <1>4, <1>5, <1>9, <1>10
  <1>12. av2 = Tail(av)
    BY Zenon, <1>4, <1>9, <1>10, <1>11, SeqEqual
  <1>13. buf[alloc + 1] = Head(av)
    BY Zenon, <1>3, <1>6, <1>8
  <1>14. IsRing(B, buf, a, free, n + 1)
    BY Zenon, <1>1, <1>2, <1>7 DEF IsRing, cap
  <1> QED BY Zenon, <1>8, <1>12, <1>13, <1>14 DEF cap, a, av, av2, TakesFirst

\* muggle_memory_pool_free in a ring with a slot in use.
LEMMA RingGives ==
  ASSUME NEW B, NEW buf, NEW alloc, NEW free, NEW n, IsRing(B, buf, alloc, free, n), n > 0,
         NEW b \in B
  PROVE  PutsLast(B, buf, alloc, free, n, b)
  <1> DEFINE cap == Len(buf)
             new == [buf EXCEPT ![free + 1] = b]
             f == MpStep(free, cap)
             av == RingAvail(buf, alloc, n)
             av2 == RingAvail(new, alloc, n - 1)
  <1>1. /\ buf \in Seq(B) /\ cap \in Nat /\ cap >= 1 /\ alloc \in 0 .. cap - 1
        /\ free \in 0 .. cap - 1 /\ n \in 0 .. cap /\ n > 0
        /\ Closed(alloc, free, n, cap)
    BY DEF IsRing
  <1>2. f \in 0 .. cap - 1 /\ n - 1 \in 0 .. cap /\ free + 1 \in 1 .. cap
    BY <1>1 DEF MpStep
  <1>3. /\ av \in Seq(B) /\ Len(av) = cap - n
        /\ \A k \in 1 .. cap - n : /\ SlotOf(alloc, cap, k) \in 1 .. cap
                                   /\ av[k] = buf[SlotOf(alloc, cap, k)]
    <2>1. IsAvail(av, B, buf, cap, alloc, n)
      BY Zenon, <1>1, AvailIs
    <2> QED BY Zenon, <2>1 DEF IsAvail
  <1>4. /\ new \in Seq(B) /\ Len(new) = cap
        /\ \A j \in 1 .. cap : new[j] = IF j = free + 1 THEN b ELSE buf[j]
    BY <1>1, <1>2, ExceptSeq
  <1>5. /\ av2 \in Seq(B) /\ Len(av2) = cap - (n - 1)
        /\ \A k \in 1 .. cap - (n - 1) : /\ SlotOf(alloc, cap, k) \in 1 .. cap
                                         /\ av2[k] = new[SlotOf(alloc, cap, k)]
    <2> HIDE DEF new, cap
    <2>1. IsAvail(av2, B, new, cap, alloc, n - 1)
      BY Zenon, <1>1, <1>2, <1>4, AvailIs
    <2> QED BY Zenon, <2>1 DEF IsAvail
  <1>6. /\ \A k \in 1 .. cap - n : k \in 1 .. cap - (n - 1) /\ SlotOf(alloc, cap, k) # free + 1
        /\ cap - n + 1 \in 1 .. cap - (n - 1) /\ SlotOf(alloc, cap, cap - n + 1) = free + 1
    <2> HIDE DEF cap
    <2> QED BY <1>1 DEF SlotOf, Closed
  <1>7. Closed(alloc, f, n - 1, cap)
    <2> HIDE DEF cap
    <2> QED BY <1>1 DEF Closed, MpStep
  <1> HIDE DEF cap, new, f, av, av2
  <1>8. /\ Append(av, b) \in Seq(B) /\ Len(Append(av, b)) = cap - n + 1
        /\ \A k \in 1 .. cap - n : Append(av, b)[k] = av[k]
        /\ Append(av, b)[cap - n + 1] = b
    BY <1>3, AppendProperties
  <1>9. cap - n + 1 = cap - (n - 1)
    BY <1>1
  <1>10. ASSUME NEW k \in 1 .. cap - (n - 1) PROVE av2[k] = Append(av, b)[k]
    <2>1. k \in 1 .. cap - n \/ k = cap - n + 1
      BY <1>1
    <2>2. CASE k \in 1 .. cap - n
      <3> DEFINE s == SlotOf(alloc, cap, k)
      <3>1. s \in 1 .. cap /\ s # free + 1 /\ av[k] = buf[s] /\ av2[k] = new[s]
        BY Zenon, <1>3, <1>5, <1>6, <2>2
      <3> HIDE DEF s
      <3>2. new[s] = buf[s]
        BY <1>4, <3>1
      <3> QED BY Zenon, <1>8, <2>2, <3>1, <3>2
    <2>3. CASE k = cap - n + 1
      BY Zenon, <1>2, <1>4, <1>5, <1>6, <1>8, <2>3
    <2> QED BY Zenon, <2>1, <2>2, <2>3
  <1>11. av2 = Append(av, b)
    BY Zenon, <1>5, <1>8, <1>9, <1>10, SeqEqual
  <1>12. IsRing(B, new, alloc, f, n - 1)
    BY Zenon, <1>1, <1>2, <1>4, <1>7 DEF IsRing
  <1> QED BY Zenon, <1>4, <1>11, <1>12 DEF cap, new, f, av, av2, PutsLast

-----------------------------------------------------------------------------
(* The growth of the ring: muggle_memory_pool_ensure_space.                *)

\* s is the n pointers of buf from index i on.
IsSection(s, buf, i, n) ==
  s \in Seq(Blocks) /\ Len(s) = n /\ \A k \in 1 .. n : s[k] = buf[i + k]

\* s is the m pointers of buf from index i on, then its first n pointers.
AreSections(s, buf, i, m, n) ==
  /\ s \in Seq(Blocks) /\ Len(s) = m + n
  /\ \A k \in 1 .. m + n : s[k] = IF k <= m THEN buf[i + k] ELSE buf[k - m]

\* A section of a ring holds the pointers from index i on.
LEMMA SectionIs ==
  ASSUME NEW cap \in Nat, NEW buf \in Seq(Blocks), Len(buf) = cap,
         NEW i \in Nat, NEW n \in Nat, i + n <= cap
  PROVE  IsSection(Section(buf, i, n), buf, i, n)
  <1>1. \A k \in i + 1 .. i + n : buf[k] \in Blocks
    <2> TAKE k \in i + 1 .. i + n
    <2>1. k \in 1 .. Len(buf)
      OBVIOUS
    <2> QED BY <2>1, ElementOfSeq
  <1>2. i + 1 \in Int /\ i + n \in Int
    OBVIOUS
  <1>3. /\ Section(buf, i, n) \in Seq(Blocks)
        /\ Len(Section(buf, i, n)) = IF i + 1 <= i + n THEN (i + n) - (i + 1) + 1 ELSE 0
        /\ \A k \in 1 .. (i + n) - (i + 1) + 1 : Section(buf, i, n)[k] = buf[(i + 1) + k - 1]
    BY <1>1, <1>2, SubSeqProperties DEF Section
  <1>4. /\ (IF i + 1 <= i + n THEN (i + n) - (i + 1) + 1 ELSE 0) = n
        /\ (i + n) - (i + 1) + 1 = n
        /\ \A k \in 1 .. n : (i + 1) + k - 1 = i + k
    OBVIOUS
  <1>5. \A k \in 1 .. n : Section(buf, i, n)[k] = buf[i + k]
    <2> TAKE k \in 1 .. n
    <2>1. Section(buf, i, n)[k] = buf[(i + 1) + k - 1]
      BY Zenon, <1>3, <1>4
    <2> QED BY Zenon, <1>4, <2>1
  <1> QED BY Zenon, <1>3, <1>4, <1>5 DEF IsSection

\* Two sections one behind the other.
LEMMA SectionsAre ==
  ASSUME NEW cap \in Nat, NEW buf \in Seq(Blocks), Len(buf) = cap,
         NEW i \in Nat, NEW m \in Nat, i + m <= cap, NEW n \in Nat, n <= cap
  PROVE  AreSections(Section(buf, i, m) \o Section(buf, 0, n), buf, i, m, n)
  <1> DEFINE p == Section(buf, i, m)
             q == Section(buf, 0, n)
  <1>1. p \in Seq(Blocks) /\ Len(p) = m /\ \A k \in 1 .. m : p[k] = buf[i + k]
    <2>1. IsSection(Section(buf, i, m), buf, i, m)
      BY Zenon, SectionIs
    <2> QED BY Zenon, <2>1 DEF IsSection
  <1>2. q \in Seq(Blocks) /\ Len(q) = n /\ \A k \in 1 .. n : q[k] = buf[0 + k]
    <2>1. 0 \in Nat /\ 0 + n <= cap
      OBVIOUS
    <2>2. IsSection(Section(buf, 0, n), buf, 0, n)
      BY Zenon, <2>1, SectionIs
    <2> QED BY Zenon, <2>2 DEF IsSection
  <1> HIDE DEF p, q
  <1>3. /\ p \o q \in Seq(Blocks) /\ Len(p \o q) = Len(p) + Len(q)
        /\ \A k \in 1 .. Len(p) + Len(q) : (p \o q)[k] = IF k <= Len(p) THEN p[k]
                                                         ELSE q[k - Len(p)]
    <2>1. p \in Seq(Blocks) /\ q \in Seq(Blocks)
      BY <1>1, <1>2
    <2> QED BY Zenon, <2>1, ConcatProperties
  <1>4. ASSUME NEW k \in 1 .. m + n
        PROVE  (p \o q)[k] = IF k <= m THEN buf[i + k] ELSE buf[k - m]
    <2>1. (p \o q)[k] = IF k <= m THEN p[k] ELSE q[k - m]
      BY Zenon, <1>1, <1>2, <1>3
    <2>2. CASE k <= m
      <3>1. k \in 1 .. m
        BY <2>2
      <3> QED BY Zenon, <1>1, <2>1, <2>2, <3>1
    <2>3. CASE ~(k <= m)
      <3>1. k - m \in 1 .. n /\ 0 + (k - m) = k - m
        BY <2>3
      <3>2. q[k - m] = buf[k - m]
        BY Zenon, <1>2, <3>1
      <3> QED BY Zenon, <2>1, <2>3, <3>2
    <2> QED BY Zenon, <2>2, <2>3
  <1>5. Len(p \o q) = m + n
    BY Zenon, <1>1, <1>2, <1>3
  <1> QED BY Zenon, <1>3, <1>4, <1>5 DEF p, q, AreSections

\* The fields of the pool as a ring.
PoolRing == IsRing(Blocks, memory_pool_ptr_buf, mp_alloc_index, mp_free_index, used)

\* ensure_space copies the slots in use first, then the available blocks in their
\* order.  (With no block in use it takes all the slots for slots in use.)
LEMMA SectionsSplit ==
  ASSUME PoolRing, used > 0
  PROVE  /\ FreeSection \in Seq(Blocks) /\ Len(FreeSection) = used
         /\ AllocSection = MpAvail
  <1> DEFINE buf == memory_pool_ptr_buf
             cap == mp_capacity
             a == mp_alloc_index
             f == mp_free_index
             n == used
  <1>1. /\ buf \in Seq(Blocks) /\ Len(buf) = cap /\ cap \in Nat /\ cap >= 1
        /\ a \in 0 .. cap - 1 /\ f \in 0 .. cap - 1 /\ n \in 0 .. cap /\ n > 0
        /\ Closed(a, f, n, cap)
    BY DEF PoolRing, IsRing, mp_capacity
  <1>2. /\ MpAvail \in Seq(Blocks) /\ Len(MpAvail) = cap - n
        /\ \A k \in 1 .. cap - n : MpAvail[k] = buf[SlotOf(a, cap, k)]
    <2>1. IsAvail(MpAvail, Blocks, buf, cap, a, n)
      BY Zenon, <1>1, AvailIs, AvailOfPool
    <2> QED BY Zenon, <2>1 DEF IsAvail
  <1>3. FreeSection = IF n # cap /\ a > f THEN Section(buf, f, a - f)
                      ELSE Section(buf, f, cap - f) \o Section(buf, 0, IF n = cap THEN f ELSE a)
    BY DEF FreeSection
  <1>4. /\ n = cap => AllocSection = <<>>
        /\ n # cap /\ a > f => AllocSection = Section(buf, a, cap - a) \o Section(buf, 0, f)
        /\ n # cap /\ ~(a > f) => AllocSection = Section(buf, a, f - a)
    BY Zenon DEF AllocSection
  <1> HIDE DEF buf, cap, a, f, n
  <1>5. CASE n = cap
    <2>1. a = f /\ f \in Nat /\ cap - f \in Nat /\ f + (cap - f) <= cap /\ f <= cap
          /\ cap - f + f = cap
      BY <1>1, <1>5 DEF Closed
    <2>2. FreeSection = Section(buf, f, cap - f) \o Section(buf, 0, f)
      BY Zenon, <1>3, <1>5
    <2>3. FreeSection \in Seq(Blocks) /\ Len(FreeSection) = cap - f + f
      <3>1. AreSections(FreeSection, buf, f, cap - f, f)
        BY Zenon, <1>1, <2>1, <2>2, SectionsAre
      <3> QED BY Zenon, <3>1 DEF AreSections
    <2>4. Len(MpAvail) = 0
      BY <1>1, <1>2, <1>5
    <2>5. MpAvail = <<>>
      BY <1>2, <2>4
    <2> QED BY Zenon, <1>4, <1>5, <2>1, <2>3, <2>5 DEF n
  <1>6. CASE n # cap /\ a > f
    <2>1. /\ n = a - f /\ f \in Nat /\ a \in Nat /\ a - f \in Nat /\ f + (a - f) <= cap
          /\ cap - a \in Nat /\ a + (cap - a) <= cap /\ f <= cap /\ cap - a + f = cap - n
      BY <1>1, <1>6 DEF Closed
    <2>2. FreeSection \in Seq(Blocks) /\ Len(FreeSection) = a - f
      <3>1. FreeSection = Section(buf, f, a - f)
        BY Zenon, <1>3, <1>6
      <3>2. IsSection(FreeSection, buf, f, a - f)
        BY Zenon, <1>1, <2>1, <3>1, SectionIs
      <3> QED BY Zenon, <3>2 DEF IsSection
    <2>3. /\ AllocSection \in Seq(Blocks) /\ Len(AllocSection) = cap - a + f
          /\ \A k \in 1 .. cap - a + f :
               AllocSection[k] = IF k <= cap - a THEN buf[a + k] ELSE buf[k - (cap - a)]
      <3>1. AllocSection = Section(buf, a, cap - a) \o Section(buf, 0, f)
        BY Zenon, <1>4, <1>6
      <3>2. AreSections(AllocSection, buf, a, cap - a, f)
        BY Zenon, <1>1, <2>1, <3>1, SectionsAre
      <3> QED BY Zenon, <3>2 DEF AreSections
    <2>4. \A k \in 1 .. cap - n : AllocSection[k] = MpAvail[k]
      <3> TAKE k \in 1 .. cap - n
      <3>1. AllocSection[k] = IF k <= cap - a THEN buf[a + k] ELSE buf[k - (cap - a)]
        BY Zenon, <2>1, <2>3
      <3>2. /\ k <= cap - a => SlotOf(a, cap, k) = a + k
            /\ ~(k <= cap - a) => SlotOf(a, cap, k) = k - (cap - a)
        BY <1>1, <2>1 DEF SlotOf
      <3> QED BY Zenon, <1>2, <3>1, <3>2
    <2>5. AllocSection = MpAvail
      BY Zenon, <1>2, <2>1, <2>3, <2>4, SeqEqual
    <2> QED BY Zenon, <2>1, <2>2, <2>5 DEF n
  <1>7. CASE n # cap /\ ~(a > f)
    <2>1. /\ n = cap - f + a /\ f \in Nat /\ a \in Nat /\ f - a \in Nat /\ a + (f - a) <= cap
          /\ cap - f \in Nat /\ f + (cap - f) <= cap /\ a <= cap /\ f - a = cap - n
      BY <1>1, <1>7 DEF Closed
    <2>2. FreeSection = Section(buf, f, cap - f) \o Section(buf, 0, a)
      BY Zenon, <1>3, <1>7
    <2>3. FreeSection \in Seq(Blocks) /\ Len(FreeSection) = cap - f + a
      <3>1. AreSections(FreeSection, buf, f, cap - f, a)
        BY Zenon, <1>1, <2>1, <2>2, SectionsAre
      <3> QED BY Zenon, <3>1 DEF AreSections
    <2>4. /\ AllocSection \in Seq(Blocks) /\ Len(AllocSection) = f - a
          /\ \A k \in 1 .. f - a : AllocSection[k] = buf[a + k]
      <3>1. AllocSection = Section(buf, a, f - a)
        BY Zenon, <1>4, <1>7
      <3>2. IsSection(AllocSection, buf, a, f - a)
        BY Zenon, <1>1, <2>1, <3>1, SectionIs
      <3> QED BY Zenon, <3>2 DEF IsSection
    <2>5. \A k \in 1 .. cap - n : AllocSection[k] = MpAvail[k]
      <3> TAKE k \in 1 .. cap - n
      <3>1. SlotOf(a, cap, k) = a + k
        BY <1>1, <2>1 DEF SlotOf
      <3> QED BY Zenon, <1>2, <2>1, <2>4, <3>1
    <2>6. AllocSection = MpAvail
      BY Zenon, <1>2, <2>1, <2>4, <2>5, SeqEqual
    <2> QED BY Zenon, <2>1, <2>3, <2>6 DEF n
  <1> QED BY Zenon, <1>5, <1>6, <1>7

\* The ring after a growth to capacity c: the same slots in use, and the new blocks
\* behind the available ones.
LEMMA GrownIs ==
  ASSUME PoolRing, used > 0, MaxCapacity \in Nat,
         NEW c \in Nat, c > mp_capacity, c <= MaxCapacity
  PROVE  /\ IsRing(Blocks, Grown(c).buf, Grown(c).alloc, Grown(c).free, used)
         /\ Len(Grown(c).buf) = c
         /\ RingAvail(Grown(c).buf, Grown(c).alloc, used)
              = MpAvail \o NewSection(mp_capacity, c)
  <1> DEFINE cap == mp_capacity
             n == used
             new == NewSection(cap, c)
             rest == MpAvail \o new
             buf == FreeSection \o (MpAvail \o new)
             g == Grown(c)
             av == RingAvail(buf, n, n)
  <1>1. cap \in Nat /\ cap >= 1 /\ n \in 0 .. cap /\ n > 0 /\ n \in Nat
    BY DEF PoolRing, IsRing, mp_capacity
  <1>2. FreeSection \in Seq(Blocks) /\ Len(FreeSection) = n /\ AllocSection = MpAvail
    BY Zenon, SectionsSplit
  <1>3. MpAvail \in Seq(Blocks) /\ Len(MpAvail) = cap - n
    <2>1. IsAvail(MpAvail, Blocks, memory_pool_ptr_buf, cap, mp_alloc_index, n)
      BY Zenon, AvailIs, AvailOfPool DEF PoolRing, IsRing, mp_capacity
    <2> QED BY Zenon, <2>1 DEF IsAvail
  <1>4. new \in Seq(Blocks) /\ Len(new) = c - cap
    <2>1. cap <= c /\ c - 1 <= MaxCapacity - 1 /\ (0 .. c - 1) \subseteq Blocks
      BY <1>1 DEF Blocks
    <2>2. new \in Seq(0 .. c - 1) /\ Len(new) = c - cap
      BY Zenon, <1>1, <2>1, NewIs
    <2> HIDE DEF new
    <2> QED BY <2>1, <2>2, SeqMonotonic
  <1>5. g.buf = buf /\ g.alloc = n /\ g.free = 0
    BY <1>2 DEF Grown
  <1> HIDE DEF cap, new, g
  <1>6. rest \in Seq(Blocks) /\ Len(rest) = c - n
    <2>1. rest \in Seq(Blocks) /\ Len(rest) = Len(MpAvail) + Len(new)
      BY Zenon, <1>3, <1>4, ConcatProperties
    <2> HIDE DEF rest
    <2> QED BY <1>1, <1>3, <1>4, <2>1
  <1>7. buf = FreeSection \o rest
    OBVIOUS
  <1> HIDE DEF rest, buf
  <1>8. /\ buf \in Seq(Blocks) /\ Len(buf) = c
        /\ \A i \in 1 .. c : buf[i] = IF i <= n THEN FreeSection[i] ELSE rest[i - n]
    <2>1. /\ buf \in Seq(Blocks) /\ Len(buf) = Len(FreeSection) + Len(rest)
          /\ \A i \in 1 .. Len(FreeSection) + Len(rest) :
               buf[i] = IF i <= Len(FreeSection) THEN FreeSection[i]
                        ELSE rest[i - Len(FreeSection)]
      BY Zenon, <1>2, <1>6, <1>7, ConcatProperties
    <2>2. Len(FreeSection) + Len(rest) = c
      BY <1>1, <1>2, <1>6
    <2> QED BY Zenon, <1>2, <2>1, <2>2
  <1>9. n \in 0 .. c - 1 /\ 0 \in 0 .. c - 1 /\ n \in 0 .. c /\ c >= 1
    BY <1>1 DEF cap
  <1>10. /\ av \in Seq(Blocks) /\ Len(av) = c - n
         /\ \A k \in 1 .. c - n : av[k] = buf[SlotOf(n, c, k)]
    <2>1. IsAvail(av, Blocks, buf, c, n, n)
      BY Zenon, <1>8, <1>9, AvailIs
    <2> QED BY Zenon, <2>1 DEF IsAvail
  <1>11. \A k \in 1 .. c - n : av[k] = rest[k]
    <2> TAKE k \in 1 .. c - n
    <2>1. SlotOf(n, c, k) = n + k /\ n + k \in 1 .. c /\ ~(n + k <= n) /\ (n + k) - n = k
      BY <1>1 DEF SlotOf
    <2>2. buf[n + k] = rest[(n + k) - n]
      BY Zenon, <1>8, <2>1
    <2> QED BY Zenon, <1>10, <2>1, <2>2
  <1>12. av = rest
    BY Zenon, <1>6, <1>10, <1>11, SeqEqual
  <1>13. IsRing(Blocks, buf, n, 0, n)
    <2>1. Closed(n, 0, n, c)
      BY <1>1 DEF Closed
    <2> QED BY Zenon, <1>8, <1>9, <2>1 DEF IsRing
  <1> QED BY Zenon, <1>5, <1>8, <1>12, <1>13 DEF cap, new, rest, g

\* A ring that muggle_memory_pool_ensure_space leaves behind, for n slots in use: large
\* enough for c blocks, with the new blocks behind the available ones.
IsSpace(r, c) ==
  /\ IsRing(Blocks, r.buf, r.alloc, r.free, used)
  /\ Len(r.buf) \in mp_capacity .. MaxCapacity
  /\ Len(r.buf) >= c
  /\ RingAvail(r.buf, r.alloc, used) = MpAvail \o NewSection(mp_capacity, Len(r.buf))

\* The facts about the pool that the invariant gives.
LEMMA PoolFacts ==
  ASSUME PoolAssumption, MpIInv
  PROVE  /\ PoolRing
         /\ MaxCapacity \in Nat /\ InitCapacity \in Nat /\ InitCapacity >= 1
         /\ mp_capacity \in Nat /\ mp_capacity >= InitCapacity
         /\ mp_capacity >= 1 /\ mp_capacity <= MaxCapacity
         /\ used \in Nat /\ used <= mp_capacity
         /\ MpAvail \in Seq(Blocks) /\ Len(MpAvail) = mp_capacity - used
  <1>1. /\ InitCapacity \in Nat /\ InitCapacity >= 1 /\ MaxCapacity \in Nat
        /\ mp_capacity \in InitCapacity .. MaxCapacity
        /\ used \in 0 .. mp_capacity
    BY DEF PoolAssumption, MpIInv, MpTypeOK
  <1>2. /\ mp_capacity \in Nat /\ mp_capacity >= InitCapacity
        /\ mp_capacity >= 1 /\ mp_capacity <= MaxCapacity
        /\ used \in Nat /\ used <= mp_capacity
    BY <1>1
  <1>3. PoolRing
    BY Zenon, <1>2 DEF PoolRing, IsRing, MpIInv, MpTypeOK, mp_capacity
  <1>4. MpAvail \in Seq(Blocks) /\ Len(MpAvail) = mp_capacity - used
    <2>1. IsAvail(MpAvail, Blocks, memory_pool_ptr_buf, mp_capacity, mp_alloc_index, used)
      BY Zenon, <1>3, AvailIs, AvailOfPool DEF PoolRing, IsRing, mp_capacity
    <2> QED BY Zenon, <2>1 DEF IsAvail
  <1> QED BY Zenon, <1>1, <1>2, <1>3, <1>4

\* A growth that adds nothing.
LEMMA NothingNew ==
  ASSUME NEW m \in Nat, NEW s \in Seq(Blocks)
  PROVE  s \o NewSection(m, m) = s
  <1>1. NewSection(m, m) \in Seq(0 .. m - 1) /\ Len(NewSection(m, m)) = m - m
    <2>1. m <= m
      OBVIOUS
    <2> QED BY Zenon, <2>1, NewIs
  <1>2. NewSection(m, m) = <<>>
    BY <1>1
  <1> HIDE DEF NewSection
  <1> QED BY Zenon, <1>2, ConcatEmptySeq

\* The ring as it is, and the ring muggle_memory_pool_ensure_space makes while blocks
\* are in use.
LEMMA SpaceIs ==
  ASSUME PoolAssumption, MpIInv
  PROVE  /\ IsSpace(Same, mp_capacity)
         /\ used > 0 => \A c \in Nat : \A r \in EnsureSpace(c) : IsSpace(r, c)
  <1>1. /\ PoolRing /\ MaxCapacity \in Nat /\ mp_capacity \in Nat
        /\ mp_capacity <= MaxCapacity /\ MpAvail \in Seq(Blocks)
    BY Zenon, PoolFacts
  <1>2. /\ Same.buf = memory_pool_ptr_buf /\ Same.alloc = mp_alloc_index
        /\ Same.free = mp_free_index /\ Len(Same.buf) = mp_capacity
    BY DEF Same, mp_capacity
  <1>3. mp_capacity \in mp_capacity .. MaxCapacity /\ mp_capacity >= mp_capacity
    BY <1>1
  <1>4. IsSpace(Same, mp_capacity)
    <2>1. MpAvail \o NewSection(mp_capacity, mp_capacity) = MpAvail
      BY Zenon, <1>1, NothingNew
    <2>2. RingAvail(Same.buf, Same.alloc, used) = MpAvail
      BY Zenon, <1>2, AvailOfPool
    <2>3. IsRing(Blocks, Same.buf, Same.alloc, Same.free, used)
      BY Zenon, <1>1, <1>2 DEF PoolRing
    <2> QED BY Zenon, <1>2, <1>3, <2>1, <2>2, <2>3 DEF IsSpace
  <1>5. ASSUME used > 0, NEW c \in Nat, NEW r \in EnsureSpace(c) PROVE IsSpace(r, c)
    <2>1. CASE c <= mp_capacity
      <3>1. r = Same
        BY <1>5, <2>1 DEF EnsureSpace
      <3>2. Len(Same.buf) >= c
        BY <1>1, <1>2, <2>1
      <3> QED BY Zenon, <1>4, <3>1, <3>2 DEF IsSpace
    <2>2. CASE ~(c <= mp_capacity)
      <3>1. r = Grown(c) /\ c <= MaxCapacity
        BY <1>1, <1>5, <2>2 DEF EnsureSpace
      <3>2. c > mp_capacity /\ c \in mp_capacity .. MaxCapacity /\ c >= c
        BY <1>1, <2>2, <3>1
      <3>3. /\ IsRing(Blocks, r.buf, r.alloc, r.free, used)
            /\ Len(r.buf) = c
            /\ RingAvail(r.buf, r.alloc, used) = MpAvail \o NewSection(mp_capacity, c)
        BY Zenon, <1>1, <1>5, <3>1, <3>2, GrownIs
      <3> QED BY Zenon, <3>2, <3>3 DEF IsSpace
    <2> QED BY <2>1, <2>2
  <1> QED BY Zenon, <1>4, <1>5

\* The invariant from the ring, the owners and the flag.
LEMMA FromRing ==
  ASSUME PoolAssumption, MpIInv, PoolRing', mp_capacity' \in mp_capacity .. MaxCapacity,
         Shared(Blocks, MpAvail, owners, mp_capacity)', AtMost(Blocks, owners, used)',
         constant_size' \in BOOLEAN
  PROVE  MpIInv'
  <1>1. mp_capacity' \in InitCapacity .. MaxCapacity
    BY PoolFacts
  <1>2. owners' \in [Blocks -> Nat]
    <2>1. owners' \in [Blocks -> {0, 1}]
      BY Zenon DEF Shared
    <2> QED BY <2>1
  <1>3. (/\ memory_pool_ptr_buf \in Seq(Blocks)
         /\ mp_alloc_index \in 0 .. mp_capacity - 1 /\ mp_free_index \in 0 .. mp_capacity - 1
         /\ used \in 0 .. mp_capacity
         /\ Closed(mp_alloc_index, mp_free_index, used, mp_capacity))'
    BY Zenon DEF PoolRing, IsRing, mp_capacity
  <1> QED BY Zenon, <1>1, <1>2, <1>3 DEF MpIInv, MpTypeOK

\* muggle_memory_pool_alloc.
LEMMA AllocStep ==
  ASSUME PoolAssumption, NoOverflow, MpIInv, Alloc
  PROVE  MpIInv' /\ QueueStep
  <1> DEFINE grown == MpAvail \o NewSection(mp_capacity, mp_capacity')
  <1>1. /\ MaxCapacity \in Nat /\ mp_capacity \in Nat /\ mp_capacity >= 1
        /\ mp_capacity <= MaxCapacity /\ used \in Nat /\ used <= mp_capacity
    BY Zenon, PoolFacts
  <1>2. PICK r \in AllocFrom :
          /\ used' = used + 1
          /\ owners' = [owners EXCEPT ![r.buf[r.alloc + 1]] = @ + 1]
          /\ memory_pool_ptr_buf' = r.buf
          /\ mp_alloc_index' = MpStep(r.alloc, Len(r.buf))
          /\ mp_free_index' = r.free
          /\ UNCHANGED constant_size
    BY Zenon DEF Alloc
  <1>3. IsSpace(r, mp_capacity) /\ used < Len(r.buf)
    <2>1. CASE used = mp_capacity
      <3> DEFINE c == (mp_capacity * 2) % UIntMod
      <3>1. mp_capacity * 2 < UIntMod /\ UIntMod \in Nat
        BY <1>1 DEF NoOverflow, PoolAssumption
      <3>2. /\ mp_capacity * 2 \in Nat /\ UIntMod \in Nat \ {0} /\ 0 \in Int
            /\ mp_capacity * 2 \in 0 .. UIntMod - 1
            /\ mp_capacity * 2 = UIntMod * 0 + mp_capacity * 2
        BY <1>1, <3>1
      <3>3. c = mp_capacity * 2
        BY Zenon, <3>2, ModOf
      <3>4. r \in EnsureSpace(c)
        BY Zenon, <1>2, <2>1 DEF AllocFrom
      <3>5. c \in Nat /\ c > mp_capacity /\ used > 0
        BY <1>1, <2>1, <3>3
      <3>6. IsSpace(r, c)
        BY Zenon, <3>4, <3>5, SpaceIs
      <3>7. Len(r.buf) \in mp_capacity .. MaxCapacity /\ Len(r.buf) >= c
        BY Zenon, <3>6 DEF IsSpace
      <3>8. Len(r.buf) >= mp_capacity /\ used < Len(r.buf)
        BY <1>1, <2>1, <3>5, <3>7
      <3> QED BY Zenon, <3>6, <3>8 DEF IsSpace
    <2>2. CASE used # mp_capacity
      <3>1. r = Same
        BY <1>2, <2>2 DEF AllocFrom
      <3>2. IsSpace(r, mp_capacity)
        BY Zenon, <3>1, SpaceIs
      <3>3. Len(r.buf) \in mp_capacity .. MaxCapacity
        BY Zenon, <3>2 DEF IsSpace
      <3>4. used < Len(r.buf)
        BY <1>1, <2>2, <3>3
      <3> QED BY Zenon, <3>2, <3>4
    <2> QED BY <2>1, <2>2
  <1> DEFINE av == RingAvail(r.buf, r.alloc, used)
  <1>4. mp_capacity' = Len(r.buf) /\ Len(r.buf) \in mp_capacity .. MaxCapacity
    BY Zenon, <1>2, <1>3 DEF IsSpace, mp_capacity
  <1>5. av = grown /\ IsRing(Blocks, r.buf, r.alloc, r.free, used)
    BY Zenon, <1>3, <1>4 DEF IsSpace
  <1>6. /\ av # <<>> /\ r.buf[r.alloc + 1] = Head(av)
        /\ RingAvail(r.buf, MpStep(r.alloc, Len(r.buf)), used + 1) = Tail(av)
        /\ IsRing(Blocks, r.buf, MpStep(r.alloc, Len(r.buf)), r.free, used + 1)
    <2>1. TakesFirst(Blocks, r.buf, r.alloc, r.free, used)
      BY Zenon, <1>3, <1>5, RingTakes
    <2> QED BY Zenon, <2>1 DEF TakesFirst
  <1>7. MpAvail' = RingAvail(memory_pool_ptr_buf', mp_alloc_index', used')
    BY Zenon DEF MpAvail, RingAvail, mp_capacity
  <1>8. MpAvail' = Tail(grown) /\ grown # <<>>
    BY Zenon, <1>2, <1>5, <1>6, <1>7
  <1>9. PoolRing'
    BY Zenon, <1>2, <1>6 DEF PoolRing
  <1>10. Shared(Blocks, grown, owners, mp_capacity')
    <2>1. mp_capacity' \in Nat /\ mp_capacity <= mp_capacity' /\ mp_capacity' <= MaxCapacity
      BY <1>1, <1>4
    <2> QED BY Zenon, <1>1, <2>1, GrowShares DEF MpIInv, Blocks
  <1>11. Shared(Blocks, Tail(grown), [owners EXCEPT ![Head(grown)] = @ + 1], mp_capacity')
    <2>1. mp_capacity' \in Nat /\ mp_capacity' <= MaxCapacity
      BY <1>1, <1>4
    <2> HIDE DEF grown
    <2> QED BY Zenon, <1>1, <1>8, <1>10, <2>1, TakeShares DEF Blocks
  <1>12. owners' = [owners EXCEPT ![Head(grown)] = @ + 1]
    BY Zenon, <1>2, <1>5, <1>6
  <1>13. Shared(Blocks, MpAvail, owners, mp_capacity)'
    BY Zenon, <1>8, <1>11, <1>12
  <1>14. constant_size' \in BOOLEAN
    BY Zenon, <1>2 DEF MpIInv, MpTypeOK
  <1>a. AtMost(Blocks, owners, used)'
    <2>1. mp_capacity' \in Nat /\ mp_capacity' <= MaxCapacity
      BY <1>1, <1>4
    <2> HIDE DEF grown
    <2>2. Head(grown) \in Blocks
      BY Zenon, <1>1, <1>8, <1>10, <2>1, TakeShares DEF Blocks
    <2>3. owners \in [Blocks -> {0, 1}] /\ AtMost(Blocks, owners, used)
      BY Zenon DEF MpIInv, Shared
    <2>4. AtMost(Blocks, [owners EXCEPT ![Head(grown)] = @ + 1], used + 1)
      BY Zenon, <1>1, <2>2, <2>3, AtMostTakes
    <2> QED BY Zenon, <1>2, <1>12, <2>4
  <1>15. MpIInv'
    BY Zenon, <1>4, <1>9, <1>13, <1>14, <1>a, FromRing
  <1> QED BY Zenon, <1>8, <1>15 DEF QueueStep

\* muggle_memory_pool_free.
LEMMA FreeStep ==
  ASSUME PoolAssumption, MpIInv, NEW b \in Blocks, Free(b)
  PROVE  MpIInv' /\ QueueStep
  <1>1. /\ PoolRing /\ MaxCapacity \in Nat /\ mp_capacity \in Nat
        /\ mp_capacity <= MaxCapacity /\ used \in Nat /\ used <= mp_capacity
        /\ MpAvail \in Seq(Blocks) /\ Len(MpAvail) = mp_capacity - used
    BY Zenon, PoolFacts
  <1>2. Shared(Blocks, MpAvail, owners, mp_capacity) /\ owners[b] > 0
    BY Zenon DEF MpIInv, Free
  <1>3. owners \in [Blocks -> {0, 1}] /\ AtMost(Blocks, owners, used)
    BY Zenon DEF MpIInv, Shared
  <1>4. used > 0 /\ AtMost(Blocks, [owners EXCEPT ![b] = @ - 1], used - 1)
    <2>1. owners[b] = 1
      BY <1>2, <1>3
    <2> QED BY Zenon, <1>1, <1>3, <2>1, AtMostGives
  <1> DEFINE new == [memory_pool_ptr_buf EXCEPT ![mp_free_index + 1] = b]
  <1>5. /\ IsRing(Blocks, new, mp_alloc_index, MpStep(mp_free_index, Len(memory_pool_ptr_buf)),
                  used - 1)
        /\ Len(new) = Len(memory_pool_ptr_buf)
        /\ RingAvail(new, mp_alloc_index, used - 1)
             = Append(RingAvail(memory_pool_ptr_buf, mp_alloc_index, used), b)
    <2>1. PutsLast(Blocks, memory_pool_ptr_buf, mp_alloc_index, mp_free_index, used, b)
      BY Zenon, <1>1, <1>4, RingGives DEF PoolRing
    <2> QED BY Zenon, <2>1 DEF PutsLast
  <1>6. /\ memory_pool_ptr_buf' = new /\ mp_alloc_index' = mp_alloc_index
        /\ mp_free_index' = MpStep(mp_free_index, Len(memory_pool_ptr_buf))
        /\ used' = used - 1 /\ owners' = [owners EXCEPT ![b] = @ - 1]
        /\ constant_size' = constant_size
    BY Zenon DEF Free, mp_capacity
  <1> HIDE DEF new
  <1>7. mp_capacity' = mp_capacity
    BY Zenon, <1>5, <1>6 DEF mp_capacity
  <1>8. PoolRing'
    BY Zenon, <1>5, <1>6 DEF PoolRing
  <1>9. MpAvail' = RingAvail(memory_pool_ptr_buf', mp_alloc_index', used')
    BY Zenon DEF MpAvail, RingAvail, mp_capacity
  <1>10. MpAvail' = Append(MpAvail, b)
    BY Zenon, <1>5, <1>6, <1>9, AvailOfPool
  <1>11. Shared(Blocks, Append(MpAvail, b), [owners EXCEPT ![b] = @ - 1], mp_capacity)
    BY Zenon, <1>1, <1>2, GiveShares DEF Blocks
  <1>12. Shared(Blocks, MpAvail, owners, mp_capacity)'
    BY Zenon, <1>6, <1>7, <1>10, <1>11
  <1>13. constant_size' \in BOOLEAN /\ mp_capacity' \in mp_capacity .. MaxCapacity
    <2>1. constant_size' \in BOOLEAN
      BY Zenon, <1>6 DEF MpIInv, MpTypeOK
    <2>2. mp_capacity' \in mp_capacity .. MaxCapacity
      BY <1>1, <1>7
    <2> QED BY <2>1, <2>2
  <1>a. AtMost(Blocks, owners, used)'
    BY Zenon, <1>4, <1>6
  <1>14. MpIInv'
    BY Zenon, <1>8, <1>12, <1>13, <1>a, FromRing
  <1>15. MpAvail \o NewSection(mp_capacity, mp_capacity') = MpAvail
    BY Zenon, <1>1, <1>7, NothingNew
  <1> QED BY Zenon, <1>10, <1>14, <1>15 DEF QueueStep

\* muggle_memory_pool_ensure_space called while blocks are in use.
LEMMA ReserveStep ==
  ASSUME PoolAssumption, ~GrowEmpty, MpIInv, NEW c \in 1 .. MaxCapacity, Reserve(c)
  PROVE  MpIInv' /\ QueueStep
  <1> DEFINE grown == MpAvail \o NewSection(mp_capacity, mp_capacity')
  <1>1. MaxCapacity \in Nat /\ mp_capacity \in Nat /\ mp_capacity <= MaxCapacity
    BY Zenon, PoolFacts
  <1>2. used > 0 /\ c \in Nat
    BY <1>1 DEF Reserve
  <1>3. PICK r \in EnsureSpace(c) : /\ memory_pool_ptr_buf' = r.buf
                                    /\ mp_alloc_index' = r.alloc
                                    /\ mp_free_index' = r.free
    BY Zenon DEF Reserve
  <1>4. used' = used /\ constant_size' = constant_size /\ owners' = owners
    BY DEF Reserve
  <1>5. IsSpace(r, c)
    BY Zenon, <1>2, SpaceIs
  <1>6. mp_capacity' = Len(r.buf) /\ Len(r.buf) \in mp_capacity .. MaxCapacity
    BY Zenon, <1>3, <1>5 DEF IsSpace, mp_capacity
  <1>7. PoolRing'
    BY Zenon, <1>3, <1>4, <1>5 DEF PoolRing, IsSpace
  <1>8. MpAvail' = RingAvail(memory_pool_ptr_buf', mp_alloc_index', used')
    BY Zenon DEF MpAvail, RingAvail, mp_capacity
  <1>9. MpAvail' = grown
    BY Zenon, <1>3, <1>4, <1>5, <1>6, <1>8 DEF IsSpace
  <1>10. Shared(Blocks, grown, owners, mp_capacity')
    <2>1. mp_capacity' \in Nat /\ mp_capacity <= mp_capacity' /\ mp_capacity' <= MaxCapacity
      BY <1>1, <1>6
    <2> QED BY Zenon, <1>1, <2>1, GrowShares DEF MpIInv, Blocks
  <1>11. Shared(Blocks, MpAvail, owners, mp_capacity)'
    BY Zenon, <1>4, <1>9, <1>10
  <1>12. constant_size' \in BOOLEAN
    BY Zenon, <1>4 DEF MpIInv, MpTypeOK
  <1>a. AtMost(Blocks, owners, used)'
    BY Zenon, <1>4 DEF MpIInv
  <1>13. MpIInv'
    BY Zenon, <1>6, <1>7, <1>11, <1>12, <1>a, FromRing
  <1> QED BY Zenon, <1>9, <1>13 DEF QueueStep

\* Every step keeps the invariant and treats the available blocks as a queue.
LEMMA PoolStep ==
  ASSUME PoolAssumption, NoOverflow, ~GrowEmpty, MpIInv, [MpNext]_mpVars
  PROVE  MpIInv' /\ QueueStep
  <1>1. ASSUME UNCHANGED <<pool, owners>>, constant_size' \in BOOLEAN
        PROVE  MpIInv' /\ QueueStep
    <2>1. /\ memory_pool_ptr_buf' = memory_pool_ptr_buf /\ mp_alloc_index' = mp_alloc_index
          /\ mp_free_index' = mp_free_index /\ used' = used /\ owners' = owners
      BY Zenon, <1>1 DEF pool
    <2>2. mp_capacity' = mp_capacity /\ MpAvail' = MpAvail
      BY Zenon, <2>1 DEF mp_capacity, MpAvail
    <2>3. MpIInv'
      BY Zenon, <1>1, <2>1, <2>2 DEF MpIInv, MpTypeOK
    <2>4. MpAvail \o NewSection(mp_capacity, mp_capacity') = MpAvail
      BY Zenon, <2>2, PoolFacts, NothingNew
    <2> QED BY Zenon, <2>2, <2>3, <2>4 DEF QueueStep
  <1>2. CASE Alloc
    BY Zenon, <1>2, AllocStep
  <1>3. ASSUME NEW b \in Blocks, Free(b) PROVE MpIInv' /\ QueueStep
    BY Zenon, <1>3, FreeStep
  <1>4. ASSUME NEW c \in 1 .. MaxCapacity, Reserve(c) PROVE MpIInv' /\ QueueStep
    BY Zenon, <1>4, ReserveStep
  <1>5. ASSUME NEW f \in BOOLEAN, SetFlag(f) PROVE MpIInv' /\ QueueStep
    BY Zenon, <1>1, <1>5 DEF SetFlag
  <1>6. CASE UNCHANGED mpVars
    <2>1. constant_size' = constant_size /\ constant_size \in BOOLEAN
      BY Zenon, <1>6 DEF mpVars, MpIInv, MpTypeOK
    <2> QED BY Zenon, <1>1, <1>6, <2>1 DEF mpVars
  <1> QED BY Zenon, <1>2, <1>3, <1>4, <1>5, <1>6 DEF MpNext

\* muggle_memory_pool_init makes every block available.
LEMMA PoolInit ==
  ASSUME PoolAssumption, MpInit
  PROVE  MpIInv
  <1> DEFINE n == InitCapacity
             new == NewSection(0, n)
  <1>1. n \in Nat /\ n >= 1 /\ MaxCapacity \in Nat /\ n <= MaxCapacity
    BY DEF PoolAssumption
  <1>2. /\ memory_pool_ptr_buf = new /\ mp_alloc_index = 0 /\ mp_free_index = 0
        /\ used = 0 /\ constant_size = FALSE /\ owners = [b \in Blocks |-> 0]
    BY Zenon DEF MpInit
  <1>3. new \in Seq(0 .. n - 1) /\ Len(new) = n /\ \A i \in 1 .. n : new[i] = i - 1
    <2>1. 0 \in Nat /\ 0 <= n /\ n - 0 = n /\ \A i \in 1 .. n : 0 + i - 1 = i - 1
      BY <1>1
    <2>2. /\ new \in Seq(0 .. n - 1) /\ Len(new) = n - 0
          /\ \A i \in 1 .. n - 0 : new[i] = 0 + i - 1
      BY Zenon, <1>1, <2>1, NewIs
    <2> QED BY Zenon, <2>1, <2>2
  <1>4. new \in Seq(Blocks)
    <2>1. (0 .. n - 1) \subseteq Blocks
      BY <1>1 DEF Blocks
    <2> HIDE DEF new
    <2> QED BY Zenon, <1>3, <2>1, SeqMonotonic
  <1> HIDE DEF new, n
  <1>5. mp_capacity = n
    BY <1>2, <1>3 DEF mp_capacity
  <1>6. /\ MpAvail \in Seq(Blocks) /\ Len(MpAvail) = n
        /\ \A k \in 1 .. n : MpAvail[k] = k - 1
    <2>1. n >= 1 /\ 0 \in 0 .. n - 1 /\ 0 \in 0 .. n /\ n - 0 = n
      BY <1>1
    <2>2. MpAvail = RingAvail(new, 0, 0)
      BY Zenon, <1>2, AvailOfPool
    <2>3. /\ MpAvail \in Seq(Blocks) /\ Len(MpAvail) = n - 0
          /\ \A k \in 1 .. n - 0 : MpAvail[k] = new[SlotOf(0, n, k)]
      <3>1. IsAvail(MpAvail, Blocks, new, n, 0, 0)
        BY Zenon, <1>1, <1>3, <1>4, <2>1, <2>2, AvailIs
      <3> QED BY Zenon, <3>1 DEF IsAvail
    <2>4. \A k \in 1 .. n : SlotOf(0, n, k) = k
      BY <1>1 DEF SlotOf
    <2> QED BY Zenon, <1>3, <2>1, <2>3, <2>4
  <1>7. Shared(Blocks, MpAvail, owners, n)
    <2>1. MpAvail \in Seq(0 .. n - 1)
      <3>1. \A k \in 1 .. n : MpAvail[k] \in 0 .. n - 1
        BY <1>1, <1>6
      <3> QED BY <1>1, <1>6, <3>1
    <2>2. \A k \in 1 .. n : MpAvail[k] \in Blocks /\ MpAvail[k] = k - 1
      BY <1>1, <1>6 DEF Blocks
    <2>3. owners \in [Blocks -> {0, 1}] /\ \A b \in Blocks : owners[b] = 0
      BY <1>2
    <2>4. \A j, k \in 1 .. n : MpAvail[j] = MpAvail[k] => j = k
      BY <1>1, <2>2
    <2>5. ASSUME NEW b \in 0 .. n - 1 PROVE \E k \in 1 .. n : MpAvail[k] = b
      <3>1. b + 1 \in 1 .. n /\ (b + 1) - 1 = b
        BY <1>1
      <3> QED BY Zenon, <2>2, <3>1
    <2> QED BY Zenon, <1>6, <2>1, <2>2, <2>3, <2>4, <2>5 DEF Shared
  <1>8. Closed(mp_alloc_index, mp_free_index, used, mp_capacity)
    BY <1>2 DEF Closed
  <1>9. MpTypeOK
    <2>1. owners \in [Blocks -> Nat]
      BY <1>2
    <2>2. n \in InitCapacity .. MaxCapacity /\ 0 \in 0 .. n - 1 /\ 0 \in 0 .. n
      BY <1>1 DEF n
    <2> QED BY Zenon, <1>2, <1>4, <1>5, <2>1, <2>2 DEF MpTypeOK
  <1>10. AtMost(Blocks, owners, used)
    <2>1. <<>> \in Seq(Blocks) /\ Len(<<>>) = 0
      BY EmptySeq
    <2>2. \A b \in Blocks : owners[b] # 1
      BY <1>2
    <2> QED BY Zenon, <1>2, <2>1, <2>2 DEF AtMost
  <1> QED BY Zenon, <1>5, <1>7, <1>8, <1>9, <1>10 DEF MpIInv

\* The invariant of the growing pool, when muggle_memory_pool_ensure_space is called
\* while blocks are in use only.
THEOREM MpInductive ==
  ASSUME PoolAssumption, NoOverflow, ~GrowEmpty
  PROVE  MpSpec => []MpIInv
  <1>1. MpInit => MpIInv
    BY PoolInit
  <1>2. MpIInv /\ [MpNext]_mpVars => MpIInv'
    BY PoolStep
  <1> QED BY <1>1, <1>2, PTL DEF MpSpec

\* What the invariant says of the blocks, and of the assertion of memory_pool.c:168.
LEMMA PoolSafe ==
  ASSUME PoolAssumption, MpIInv
  PROVE  MpTypeOK /\ NoDoubleOwner /\ Conserved /\ AssertAligned
  <1>1. MpTypeOK /\ Shared(Blocks, MpAvail, owners, mp_capacity)
    BY DEF MpIInv
  <1>2. /\ owners \in [Blocks -> {0, 1}]
        /\ \A j, k \in 1 .. Len(MpAvail) : MpAvail[j] = MpAvail[k] => j = k
        /\ \A k \in 1 .. Len(MpAvail) : owners[MpAvail[k]] = 0
        /\ \A b \in 0 .. mp_capacity - 1 :
             owners[b] = 0 => \E k \in 1 .. Len(MpAvail) : MpAvail[k] = b
    BY Zenon, <1>1 DEF Shared
  <1>3. NoDoubleOwner
    BY <1>2 DEF NoDoubleOwner
  <1>4. ASSUME NEW b \in 0 .. mp_capacity - 1,
               NEW places, places = {k \in 1 .. Len(MpAvail) : MpAvail[k] = b}
        PROVE  \/ owners[b] = 1 /\ places = {}
               \/ owners[b] = 0 /\ \E k \in places : places = {k}
    <2>1. b \in Blocks
      BY PoolFacts DEF Blocks
    <2>2. CASE owners[b] = 0
      <3>1. PICK k \in 1 .. Len(MpAvail) : MpAvail[k] = b
        BY Zenon, <1>2, <2>2
      <3>2. k \in places /\ \A x \in places : x = k
        BY Zenon, <1>2, <1>4, <3>1
      <3>3. places = {k}
        BY Zenon, <3>2
      <3> QED BY Zenon, <2>2, <3>2, <3>3
    <2>3. CASE owners[b] = 1
      <3>1. places = {}
        BY <1>2, <1>4, <2>3
      <3> QED BY Zenon, <2>3, <3>1
    <2> QED BY <1>2, <2>1, <2>2, <2>3
  <1>5. AssertAligned
    <2>1. Closed(mp_alloc_index, mp_free_index, used, mp_capacity)
      BY DEF MpIInv
    <2>2. /\ mp_capacity \in Nat /\ mp_alloc_index \in 0 .. mp_capacity - 1
          /\ mp_free_index \in 0 .. mp_capacity - 1
      BY Zenon, <1>1, PoolFacts DEF MpTypeOK
    <2> QED BY <2>1, <2>2 DEF Closed, AssertAligned
  <1>6. Conserved
    BY Zenon, <1>4 DEF Conserved
  <1> QED BY <1>1, <1>3, <1>5, <1>6

\* However alloc, free and ensure_space follow each other, and whenever the ring grows,
\* a block has one owner or is available once, and the available blocks are a queue
\* between alloc and free.
THEOREM BlocksAreKept ==
  ASSUME PoolAssumption, NoOverflow, ~GrowEmpty
  PROVE  MpSpec => PoolKeeps
  <1>1. MpIInv => MpTypeOK /\ NoDoubleOwner /\ Conserved
    BY PoolSafe
  <1>2. MpIInv /\ [MpNext]_mpVars => [QueueStep]_mpVars
    BY PoolStep
  <1> QED BY <1>1, <1>2, MpInductive, PTL DEF MpSpec, PoolKeeps, AvailIsQueue

\* assert(pool->alloc_index == pool->free_index) in muggle_memory_pool_ensure_space
\* (memory_pool.c:168) cannot fail.
THEOREM FullIsAligned ==
  ASSUME PoolAssumption, NoOverflow, ~GrowEmpty
  PROVE  MpSpec => []AssertAligned
  <1>1. MpIInv => AssertAligned
    BY PoolSafe
  <1> QED BY <1>1, MpInductive, PTL

-----------------------------------------------------------------------------
(* The ring of muggle_pointer_slot_t.                                      *)

\* A sum of a wrapped cursor.
LEMMA ModAdd ==
  ASSUME NEW a \in Nat, NEW j \in Nat, NEW m \in Nat \ {0}
  PROVE  ((a % m) + j) % m = (a + j) % m
  <1> DEFINE q == a \div m
             r == a % m
             b == r + j
             p == b \div m
             x == b % m
             y == a + j
  <1>1. q \in Nat /\ r \in 0 .. m - 1 /\ a = m * q + r
    BY Zenon, DivMod
  <1>2. b \in Nat /\ b = r + j /\ y \in Nat /\ y = a + j
    BY <1>1
  <1> HIDE DEF q, r, b, y
  <1>3. p \in Nat /\ x \in 0 .. m - 1 /\ b = m * p + x
    BY Zenon, <1>2, DivMod
  <1> HIDE DEF p, x
  <1> DEFINE z == q + p
  <1>4. m * z = m * q + m * p /\ z \in Int
    BY <1>1, <1>3
  <1> HIDE DEF z
  <1>5. y = m * z + x
    BY <1>1, <1>2, <1>3, <1>4
  <1>6. y % m = x
    BY Zenon, <1>2, <1>3, <1>4, <1>5, ModOf
  <1> QED BY Zenon, <1>6 DEF x, b, r, y

\* The array pp_slots as a sequence.
RingOf(pp) == [i \in 1 .. SlotCapacity |-> pp[i - 1]]
PpRing == RingOf(pp_slots)

\* Unused as an operator of the fields.
SlotAvail(pp, i, n) == [k \in 1 .. SlotCapacity - n |-> pp[SlotIdx(i + k - 1)]]

\* The fields as a ring: an entry of the array is in use for every live slot.
SlotRing ==
  IsRing(Slots, PpRing, SlotIdx(alloc_index), SlotIdx(free_index), Len(slot_live))

\* The slots in use and the entries of slot_live, each slot in use once and with its
\* data.
LiveMatches(live, used_, data_) ==
  /\ \A j, k \in 1 .. Len(live) : live[j][1] = live[k][1] => j = k
  /\ \A k \in 1 .. Len(live) : used_[live[k][1]] = 1 /\ data_[live[k][1]] = live[k][2]
  /\ \A s \in Slots : used_[s] = 1 => \E k \in 1 .. Len(live) : live[k][1] = s

\* The k-th node of the list, its head being node 0.
NodeAt(live, k) ==
  IF k = 0 THEN HeadNode ELSE IF k = Len(live) + 1 THEN TailNode ELSE live[k][1]

\* The list is linked both ways in the order of insertion.
Linked(live, nx, pv) ==
  \A k \in 0 .. Len(live) : /\ nx[NodeAt(live, k)] = NodeAt(live, k + 1)
                            /\ pv[NodeAt(live, k + 1)] = NodeAt(live, k)

\* What every call keeps.
SlotIInv ==
  /\ SlotTypeOK
  /\ SlotRing
  /\ Shared(Slots, Unused, in_used, SlotCapacity)
  /\ LiveMatches(slot_live, in_used, slot_data)
  /\ Linked(slot_live, next, prev)

\* The constants of a table whose arrays have as many entries as its capacity.
LEMMA SlotConsts ==
  ASSUME SlotAssumption, Allocated = SlotCapacity
  PROVE  /\ SlotCapacity \in Nat \ {0} /\ SlotCapacity >= 1 /\ Slots = 0 .. SlotCapacity - 1
         /\ IndexMod \in Nat \ {0} /\ IndexMod % SlotCapacity = 0
         /\ HeadNode # TailNode /\ HeadNode \notin Slots /\ TailNode \notin Slots
  BY DEF SlotAssumption, Slots

\* index++ moves an index one position round the ring.
LEMMA IncIsStep ==
  ASSUME SlotAssumption, Allocated = SlotCapacity, NEW i \in Nat
  PROVE  /\ SlotInc(i) \in 0 .. IndexMod - 1
         /\ SlotIdx(i) \in 0 .. SlotCapacity - 1
         /\ SlotIdx(SlotInc(i)) = MpStep(SlotIdx(i), SlotCapacity)
  <1> DEFINE c == SlotCapacity
             m == IndexMod
             r == i % c
  <1>1. c \in Nat \ {0} /\ m \in Nat \ {0} /\ m % c = 0
    BY Zenon, SlotConsts
  <1>2. i + 1 \in Nat
    OBVIOUS
  <1>3. (i + 1) % m \in 0 .. m - 1 /\ r \in 0 .. c - 1
    BY Zenon, <1>1, <1>2, DivMod
  <1>4. ((i + 1) % m) % c = (i + 1) % c
    BY Zenon, <1>1, <1>2, ModMod
  <1>5. (r + 1) % c = (i + 1) % c
    BY Zenon, <1>1, ModSucc
  <1> HIDE DEF c, m, r
  <1>6. (r + 1) % c = MpStep(r, c)
    <2>1. r + 1 \in Nat /\ r + 1 = c * 0 + (r + 1) /\ 0 \in Int
      BY <1>1, <1>3
    <2>2. CASE r + 1 = c
      <3>1. c \in Nat /\ c = c * 1 + 0 /\ 1 \in Int /\ 0 \in 0 .. c - 1
        BY <1>1
      <3>2. c % c = 0
        BY <1>1, <3>1, ModOf
      <3> QED BY Zenon, <2>2, <3>2 DEF MpStep
    <2>3. CASE r + 1 # c
      <3>1. r + 1 \in 0 .. c - 1
        BY <1>1, <1>3, <2>3
      <3>2. (r + 1) % c = r + 1
        BY Zenon, <1>1, <2>1, <3>1, ModOf
      <3> QED BY Zenon, <2>3, <3>2 DEF MpStep
    <2> QED BY <2>2, <2>3
  <1> QED BY Zenon, <1>3, <1>4, <1>5, <1>6 DEF SlotInc, SlotIdx, c, m, r

\* The unused slots are the available ones of the ring.
LEMMA UnusedIs ==
  ASSUME SlotAssumption, Allocated = SlotCapacity, NEW pp, NEW i \in Nat,
         NEW n \in Nat
  PROVE  SlotAvail(pp, i, n) = RingAvail(RingOf(pp), SlotIdx(i), n)
  <1> DEFINE c == SlotCapacity
  <1>1. c \in Nat \ {0} /\ n \in Nat
    BY Zenon, SlotConsts
  <1>2. Len(RingOf(pp)) = c
    BY <1>1 DEF RingOf
  <1>3. ASSUME NEW k \in 1 .. c - n
        PROVE  RingOf(pp)[((SlotIdx(i) + k - 1) % c) + 1]
                 = pp[SlotIdx(i + k - 1)]
    <2> DEFINE j == k - 1
               x == (i + j) % c
    <2>1. j \in Nat /\ i + j \in Nat
      BY <1>1
    <2>2. x \in 0 .. c - 1
      BY Zenon, <1>1, <2>1, DivMod
    <2>3. ((i % c) + j) % c = x
      BY Zenon, <1>1, <2>1, ModAdd
    <2>4. i % c \in 0 .. c - 1
      BY Zenon, <1>1, DivMod
    <2>5. (i % c) + k - 1 = (i % c) + j /\ i + k - 1 = i + j
      <3> HIDE DEF c
      <3> DEFINE z == i % c
      <3>1. z \in Nat
        BY <1>1, <2>4
      <3> HIDE DEF z
      <3>2. z + k - 1 = z + j
        BY <1>1, <3>1
      <3> QED BY <1>1, <3>2 DEF z
    <2> HIDE DEF x, c
    <2>6. x + 1 \in 1 .. c /\ (x + 1) - 1 = x
      BY <1>1, <2>2
    <2>7. RingOf(pp)[x + 1] = pp[x]
      BY Zenon, <2>6 DEF RingOf, c
    <2> QED BY Zenon, <2>3, <2>5, <2>7 DEF SlotIdx, x, c
  <1>4. SlotAvail(pp, i, n) = [k \in 1 .. c - n |-> pp[SlotIdx(i + k - 1)]]
    BY DEF SlotAvail
  <1>5. RingAvail(RingOf(pp), SlotIdx(i), n)
          = [k \in 1 .. c - n |-> RingOf(pp)[((SlotIdx(i) + k - 1) % c) + 1]]
    BY Zenon, <1>2 DEF RingAvail
  <1> HIDE DEF c
  <1> QED BY Zenon, <1>3, <1>4, <1>5

-----------------------------------------------------------------------------
(* The list of the slots in use.                                           *)

\* The first component of a pair.
LEMMA ProdFirst ==
  ASSUME NEW S, NEW T, NEW x \in S \X T
  PROVE  x[1] \in S /\ x[2] \in T
  OBVIOUS

\* The k-th node of Chain, its first one being node 0.
LEMMA ChainIs ==
  ASSUME slot_live \in Seq(Slots \X Data)
  PROVE  /\ Len(Chain) = Len(slot_live) + 2
         /\ \A k \in 0 .. Len(slot_live) + 1 : Chain[k + 1] = NodeAt(slot_live, k)
  <1> DEFINE n == Len(slot_live)
             m == [k \in 1 .. n |-> slot_live[k][1]]
             S == SlotNodes
             hm == <<HeadNode>> \o m
  <1>1. n \in Nat /\ \A k \in 1 .. n : slot_live[k] \in Slots \X Data
    BY ElementOfSeq, LenProperties
  <1>2. \A k \in 1 .. n : slot_live[k][1] \in S
    BY Zenon, <1>1, ProdFirst DEF SlotNodes
  <1>3. m \in Seq(S) /\ Len(m) = n
    BY <1>1, <1>2
  <1>4. <<HeadNode>> \in Seq(S) /\ Len(<<HeadNode>>) = 1 /\ <<HeadNode>>[1] = HeadNode
        /\ <<TailNode>> \in Seq(S) /\ Len(<<TailNode>>) = 1 /\ <<TailNode>>[1] = TailNode
    BY DEF SlotNodes
  <1> HIDE DEF S
  <1>5. /\ hm \in Seq(S) /\ Len(hm) = 1 + n
        /\ \A k \in 1 .. 1 + n : hm[k] = IF k <= 1 THEN <<HeadNode>>[k] ELSE m[k - 1]
    BY <1>1, <1>3, <1>4, ConcatProperties
  <1>6. Chain = hm \o <<TailNode>>
    BY DEF Chain
  <1>7. \A k \in 1 .. n : m[k] = slot_live[k][1]
    OBVIOUS
  <1> HIDE DEF hm, m
  <1>8. /\ Len(Chain) = n + 2
        /\ \A k \in 1 .. n + 2 : Chain[k] = IF k <= 1 + n THEN hm[k] ELSE <<TailNode>>[k - (1 + n)]
    BY <1>1, <1>4, <1>5, <1>6, ConcatProperties
  <1>9. ASSUME NEW k \in 0 .. n + 1
        PROVE  Chain[k + 1] = NodeAt(slot_live, k)
    <2> HIDE DEF n
    <2>1. CASE k = 0
      <3>1. 1 \in 1 .. n + 2 /\ 1 \in 1 .. 1 + n /\ 1 <= 1 /\ 1 <= 1 + n /\ 0 + 1 = 1
        BY <1>1
      <3>2. Chain[1] = HeadNode
        BY Zenon, <1>4, <1>5, <1>8, <3>1
      <3> QED BY Zenon, <2>1, <3>1, <3>2 DEF NodeAt
    <2>2. CASE k = n + 1
      BY <1>1, <1>4, <1>8, <2>2 DEF NodeAt, n
    <2>3. CASE k \in 1 .. n
      <3>1. Chain[k + 1] = m[k]
        <4>1. k + 1 \in 1 .. n + 2 /\ k + 1 \in 1 .. 1 + n /\ ~(k + 1 <= 1) /\ k + 1 <= 1 + n
              /\ (k + 1) - 1 = k
          BY <1>1, <2>3
        <4> QED BY Zenon, <1>5, <1>8, <4>1
      <3>2. k # 0 /\ k # n + 1
        BY <1>1, <2>3
      <3> QED BY Zenon, <1>7, <2>3, <3>1, <3>2 DEF NodeAt, n
    <2> QED BY <1>1, <2>1, <2>2, <2>3
  <1> QED BY <1>8, <1>9

\* The list is linked as Chain says.
LEMMA LinkedIsList ==
  ASSUME slot_live \in Seq(Slots \X Data), Linked(slot_live, next, prev)
  PROVE  ListIsLive
  <1> DEFINE n == Len(slot_live)
  <1>1. n \in Nat
    BY LenProperties
  <1>2. Len(Chain) = n + 2 /\ \A k \in 0 .. n + 1 : Chain[k + 1] = NodeAt(slot_live, k)
    BY Zenon, ChainIs
  <1> HIDE DEF n
  <1>3. ASSUME NEW k \in 1 .. Len(Chain) - 1
        PROVE  next[Chain[k]] = Chain[k + 1] /\ prev[Chain[k + 1]] = Chain[k]
    <2> DEFINE j == k - 1
    <2>1. j \in 0 .. n /\ j \in 0 .. n + 1 /\ k \in 0 .. n + 1 /\ j + 1 = k
      BY <1>1, <1>2
    <2> HIDE DEF j
    <2>2. Chain[j + 1] = NodeAt(slot_live, j) /\ Chain[k + 1] = NodeAt(slot_live, k)
      BY Zenon, <1>2, <2>1
    <2>3. /\ next[NodeAt(slot_live, j)] = NodeAt(slot_live, j + 1)
          /\ prev[NodeAt(slot_live, j + 1)] = NodeAt(slot_live, j)
      BY Zenon, <2>1 DEF Linked, n
    <2> QED BY Zenon, <2>1, <2>2, <2>3
  <1> QED BY Zenon, <1>3 DEF ListIsLive

\* No node is twice in the list.
LEMMA NodesDiffer ==
  ASSUME SlotAssumption, Allocated = SlotCapacity,
         NEW live \in Seq(Slots \X Data), NEW u, NEW d, LiveMatches(live, u, d)
  PROVE  /\ Len(live) \in Nat
         /\ \A k \in 0 .. Len(live) + 1 : NodeAt(live, k) \in SlotNodes
         /\ \A j, k \in 0 .. Len(live) + 1 : NodeAt(live, j) = NodeAt(live, k) => j = k
         /\ \A k \in 1 .. Len(live) : NodeAt(live, k) = live[k][1] /\ live[k][1] \in Slots
  <1> DEFINE n == Len(live)
  <1>1. n \in Nat /\ \A k \in 1 .. n : live[k] \in Slots \X Data
    BY ElementOfSeq, LenProperties
  <1>2. \A k \in 1 .. n : live[k][1] \in Slots
    BY Zenon, <1>1, ProdFirst
  <1>3. \A j, k \in 1 .. n : live[j][1] = live[k][1] => j = k
    BY Zenon DEF LiveMatches
  <1>4. HeadNode # TailNode /\ HeadNode \notin Slots /\ TailNode \notin Slots
    BY Zenon, SlotConsts
  <1>a. \A k \in 1 .. n : k # 0 /\ k # n + 1
    BY <1>1
  <1>5. \A k \in 1 .. n : NodeAt(live, k) = live[k][1]
    BY Zenon, <1>a DEF NodeAt
  <1>6. NodeAt(live, 0) = HeadNode /\ NodeAt(live, n + 1) = TailNode
    BY <1>1 DEF NodeAt
  <1> HIDE DEF n
  <1>7. \A k \in 0 .. n + 1 : k = 0 \/ k = n + 1 \/ k \in 1 .. n
    BY <1>1
  <1>8. \A k \in 0 .. n + 1 : NodeAt(live, k) \in SlotNodes
    BY Zenon, <1>2, <1>5, <1>6, <1>7 DEF SlotNodes
  <1>9. ASSUME NEW j \in 0 .. n + 1, NEW k \in 0 .. n + 1, NodeAt(live, j) = NodeAt(live, k)
        PROVE  j = k
    <2>1. CASE j \in 1 .. n /\ k \in 1 .. n
      BY Zenon, <1>3, <1>5, <1>9, <2>1
    <2>2. CASE j = 0 \/ j = n + 1
      BY Zenon, <1>2, <1>4, <1>5, <1>6, <1>7, <1>9, <2>2
    <2>3. CASE k = 0 \/ k = n + 1
      BY Zenon, <1>2, <1>4, <1>5, <1>6, <1>7, <1>9, <2>3
    <2> QED BY Zenon, <1>7, <2>1, <2>2, <2>3
  <1> QED BY Zenon, <1>1, <1>2, <1>5, <1>8, <1>9 DEF n

-----------------------------------------------------------------------------
(* What insert and remove do to the list.                                  *)

\* Slot s linked before the tail, and slot s linked out.
LinksIn(live, nx, pv, s, x) ==
  /\ Linked(Append(live, <<s, x>>),
            [nx EXCEPT ![s] = TailNode, ![pv[TailNode]] = s],
            [pv EXCEPT ![s] = pv[TailNode], ![TailNode] = s])
  /\ pv[TailNode] \in SlotNodes
LinksOut(new, nx, pv, s) ==
  /\ Linked(new, [nx EXCEPT ![pv[s]] = nx[s], ![s] = NULL],
                 [pv EXCEPT ![nx[s]] = pv[s], ![s] = NULL])
  /\ pv[s] \in SlotNodes /\ nx[s] \in SlotNodes

\* A slot that is not in the list is linked before its tail.
LEMMA InsertLinks ==
  ASSUME SlotAssumption, Allocated = SlotCapacity,
         NEW live \in Seq(Slots \X Data), NEW u, NEW d, LiveMatches(live, u, d),
         NEW nx, NEW pv, DOMAIN nx = SlotNodes, DOMAIN pv = SlotNodes, Linked(live, nx, pv),
         NEW s \in Slots, \A k \in 1 .. Len(live) : live[k][1] # s,
         NEW x \in Data
  PROVE  LinksIn(live, nx, pv, s, x)
  <1> DEFINE n == Len(live)
             new == Append(live, <<s, x>>)
             p == NodeAt(live, n)
             nx2 == [nx EXCEPT ![s] = TailNode, ![p] = s]
             pv2 == [pv EXCEPT ![s] = p, ![TailNode] = s]
             N(k) == NodeAt(live, k)
  <1>1. /\ n \in Nat
        /\ \A k \in 0 .. n + 1 : N(k) \in SlotNodes
        /\ \A j, k \in 0 .. n + 1 : N(j) = N(k) => j = k
        /\ \A k \in 1 .. n : N(k) = live[k][1]
    BY Zenon, NodesDiffer
  <1>2. N(0) = HeadNode /\ N(n + 1) = TailNode
    BY <1>1 DEF NodeAt
  <1>3. \A k \in 0 .. n : nx[N(k)] = N(k + 1) /\ pv[N(k + 1)] = N(k)
    BY Zenon DEF Linked
  <1>4. /\ Len(new) = n + 1
        /\ \A k \in 1 .. n : new[k] = live[k]
        /\ new[n + 1] = <<s, x>>
    BY <1>1, AppendProperties
  <1>5. /\ \A k \in 0 .. n : NodeAt(new, k) = N(k)
        /\ NodeAt(new, n + 1) = s
        /\ NodeAt(new, n + 2) = TailNode
    <2> HIDE DEF new, n
    <2>1. NodeAt(new, 0) = N(0)
      BY <1>2 DEF NodeAt
    <2>2. ASSUME NEW k \in 1 .. n PROVE NodeAt(new, k) = N(k)
      <3>1. k # 0 /\ k # Len(new) + 1
        BY <1>1, <1>4
      <3> QED BY Zenon, <1>1, <1>4, <3>1 DEF NodeAt
    <2>3. n + 1 # 0 /\ n + 1 # Len(new) + 1 /\ n + 2 = Len(new) + 1 /\ n + 2 # 0
      BY <1>1, <1>4
    <2>4. NodeAt(new, n + 1) = <<s, x>>[1]
      BY Zenon, <1>4, <2>3 DEF NodeAt
    <2>5. NodeAt(new, n + 2) = TailNode
      BY Zenon, <2>3 DEF NodeAt
    <2>6. \A k \in 0 .. n : k = 0 \/ k \in 1 .. n
      BY <1>1
    <2>7. <<s, x>>[1] = s
      OBVIOUS
    <2> QED BY Zenon, <2>1, <2>2, <2>4, <2>5, <2>6, <2>7
  <1>6. s \in SlotNodes /\ TailNode \in SlotNodes /\ s # TailNode /\ s # HeadNode
    BY Zenon, SlotConsts DEF SlotNodes
  <1>7. p \in SlotNodes /\ pv[TailNode] = p
    <2>1. n \in 0 .. n + 1 /\ n \in 0 .. n
      BY <1>1
    <2> QED BY Zenon, <1>1, <1>2, <1>3, <2>1
  <1>8. \A k \in 0 .. n : N(k) # s
    <2>1. \A k \in 0 .. n : k = 0 \/ k \in 1 .. n
      BY <1>1
    <2> QED BY Zenon, <1>1, <1>2, <1>6, <2>1
  <1> HIDE DEF new, N
  <1>9. /\ \A a \in SlotNodes : a # s /\ a # p => nx2[a] = nx[a]
        /\ nx2[p] = s
        /\ s # p => nx2[s] = TailNode
    BY <1>6, <1>7
  <1>10. /\ \A a \in SlotNodes : a # s /\ a # TailNode => pv2[a] = pv[a]
         /\ pv2[TailNode] = s
         /\ pv2[s] = p
    BY <1>6, <1>7
  <1>11. s # p
    <2>1. n \in 0 .. n
      BY <1>1
    <2> QED BY Zenon, <1>8, <2>1 DEF N
  <1>p. p = N(n)
    BY DEF N
  <1> HIDE DEF p, nx2, pv2, n
  <1>12. ASSUME NEW k \in 0 .. n + 1
         PROVE  /\ nx2[NodeAt(new, k)] = NodeAt(new, k + 1)
                /\ pv2[NodeAt(new, k + 1)] = NodeAt(new, k)
    <2>1. CASE k \in 0 .. n - 1
      <3>1. k \in 0 .. n /\ k + 1 \in 0 .. n /\ k # n /\ n \in 0 .. n + 1 /\ k \in 0 .. n + 1
            /\ k + 1 \in 0 .. n + 1 /\ k + 1 # n + 1 /\ n + 1 \in 0 .. n + 1
        BY <1>1, <2>1
      <3>2. N(k) # p /\ N(k) # s /\ N(k + 1) # s /\ N(k + 1) # TailNode
        BY Zenon, <1>1, <1>2, <1>8, <1>p, <3>1
      <3>3. NodeAt(new, k) = N(k) /\ NodeAt(new, k + 1) = N(k + 1)
        BY Zenon, <1>5, <3>1
      <3>4. nx2[N(k)] = nx[N(k)] /\ pv2[N(k + 1)] = pv[N(k + 1)]
        BY Zenon, <1>1, <1>9, <1>10, <3>1, <3>2
      <3>5. nx[N(k)] = N(k + 1) /\ pv[N(k + 1)] = N(k)
        BY Zenon, <1>3, <3>1
      <3> QED BY Zenon, <3>3, <3>4, <3>5
    <2>2. CASE k = n
      <3>1. n \in 0 .. n
        BY <1>1
      <3> QED BY Zenon, <1>5, <1>9, <1>10, <1>p, <2>2, <3>1
    <2>3. CASE k = n + 1
      <3>1. k + 1 = n + 2
        BY <1>1, <2>3
      <3> QED BY Zenon, <1>5, <1>9, <1>10, <1>11, <2>3, <3>1
    <2> QED BY <1>1, <2>1, <2>2, <2>3
  <1>13. Linked(new, nx2, pv2)
    BY Zenon, <1>4, <1>12 DEF Linked
  <1> QED BY Zenon, <1>7, <1>13 DEF LinksIn, nx2, pv2, new

\* live without its i-th entry.
Dropped(live, i) == SubSeq(live, 1, i - 1) \o SubSeq(live, i + 1, Len(live))

\* new is live without its i-th entry, entry by entry.
IsDropped(new, live, i) ==
  /\ new \in Seq(Slots \X Data) /\ Len(new) = Len(live) - 1
  /\ \A k \in 1 .. Len(live) - 1 : new[k] = IF k < i THEN live[k] ELSE live[k + 1]

\* What is left when one entry is dropped.
LEMMA DroppedIs ==
  ASSUME NEW live \in Seq(Slots \X Data), NEW i \in 1 .. Len(live)
  PROVE  IsDropped(Dropped(live, i), live, i)
  <1> DEFINE n == Len(live)
             S == Slots \X Data
             a == SubSeq(live, 1, i - 1)
             b == SubSeq(live, i + 1, n)
             new == a \o b
  <1>1. n \in Nat /\ i \in 1 .. n
    BY LenProperties
  <1>2. 1 \in 1 .. n + 1 /\ i - 1 \in 0 .. n /\ i + 1 \in 1 .. n + 1 /\ n \in 0 .. n
    BY <1>1
  <1> HIDE DEF S
  <1>s. live \in Seq(S)
    BY DEF S
  <1>3. /\ a \in Seq(S) /\ Len(a) = i - 1
        /\ \A k \in 1 .. i - 1 : a[k] = live[k]
    BY <1>1, <1>2, <1>s
  <1>4. /\ b \in Seq(S) /\ Len(b) = n - i
        /\ \A k \in 1 .. n - i : b[k] = live[i + k]
    BY <1>1, <1>2, <1>s
  <1> HIDE DEF a, b
  <1>5. /\ new \in Seq(S) /\ Len(new) = n - 1
        /\ \A k \in 1 .. n - 1 : new[k] = IF k <= i - 1 THEN a[k] ELSE b[k - (i - 1)]
    <2>1. /\ new \in Seq(S) /\ Len(new) = Len(a) + Len(b)
          /\ \A k \in 1 .. Len(a) + Len(b) : new[k] = IF k <= Len(a) THEN a[k] ELSE b[k - Len(a)]
      BY Zenon, <1>3, <1>4, ConcatProperties
    <2>2. Len(a) + Len(b) = n - 1
      BY <1>1, <1>3, <1>4
    <2> QED BY Zenon, <1>3, <2>1, <2>2
  <1> HIDE DEF new, n
  <1>6. ASSUME NEW k \in 1 .. n - 1
        PROVE  new[k] = IF k < i THEN live[k] ELSE live[k + 1]
    <2>1. CASE k < i
      BY <1>1, <1>3, <1>5, <2>1
    <2>2. CASE ~(k < i)
      <3>1. k - (i - 1) \in 1 .. n - i /\ i + (k - (i - 1)) = k + 1 /\ ~(k <= i - 1)
        BY <1>1, <2>2
      <3> QED BY Zenon, <1>4, <1>5, <2>2, <3>1
    <2> QED BY <2>1, <2>2
  <1> QED BY Zenon, <1>5, <1>6 DEF IsDropped, Dropped, S, n, new, a, b

\* The node of an entry that is dropped is linked out.
LEMMA RemoveLinks ==
  ASSUME SlotAssumption, Allocated = SlotCapacity,
         NEW live \in Seq(Slots \X Data), NEW u, NEW d, LiveMatches(live, u, d),
         NEW nx, NEW pv, DOMAIN nx = SlotNodes, DOMAIN pv = SlotNodes, Linked(live, nx, pv),
         NEW i \in 1 .. Len(live), NEW s, s = live[i][1], NEW new, IsDropped(new, live, i)
  PROVE  LinksOut(new, nx, pv, s)
  <1> DEFINE n == Len(live)
             N(k) == NodeAt(live, k)
             p == N(i - 1)
             q == N(i + 1)
             nx2 == [nx EXCEPT ![p] = q, ![s] = NULL]
             pv2 == [pv EXCEPT ![q] = p, ![s] = NULL]
  <1>1. /\ n \in Nat
        /\ \A k \in 0 .. n + 1 : N(k) \in SlotNodes
        /\ \A j, k \in 0 .. n + 1 : N(j) = N(k) => j = k
        /\ \A k \in 1 .. n : N(k) = live[k][1]
    BY Zenon, NodesDiffer
  <1>2. N(0) = HeadNode /\ N(n + 1) = TailNode
    BY <1>1 DEF NodeAt
  <1>3. \A k \in 0 .. n : nx[N(k)] = N(k + 1) /\ pv[N(k + 1)] = N(k)
    BY Zenon DEF Linked
  <1>4. /\ Len(new) = n - 1
        /\ \A k \in 1 .. n - 1 : new[k] = IF k < i THEN live[k] ELSE live[k + 1]
    BY Zenon DEF IsDropped
  <1>5. \A k \in 0 .. n : NodeAt(new, k) = IF k < i THEN N(k) ELSE N(k + 1)
    <2>1. i \in 1 .. n /\ i >= 1
      BY <1>1
    <2> SUFFICES ASSUME NEW k \in 0 .. n PROVE NodeAt(new, k) = IF k < i THEN N(k) ELSE N(k + 1)
      OBVIOUS
    <2> HIDE DEF n, N
    <2>2. CASE k = 0
      <3>1. 0 < i
        BY <1>1, <2>1
      <3> QED BY Zenon, <1>2, <2>2, <3>1 DEF NodeAt
    <2>3. CASE k = n /\ k # 0
      <3>1. ~(n < i) /\ n = Len(new) + 1
        BY <1>1, <1>4, <2>1
      <3> QED BY Zenon, <1>2, <2>3, <3>1 DEF NodeAt
    <2>4. CASE k \in 1 .. n - 1
      <3>1. k # 0 /\ k # Len(new) + 1 /\ k \in 1 .. n /\ k + 1 \in 1 .. n
        BY <1>1, <1>4, <2>4
      <3>2. NodeAt(new, k) = new[k][1]
        BY Zenon, <3>1 DEF NodeAt
      <3> QED BY Zenon, <1>1, <1>4, <2>4, <3>1, <3>2
    <2> QED BY <1>1, <2>2, <2>3, <2>4
  <1>6. /\ i \in 0 .. n + 1 /\ i - 1 \in 0 .. n + 1 /\ i + 1 \in 0 .. n + 1 /\ i \in 1 .. n
        /\ i - 1 # i /\ i + 1 # i /\ i - 1 \in 0 .. n /\ i \in 0 .. n /\ (i - 1) + 1 = i
    BY <1>1
  <1>7. s = N(i) /\ s \in SlotNodes /\ p \in SlotNodes /\ q \in SlotNodes /\ p # s /\ q # s
    BY Zenon, <1>1, <1>6
  <1>8. nx[s] = q /\ pv[s] = p
    <2>1. nx[N(i)] = N(i + 1)
      BY Zenon, <1>3, <1>6
    <2>2. pv[N((i - 1) + 1)] = N(i - 1)
      BY Zenon, <1>3, <1>6
    <2> QED BY Zenon, <1>6, <1>7, <2>1, <2>2
  <1>9. /\ \A a \in SlotNodes : a # s /\ a # p => nx2[a] = nx[a]
        /\ nx2[p] = q
    <2> HIDE DEF p, q
    <2> QED BY <1>7
  <1>10. /\ \A a \in SlotNodes : a # s /\ a # q => pv2[a] = pv[a]
         /\ pv2[q] = p
    <2> HIDE DEF p, q
    <2> QED BY <1>7
  <1>p. p = N(i - 1) /\ q = N(i + 1)
    OBVIOUS
  <1> HIDE DEF p, q, nx2, pv2, n, N
  <1>11. ASSUME NEW k \in 0 .. n - 1
         PROVE  /\ nx2[NodeAt(new, k)] = NodeAt(new, k + 1)
                /\ pv2[NodeAt(new, k + 1)] = NodeAt(new, k)
    <2>0. k \in 0 .. n /\ k + 1 \in 0 .. n
      BY <1>1
    <2>a. /\ NodeAt(new, k) = IF k < i THEN N(k) ELSE N(k + 1)
          /\ NodeAt(new, k + 1) = IF k + 1 < i THEN N(k + 1) ELSE N((k + 1) + 1)
      BY Zenon, <1>5, <2>0
    <2>1. CASE k + 1 < i
      <3>1. k < i /\ k \in 0 .. n + 1 /\ k + 1 \in 0 .. n + 1 /\ k # i - 1 /\ k # i /\ k + 1 # i
            /\ k + 1 # i + 1
        BY <1>1, <1>6, <2>0, <2>1
      <3>2. N(k) # p /\ N(k) # s /\ N(k + 1) # s /\ N(k + 1) # q
        BY Zenon, <1>1, <1>6, <1>7, <1>p, <3>1
      <3>3. nx2[N(k)] = nx[N(k)] /\ pv2[N(k + 1)] = pv[N(k + 1)]
        BY Zenon, <1>1, <1>9, <1>10, <3>1, <3>2
      <3>4. nx[N(k)] = N(k + 1) /\ pv[N(k + 1)] = N(k)
        BY Zenon, <1>3, <2>0
      <3> QED BY Zenon, <2>1, <2>a, <3>1, <3>3, <3>4
    <2>2. CASE k + 1 = i
      <3>1. k < i /\ ~(k + 1 < i) /\ k = i - 1 /\ (k + 1) + 1 = i + 1
        BY <1>6, <2>0, <2>2
      <3> QED BY Zenon, <1>9, <1>10, <1>p, <2>a, <3>1
    <2>3. CASE ~(k + 1 < i) /\ k + 1 # i
      <3> DEFINE j == k + 1
      <3>1. ~(k < i) /\ j \in 0 .. n + 1 /\ j + 1 \in 0 .. n + 1 /\ j # i - 1 /\ j # i /\ j + 1 # i
            /\ j + 1 # i + 1
        BY <1>1, <1>6, <2>0, <2>3
      <3>2. N(j) # p /\ N(j) # s /\ N(j + 1) # s /\ N(j + 1) # q
        BY Zenon, <1>1, <1>6, <1>7, <1>p, <3>1
      <3>3. nx2[N(j)] = nx[N(j)] /\ pv2[N(j + 1)] = pv[N(j + 1)]
        BY Zenon, <1>1, <1>9, <1>10, <3>1, <3>2
      <3>4. nx[N(j)] = N(j + 1) /\ pv[N(j + 1)] = N(j)
        BY Zenon, <1>3, <2>0
      <3> QED BY Zenon, <2>3, <2>a, <3>1, <3>3, <3>4
    <2> QED BY Zenon, <2>1, <2>2, <2>3
  <1>12. Linked(new, nx2, pv2)
    BY Zenon, <1>4, <1>11 DEF Linked
  <1> QED BY Zenon, <1>7, <1>8, <1>12 DEF LinksOut, nx2, pv2

\* A slot that was not in use is the last of those in use.
LEMMA InsertLive ==
  ASSUME NEW live \in Seq(Slots \X Data), NEW u \in [Slots -> {0, 1}],
         NEW d \in [Slots -> Data \cup {NULL}], LiveMatches(live, u, d),
         NEW s \in Slots, \A k \in 1 .. Len(live) : live[k][1] # s, NEW x \in Data
  PROVE  LiveMatches(Append(live, <<s, x>>), [u EXCEPT ![s] = 1], [d EXCEPT ![s] = x])
  <1> DEFINE n == Len(live)
             new == Append(live, <<s, x>>)
             u2 == [u EXCEPT ![s] = 1]
             d2 == [d EXCEPT ![s] = x]
  <1>1. n \in Nat /\ \A k \in 1 .. n : live[k] \in Slots \X Data
    BY ElementOfSeq, LenProperties
  <1>2. \A k \in 1 .. n : live[k][1] \in Slots
    BY Zenon, <1>1, ProdFirst
  <1>3. /\ Len(new) = n + 1
        /\ \A k \in 1 .. n : new[k] = live[k]
        /\ new[n + 1] = <<s, x>>
    BY <1>1, AppendProperties
  <1>4. <<s, x>>[1] = s /\ <<s, x>>[2] = x
    OBVIOUS
  <1>5. u2[s] = 1 /\ d2[s] = x /\ \A t \in Slots : t # s => u2[t] = u[t] /\ d2[t] = d[t]
    OBVIOUS
  <1>6. /\ \A j, k \in 1 .. n : live[j][1] = live[k][1] => j = k
        /\ \A k \in 1 .. n : u[live[k][1]] = 1 /\ d[live[k][1]] = live[k][2]
        /\ \A t \in Slots : u[t] = 1 => \E k \in 1 .. n : live[k][1] = t
    BY Zenon DEF LiveMatches
  <1> HIDE DEF new, u2, d2
  <1>h. \A k \in 1 .. n : live[k][1] # s
    OBVIOUS
  <1> HIDE DEF n
  <1>7. /\ \A k \in 1 .. n + 1 : k = n + 1 \/ k \in 1 .. n
        /\ n + 1 \in 1 .. n + 1 /\ \A k \in 1 .. n : k \in 1 .. n + 1
    BY <1>1
  <1>8. ASSUME NEW j \in 1 .. n + 1, NEW k \in 1 .. n + 1, new[j][1] = new[k][1]
        PROVE  j = k
    <2>1. CASE j \in 1 .. n /\ k \in 1 .. n
      BY Zenon, <1>3, <1>6, <1>8, <2>1
    <2>2. CASE j = n + 1
      BY Zenon, <1>3, <1>4, <1>7, <1>8, <1>h, <2>2
    <2>3. CASE k = n + 1
      BY Zenon, <1>3, <1>4, <1>7, <1>8, <1>h, <2>3
    <2> QED BY Zenon, <1>7, <2>1, <2>2, <2>3
  <1>9. ASSUME NEW k \in 1 .. n + 1
        PROVE  u2[new[k][1]] = 1 /\ d2[new[k][1]] = new[k][2]
    <2>1. CASE k = n + 1
      BY Zenon, <1>3, <1>4, <1>5, <2>1
    <2>2. CASE k \in 1 .. n
      <3>1. live[k][1] \in Slots /\ live[k][1] # s
        BY Zenon, <1>2, <1>h, <2>2
      <3>2. u2[live[k][1]] = u[live[k][1]] /\ d2[live[k][1]] = d[live[k][1]]
        BY Zenon, <1>5, <3>1
      <3>3. u[live[k][1]] = 1 /\ d[live[k][1]] = live[k][2]
        BY Zenon, <1>6, <2>2
      <3>4. new[k] = live[k]
        BY Zenon, <1>3, <2>2
      <3> QED BY Zenon, <3>2, <3>3, <3>4
    <2> QED BY Zenon, <1>7, <2>1, <2>2
  <1>10. ASSUME NEW t \in Slots, u2[t] = 1
         PROVE  \E k \in 1 .. n + 1 : new[k][1] = t
    <2>1. CASE t = s
      BY Zenon, <1>3, <1>4, <1>7, <2>1
    <2>2. CASE t # s
      <3>1. u[t] = 1
        BY Zenon, <1>5, <1>10, <2>2
      <3>2. PICK k \in 1 .. n : live[k][1] = t
        BY Zenon, <1>6, <3>1
      <3>3. new[k] = live[k] /\ k \in 1 .. n + 1
        BY Zenon, <1>3, <1>7
      <3> QED BY Zenon, <3>2, <3>3
    <2> QED BY <2>1, <2>2
  <1>11. LiveMatches(new, u2, d2)
    BY Zenon, <1>3, <1>8, <1>9, <1>10 DEF LiveMatches
  <1> QED BY Zenon, <1>11 DEF new, u2, d2

\* The slot of a dropped entry is not in use any more.
LEMMA RemoveLive ==
  ASSUME NEW live \in Seq(Slots \X Data), NEW u \in [Slots -> {0, 1}],
         NEW d \in [Slots -> Data \cup {NULL}], LiveMatches(live, u, d),
         NEW i \in 1 .. Len(live), NEW s, s = live[i][1], NEW new, IsDropped(new, live, i)
  PROVE  LiveMatches(new, [u EXCEPT ![s] = 0], [d EXCEPT ![s] = NULL])
  <1> DEFINE n == Len(live)
             u2 == [u EXCEPT ![s] = 0]
             d2 == [d EXCEPT ![s] = NULL]
             From(k) == IF k < i THEN k ELSE k + 1
  <1>1. n \in Nat /\ \A k \in 1 .. n : live[k] \in Slots \X Data
    BY ElementOfSeq, LenProperties
  <1>2. \A k \in 1 .. n : live[k][1] \in Slots
    BY Zenon, <1>1, ProdFirst
  <1>3. /\ Len(new) = n - 1
        /\ \A k \in 1 .. n - 1 : new[k] = IF k < i THEN live[k] ELSE live[k + 1]
    BY Zenon DEF IsDropped
  <1>4. \A k \in 1 .. n - 1 : new[k] = live[From(k)]
    BY Zenon, <1>3
  <1>i. i \in 1 .. n
    OBVIOUS
  <1>5. s \in Slots
    BY Zenon, <1>2, <1>i
  <1>6. u2[s] = 0 /\ \A t \in Slots : t # s => u2[t] = u[t] /\ d2[t] = d[t]
    BY <1>5
  <1>7. /\ \A j, k \in 1 .. n : live[j][1] = live[k][1] => j = k
        /\ \A k \in 1 .. n : u[live[k][1]] = 1 /\ d[live[k][1]] = live[k][2]
        /\ \A t \in Slots : u[t] = 1 => \E k \in 1 .. n : live[k][1] = t
    BY Zenon DEF LiveMatches
  <1> HIDE DEF u2, d2, n
  <1>8. /\ \A k \in 1 .. n - 1 : From(k) \in 1 .. n /\ From(k) # i
        /\ \A j, k \in 1 .. n - 1 : From(j) = From(k) => j = k
        /\ \A k \in 1 .. n : k # i => \E j \in 1 .. n - 1 : From(j) = k
    <2>1. \A k \in 1 .. n - 1 : From(k) \in 1 .. n /\ From(k) # i
      BY <1>1, <1>i
    <2>2. \A j, k \in 1 .. n - 1 : From(j) = From(k) => j = k
      BY <1>1, <1>i
    <2>3. ASSUME NEW k \in 1 .. n, k # i PROVE \E j \in 1 .. n - 1 : From(j) = k
      <3>1. CASE k < i
        <4>1. k \in 1 .. n - 1 /\ From(k) = k
          BY <1>1, <1>i, <3>1
        <4> QED BY Zenon, <4>1
      <3>2. CASE ~(k < i)
        <4>1. k - 1 \in 1 .. n - 1 /\ From(k - 1) = k
          BY <1>1, <1>i, <2>3, <3>2
        <4> QED BY Zenon, <4>1
      <3> QED BY <3>1, <3>2
    <2> QED BY Zenon, <2>1, <2>2, <2>3
  <1> HIDE DEF From
  <1>9. ASSUME NEW j \in 1 .. n - 1, NEW k \in 1 .. n - 1, new[j][1] = new[k][1]
        PROVE  j = k
    <2>1. From(j) \in 1 .. n /\ From(k) \in 1 .. n
      BY Zenon, <1>8
    <2>2. live[From(j)][1] = live[From(k)][1]
      BY Zenon, <1>4, <1>9
    <2>3. From(j) = From(k)
      BY Zenon, <1>7, <2>1, <2>2
    <2> QED BY Zenon, <1>8, <2>3
  <1>10. ASSUME NEW k \in 1 .. n - 1
         PROVE  u2[new[k][1]] = 1 /\ d2[new[k][1]] = new[k][2]
    <2> DEFINE f == From(k)
    <2>1. f \in 1 .. n /\ f # i /\ new[k] = live[f]
      BY Zenon, <1>4, <1>8
    <2> HIDE DEF f
    <2>2. live[f][1] \in Slots /\ live[f][1] # s
      BY Zenon, <1>2, <1>7, <1>i, <2>1
    <2>3. u2[live[f][1]] = u[live[f][1]] /\ d2[live[f][1]] = d[live[f][1]]
      BY Zenon, <1>6, <2>2
    <2>4. u[live[f][1]] = 1 /\ d[live[f][1]] = live[f][2]
      BY Zenon, <1>7, <2>1
    <2> QED BY Zenon, <2>1, <2>3, <2>4
  <1>11. ASSUME NEW t \in Slots, u2[t] = 1
         PROVE  \E k \in 1 .. n - 1 : new[k][1] = t
    <2>1. t # s
      <3>1. 0 # 1
        OBVIOUS
      <3> QED BY Zenon, <1>6, <1>11, <3>1
    <2>2. PICK k \in 1 .. n : live[k][1] = t
      BY Zenon, <1>6, <1>7, <1>11, <2>1
    <2>3. PICK j \in 1 .. n - 1 : From(j) = k
      BY Zenon, <1>8, <2>1, <2>2
    <2> QED BY Zenon, <1>4, <2>2, <2>3
  <1>12. LiveMatches(new, u2, d2)
    BY Zenon, <1>3, <1>9, <1>10, <1>11 DEF LiveMatches
  <1> QED BY Zenon, <1>12 DEF u2, d2

-----------------------------------------------------------------------------
(* The calls of muggle_pointer_slot_t.                                     *)

\* The facts about the table that the invariant gives.
LEMMA SlotFacts ==
  ASSUME SlotAssumption, Allocated = SlotCapacity, SlotIInv
  PROVE  /\ slot_live \in Seq(Slots \X Data) /\ Len(slot_live) \in Nat
         /\ alloc_index \in Nat /\ free_index \in Nat
         /\ pp_slots \in [Slots -> Slots] /\ PpRing \in Seq(Slots)
         /\ Len(PpRing) = SlotCapacity
         /\ SlotIdx(alloc_index) \in Slots /\ SlotIdx(free_index) \in Slots
         /\ PpRing[SlotIdx(alloc_index) + 1] = pp_slots[SlotIdx(alloc_index)]
         /\ Unused = RingAvail(PpRing, SlotIdx(alloc_index), Len(slot_live))
         /\ Len(slot_live) <= SlotCapacity /\ Len(Unused) = SlotCapacity - Len(slot_live)
         /\ in_used \in [Slots -> {0, 1}] /\ slot_data \in [Slots -> Data \cup {NULL}]
         /\ prev \in [SlotNodes -> SlotNodes \cup {NULL}]
         /\ next \in [SlotNodes -> SlotNodes \cup {NULL}]
  <1>1. /\ SlotCapacity \in Nat \ {0} /\ SlotCapacity >= 1 /\ Slots = 0 .. SlotCapacity - 1
        /\ IndexMod \in Nat
    BY Zenon, SlotConsts
  <1>2. /\ slot_live \in Seq(Slots \X Data) /\ pp_slots \in [Slots -> Slots]
        /\ alloc_index \in 0 .. IndexMod - 1 /\ free_index \in 0 .. IndexMod - 1
        /\ in_used \in [Slots -> {0, 1}] /\ slot_data \in [Slots -> Data \cup {NULL}]
        /\ prev \in [SlotNodes -> SlotNodes \cup {NULL}]
        /\ next \in [SlotNodes -> SlotNodes \cup {NULL}]
    BY Zenon DEF SlotIInv, SlotTypeOK
  <1>3. alloc_index \in Nat /\ free_index \in Nat /\ Len(slot_live) \in Nat
    BY <1>1, <1>2, LenProperties
  <1>4. SlotIdx(alloc_index) \in Slots /\ SlotIdx(free_index) \in Slots
    BY Zenon, <1>1, <1>3, IncIsStep
  <1>5. Len(PpRing) = SlotCapacity /\ PpRing \in Seq(Slots)
    BY <1>1, <1>2 DEF PpRing, RingOf
  <1>6. PpRing[SlotIdx(alloc_index) + 1] = pp_slots[SlotIdx(alloc_index)]
    <2> DEFINE a == SlotIdx(alloc_index)
    <2> HIDE DEF a
    <2>1. a + 1 \in 1 .. SlotCapacity /\ (a + 1) - 1 = a
      BY <1>1, <1>4 DEF a
    <2>2. PpRing[a + 1] = pp_slots[a]
      BY Zenon, <2>1 DEF PpRing, RingOf
    <2> QED BY Zenon, <2>2 DEF a
  <1>7. Unused = RingAvail(PpRing, SlotIdx(alloc_index), Len(slot_live))
    BY Zenon, <1>3, UnusedIs DEF Unused, SlotAvail, PpRing
  <1>8. Len(slot_live) \in 0 .. SlotCapacity
    BY Zenon, <1>5 DEF SlotIInv, SlotRing, IsRing
  <1>9. Len(Unused) = SlotCapacity - Len(slot_live)
    BY <1>1, <1>3, <1>8 DEF Unused
  <1>10. Len(slot_live) <= SlotCapacity
    BY <1>1, <1>8
  <1> QED BY Zenon, <1>2, <1>3, <1>4, <1>5, <1>6, <1>7, <1>9, <1>10

\* A slot that is not in use has no entry in slot_live.
LEMMA NotInUse ==
  ASSUME SlotIInv, NEW s \in Slots, in_used[s] = 0
  PROVE  \A k \in 1 .. Len(slot_live) : slot_live[k][1] # s
  <1>1. \A k \in 1 .. Len(slot_live) : in_used[slot_live[k][1]] = 1
    BY Zenon DEF SlotIInv, LiveMatches
  <1>2. 0 # 1
    OBVIOUS
  <1> QED BY Zenon, <1>1, <1>2

\* A slot in use has the entry EntryOf(s).
LEMMA InUse ==
  ASSUME SlotIInv, NEW s \in Slots, in_used[s] = 1
  PROVE  EntryOf(s) \in 1 .. Len(slot_live) /\ slot_live[EntryOf(s)][1] = s
  <1>1. \E k \in 1 .. Len(slot_live) : slot_live[k][1] = s
    BY Zenon DEF SlotIInv, LiveMatches
  <1> QED BY Zenon, <1>1 DEF EntryOf

\* muggle_pointer_slot_insert.
LEMMA InsertStep ==
  ASSUME SlotAssumption, Allocated = SlotCapacity, SlotIInv, NEW x \in Data, Insert(x)
  PROVE  SlotIInv'
  <1> DEFINE a == SlotIdx(alloc_index)
             f == SlotIdx(free_index)
             n == Len(slot_live)
             s == pp_slots[a]
  <1>1. /\ slot_live \in Seq(Slots \X Data) /\ n \in Nat
        /\ alloc_index \in Nat /\ free_index \in Nat
        /\ pp_slots \in [Slots -> Slots] /\ PpRing \in Seq(Slots)
        /\ Len(PpRing) = SlotCapacity /\ a \in Slots
        /\ PpRing[a + 1] = s
        /\ Unused = RingAvail(PpRing, a, n) /\ n <= SlotCapacity
        /\ Len(Unused) = SlotCapacity - n
        /\ in_used \in [Slots -> {0, 1}] /\ slot_data \in [Slots -> Data \cup {NULL}]
        /\ prev \in [SlotNodes -> SlotNodes \cup {NULL}]
        /\ next \in [SlotNodes -> SlotNodes \cup {NULL}]
    BY Zenon, SlotFacts
  <1>2. /\ in_used[s] = 0
        /\ prev' = [prev EXCEPT ![s] = prev[TailNode], ![TailNode] = s]
        /\ next' = [next EXCEPT ![s] = TailNode, ![prev[TailNode]] = s]
        /\ slot_data' = [slot_data EXCEPT ![s] = x]
        /\ in_used' = [in_used EXCEPT ![s] = 1]
        /\ alloc_index' = SlotInc(alloc_index)
        /\ slot_live' = Append(slot_live, <<s, x>>)
        /\ pp_slots' = pp_slots /\ free_index' = free_index
    BY Zenon DEF Insert
  <1>3. s \in Slots
    BY Zenon, <1>1
  <1>4. /\ SlotCapacity \in Nat /\ Slots = 0 .. SlotCapacity - 1 /\ SlotCapacity <= SlotCapacity
        /\ IndexMod \in Nat
    BY SlotConsts
  <1>5. \A k \in 1 .. n : slot_live[k][1] # s
    BY Zenon, <1>2, <1>3, NotInUse
  <1>6. n < SlotCapacity
    <2>1. PICK k \in 1 .. Len(Unused) : Unused[k] = s
      BY Zenon, <1>2, <1>3, <1>4 DEF SlotIInv, Shared
    <2> HIDE DEF n
    <2> QED BY <1>1, <1>4, <2>1
  <1>7. TakesFirst(Slots, PpRing, a, f, n)
    BY Zenon, <1>1, <1>6, RingTakes DEF SlotIInv, SlotRing
  <1>8. Unused # <<>> /\ Head(Unused) = s
    BY Zenon, <1>1, <1>7 DEF TakesFirst
  <1>9. /\ alloc_index' \in 0 .. IndexMod - 1
        /\ SlotIdx(alloc_index') = MpStep(a, SlotCapacity)
    BY Zenon, <1>1, <1>2, IncIsStep
  <1>10. Len(slot_live') = n + 1 /\ slot_live' \in Seq(Slots \X Data)
    <2>1. <<s, x>> \in Slots \X Data
      BY Zenon, <1>3
    <2> HIDE DEF s, n
    <2> QED BY <1>1, <1>2, <2>1, AppendProperties DEF n
  <1>11. PpRing' = PpRing
    BY Zenon, <1>2 DEF PpRing, RingOf
  <1>a. alloc_index' \in Nat
    BY <1>4, <1>9
  <1>b. Len(slot_live') \in Nat
    BY <1>1, <1>10
  <1>12. Unused' = RingAvail(PpRing, MpStep(a, SlotCapacity), n + 1)
    <2>1. SlotAvail(pp_slots', alloc_index', Len(slot_live'))
            = RingAvail(RingOf(pp_slots'), SlotIdx(alloc_index'), Len(slot_live'))
      BY Zenon, <1>a, <1>b, UnusedIs
    <2>2. Unused' = SlotAvail(pp_slots', alloc_index', Len(slot_live'))
      BY Zenon DEF Unused, SlotAvail, SlotIdx
    <2> QED BY Zenon, <1>2, <1>9, <1>10, <2>1, <2>2 DEF PpRing
  <1>13. SlotRing' /\ Unused' = Tail(Unused)
    <2>1. /\ RingAvail(PpRing, MpStep(a, SlotCapacity), n + 1) = Tail(Unused)
          /\ IsRing(Slots, PpRing, MpStep(a, SlotCapacity), f, n + 1)
      BY Zenon, <1>1, <1>7 DEF TakesFirst
    <2>2. SlotIdx(alloc_index)' = MpStep(a, SlotCapacity) /\ SlotIdx(free_index)' = f
      BY Zenon, <1>2, <1>9 DEF SlotIdx
    <2>3. IsRing(Slots, PpRing', SlotIdx(alloc_index)', SlotIdx(free_index)', Len(slot_live'))
      BY Zenon, <1>10, <1>11, <2>1, <2>2
    <2>4. SlotRing'
      BY Zenon, <2>3 DEF SlotRing, IsRing, Closed, Slots
    <2> QED BY Zenon, <1>12, <2>1, <2>4
  <1>14. Shared(Slots, Unused, in_used, SlotCapacity)'
    <2>1. Shared(Slots, Tail(Unused), [in_used EXCEPT ![Head(Unused)] = @ + 1], SlotCapacity)
      BY Zenon, <1>4, <1>8, TakeShares DEF SlotIInv
    <2>2. [in_used EXCEPT ![s] = @ + 1] = in_used'
      <3>1. in_used[s] + 1 = 1
        BY <1>2
      <3> HIDE DEF s
      <3> QED BY <1>1, <1>2, <1>3, <3>1
    <2>3. Shared(Slots, Unused', in_used', SlotCapacity)
      BY Zenon, <1>8, <1>13, <2>1, <2>2
    <2> QED BY Zenon, <2>3 DEF Shared, Slots
  <1>15. LiveMatches(slot_live', in_used', slot_data')
    BY Zenon, <1>1, <1>2, <1>3, <1>5, InsertLive DEF SlotIInv
  <1>16. Linked(slot_live', next', prev') /\ prev[TailNode] \in SlotNodes
    <2>1. DOMAIN next = SlotNodes /\ DOMAIN prev = SlotNodes
      BY <1>1
    <2> HIDE DEF s
    <2>2. /\ LiveMatches(slot_live, in_used, slot_data) /\ Linked(slot_live, next, prev)
      BY Zenon DEF SlotIInv
    <2>3. LinksIn(slot_live, next, prev, s, x)
      BY Zenon, <1>1, <1>3, <1>5, <2>1, <2>2, InsertLinks
    <2> QED BY Zenon, <1>2, <2>3 DEF LinksIn
  <1>17. SlotTypeOK'
    <2> HIDE DEF s
    <2>1. s \in SlotNodes /\ TailNode \in SlotNodes
      BY Zenon, <1>3 DEF SlotNodes
    <2>2. prev' \in [SlotNodes -> SlotNodes \cup {NULL}]
      BY <1>1, <1>2, <1>16, <2>1
    <2>3. next' \in [SlotNodes -> SlotNodes \cup {NULL}]
      BY Zenon, <1>1, <1>2, <1>16, <2>1
    <2>4. in_used' \in [Slots -> {0, 1}] /\ slot_data' \in [Slots -> Data \cup {NULL}]
      BY <1>1, <1>2, <1>3
    <2>5. free_index' \in 0 .. IndexMod - 1
      BY Zenon, <1>2 DEF SlotIInv, SlotTypeOK
    <2> QED BY Zenon, <1>1, <1>2, <1>9, <1>10, <2>2, <2>3, <2>4, <2>5
            DEF SlotTypeOK, Slots, SlotNodes
  <1> QED BY Zenon, <1>13, <1>14, <1>15, <1>16, <1>17
          DEF SlotIInv, LiveMatches, Linked, NodeAt, Slots

\* muggle_pointer_slot_remove.
LEMMA RemoveStep ==
  ASSUME SlotAssumption, Allocated = SlotCapacity, SlotIInv, NEW s \in Slots, Remove(s)
  PROVE  SlotIInv'
  <1> DEFINE a == SlotIdx(alloc_index)
             f == SlotIdx(free_index)
             n == Len(slot_live)
             i == EntryOf(s)
             ring == [PpRing EXCEPT ![f + 1] = s]
  <1>1. /\ slot_live \in Seq(Slots \X Data) /\ n \in Nat
        /\ alloc_index \in Nat /\ free_index \in Nat
        /\ pp_slots \in [Slots -> Slots] /\ PpRing \in Seq(Slots)
        /\ Len(PpRing) = SlotCapacity /\ f \in Slots
        /\ Unused = RingAvail(PpRing, a, n) /\ n <= SlotCapacity
        /\ Len(Unused) = SlotCapacity - n
        /\ in_used \in [Slots -> {0, 1}] /\ slot_data \in [Slots -> Data \cup {NULL}]
        /\ prev \in [SlotNodes -> SlotNodes \cup {NULL}]
        /\ next \in [SlotNodes -> SlotNodes \cup {NULL}]
    BY Zenon, SlotFacts
  <1>2. /\ in_used[s] = 1
        /\ pp_slots' = [pp_slots EXCEPT ![f] = s]
        /\ next' = [next EXCEPT ![prev[s]] = next[s], ![s] = NULL]
        /\ prev' = [prev EXCEPT ![next[s]] = prev[s], ![s] = NULL]
        /\ in_used' = [in_used EXCEPT ![s] = 0]
        /\ slot_data' = [slot_data EXCEPT ![s] = NULL]
        /\ free_index' = SlotInc(free_index)
        /\ slot_live' = Without(i)
        /\ alloc_index' = alloc_index
    BY Zenon DEF Remove
  <1>3. i \in 1 .. n /\ slot_live[i][1] = s
    BY Zenon, <1>2, InUse
  <1>4. /\ SlotCapacity \in Nat /\ Slots = 0 .. SlotCapacity - 1 /\ SlotCapacity <= SlotCapacity
        /\ IndexMod \in Nat
    BY SlotConsts
  <1>5. n > 0
    <2> HIDE DEF n, i
    <2> QED BY <1>1, <1>3
  <1>6. IsDropped(slot_live', slot_live, i)
    <2>1. slot_live' = Dropped(slot_live, i)
      BY Zenon, <1>2 DEF Without, Dropped
    <2> QED BY Zenon, <1>1, <1>3, <2>1, DroppedIs
  <1>7. slot_live' \in Seq(Slots \X Data) /\ Len(slot_live') = n - 1
    BY Zenon, <1>6 DEF IsDropped
  <1> HIDE DEF i
  <1>8. PutsLast(Slots, PpRing, a, f, n, s)
    BY Zenon, <1>5, RingGives DEF SlotIInv, SlotRing
  <1>9. /\ free_index' \in 0 .. IndexMod - 1
        /\ SlotIdx(free_index') = MpStep(f, SlotCapacity)
    BY Zenon, <1>1, <1>2, IncIsStep
  <1>10. PpRing' = ring
    <2> HIDE DEF f
    <2>1. PpRing' = [k \in 1 .. SlotCapacity |-> pp_slots'[k - 1]]
      BY Zenon DEF PpRing, RingOf
    <2>2. PpRing = [k \in 1 .. SlotCapacity |-> pp_slots[k - 1]]
      BY Zenon DEF PpRing, RingOf
    <2>3. ring = [k \in 1 .. SlotCapacity |-> IF k = f + 1 THEN s ELSE pp_slots[k - 1]]
      BY Zenon, <2>2
    <2>4. ASSUME NEW k \in 1 .. SlotCapacity
          PROVE  pp_slots'[k - 1] = IF k = f + 1 THEN s ELSE pp_slots[k - 1]
      <3>1. k - 1 \in Slots /\ (k - 1 = f <=> k = f + 1)
        BY <1>1, <1>4
      <3> QED BY <1>1, <1>2, <3>1
    <2> HIDE DEF ring
    <2> QED BY Zenon, <2>1, <2>3, <2>4
  <1>b. Len(slot_live') \in Nat
    BY <1>1, <1>5, <1>7
  <1>11. Unused' = RingAvail(ring, a, n - 1)
    <2>1. SlotAvail(pp_slots', alloc_index', Len(slot_live'))
            = RingAvail(RingOf(pp_slots'), SlotIdx(alloc_index'), Len(slot_live'))
      BY Zenon, <1>1, <1>2, <1>b, UnusedIs
    <2>2. Unused' = SlotAvail(pp_slots', alloc_index', Len(slot_live'))
      BY Zenon DEF Unused, SlotAvail, SlotIdx
    <2>3. PpRing' = RingOf(pp_slots')
      BY Zenon DEF PpRing, RingOf
    <2> QED BY Zenon, <1>2, <1>7, <1>10, <2>1, <2>2, <2>3
  <1>12. SlotRing' /\ Unused' = Append(Unused, s)
    <2>1. /\ RingAvail(ring, a, n - 1) = Append(Unused, s)
          /\ IsRing(Slots, ring, a, MpStep(f, SlotCapacity), n - 1)
      BY Zenon, <1>1, <1>8 DEF PutsLast
    <2>2. SlotIdx(alloc_index)' = a /\ SlotIdx(free_index)' = MpStep(f, SlotCapacity)
      BY Zenon, <1>2, <1>9 DEF SlotIdx
    <2>3. IsRing(Slots, PpRing', SlotIdx(alloc_index)', SlotIdx(free_index)', Len(slot_live'))
      BY Zenon, <1>7, <1>10, <2>1, <2>2
    <2>4. SlotRing'
      BY Zenon, <2>3 DEF SlotRing, IsRing, Closed, Slots
    <2> QED BY Zenon, <1>11, <2>1, <2>4
  <1>13. Shared(Slots, Unused, in_used, SlotCapacity)'
    <2>1. in_used[s] > 0 /\ in_used[s] - 1 = 0
      BY <1>2
    <2>2. Shared(Slots, Append(Unused, s), [in_used EXCEPT ![s] = @ - 1], SlotCapacity)
      BY Zenon, <1>4, <2>1, GiveShares DEF SlotIInv
    <2>3. [in_used EXCEPT ![s] = @ - 1] = in_used'
      BY <1>1, <1>2, <2>1
    <2>4. Shared(Slots, Unused', in_used', SlotCapacity)
      BY Zenon, <1>12, <2>2, <2>3
    <2> QED BY Zenon, <2>4 DEF Shared, Slots
  <1>14. LiveMatches(slot_live', in_used', slot_data')
    BY Zenon, <1>1, <1>2, <1>3, <1>6, RemoveLive DEF SlotIInv
  <1>15. Linked(slot_live', next', prev') /\ prev[s] \in SlotNodes /\ next[s] \in SlotNodes
    <2>1. DOMAIN next = SlotNodes /\ DOMAIN prev = SlotNodes
      BY <1>1
    <2>2. /\ LiveMatches(slot_live, in_used, slot_data) /\ Linked(slot_live, next, prev)
      BY Zenon DEF SlotIInv
    <2>3. LinksOut(slot_live', next, prev, s)
      BY Zenon, <1>1, <1>3, <1>6, <2>1, <2>2, RemoveLinks
    <2> QED BY Zenon, <1>2, <2>3 DEF LinksOut
  <1>16. SlotTypeOK'
    <2>1. s \in SlotNodes
      BY Zenon DEF SlotNodes
    <2>2. prev' \in [SlotNodes -> SlotNodes \cup {NULL}]
      BY Zenon, <1>1, <1>2, <1>15, <2>1
    <2>3. next' \in [SlotNodes -> SlotNodes \cup {NULL}]
      BY Zenon, <1>1, <1>2, <1>15, <2>1
    <2>4. in_used' \in [Slots -> {0, 1}] /\ slot_data' \in [Slots -> Data \cup {NULL}]
      BY <1>1, <1>2
    <2>5. alloc_index' \in 0 .. IndexMod - 1
      BY Zenon, <1>2 DEF SlotIInv, SlotTypeOK
    <2>6. pp_slots' \in [Slots -> Slots]
      <3> HIDE DEF f
      <3> QED BY <1>1, <1>2
    <2> QED BY Zenon, <1>7, <1>9, <2>2, <2>3, <2>4, <2>5, <2>6
            DEF SlotTypeOK, Slots, SlotNodes
  <1> QED BY Zenon, <1>12, <1>13, <1>14, <1>15, <1>16
          DEF SlotIInv, LiveMatches, Linked, NodeAt, Slots

\* muggle_pointer_slot_init.
LEMMA SlotStarts ==
  ASSUME SlotAssumption, Allocated = SlotCapacity, SlotInit
  PROVE  SlotIInv
  <1>1. /\ SlotCapacity \in Nat \ {0} /\ SlotCapacity >= 1 /\ Slots = 0 .. SlotCapacity - 1
        /\ IndexMod \in Nat \ {0}
        /\ HeadNode # TailNode /\ HeadNode \notin Slots /\ TailNode \notin Slots
    BY Zenon, SlotConsts
  <1>2. /\ pp_slots = [i \in Slots |-> i] /\ alloc_index = 0 /\ free_index = 0
        /\ prev = [n \in SlotNodes |-> IF n = TailNode THEN HeadNode ELSE NULL]
        /\ next = [n \in SlotNodes |-> IF n = HeadNode THEN TailNode ELSE NULL]
        /\ in_used = [s \in Slots |-> 0] /\ slot_data = [s \in Slots |-> NULL]
        /\ slot_live = <<>>
    BY Zenon DEF SlotInit
  <1>3. HeadNode \in SlotNodes /\ TailNode \in SlotNodes
    BY Zenon DEF SlotNodes
  <1>4. Len(slot_live) = 0 /\ slot_live \in Seq(Slots \X Data)
    BY <1>2
  <1>5. SlotTypeOK
    <2>1. alloc_index \in 0 .. IndexMod - 1 /\ free_index \in 0 .. IndexMod - 1
      BY <1>1, <1>2
    <2>2. /\ prev \in [SlotNodes -> SlotNodes \cup {NULL}]
          /\ next \in [SlotNodes -> SlotNodes \cup {NULL}]
      BY <1>2, <1>3
    <2>3. /\ pp_slots \in [Slots -> Slots] /\ in_used \in [Slots -> {0, 1}]
          /\ slot_data \in [Slots -> Data \cup {NULL}]
      BY <1>2
    <2> QED BY Zenon, <1>4, <2>1, <2>2, <2>3 DEF SlotTypeOK
  <1>6. SlotIdx(0) = 0
    <2>1. 0 \in 0 .. SlotCapacity - 1
      BY <1>1
    <2> QED BY Zenon, <1>1, <2>1, IntModSmall DEF SlotIdx
  <1>7. SlotRing
    <2>1. PpRing \in Seq(Slots) /\ Len(PpRing) = SlotCapacity
      BY <1>1, <1>2 DEF PpRing, RingOf
    <2>2. 0 \in 0 .. SlotCapacity - 1 /\ 0 \in 0 .. SlotCapacity /\ 0 = 0 + 0
      BY <1>1
    <2>3. IsRing(Slots, PpRing, 0, 0, 0)
      BY Zenon, <1>1, <2>1, <2>2 DEF IsRing, Closed
    <2> QED BY Zenon, <1>2, <1>4, <1>6, <2>3 DEF SlotRing
  <1>8. Unused = [k \in 1 .. SlotCapacity |-> k - 1]
    <2>1. SlotCapacity - 0 = SlotCapacity
      BY <1>1
    <2>2. ASSUME NEW k \in 1 .. SlotCapacity PROVE pp_slots[SlotIdx(0 + k - 1)] = k - 1
      <3>1. 0 + k - 1 = k - 1 /\ k - 1 \in 0 .. SlotCapacity - 1
        BY <1>1
      <3>2. SlotIdx(k - 1) = k - 1
        BY Zenon, <1>1, <3>1, IntModSmall DEF SlotIdx
      <3>3. pp_slots[k - 1] = k - 1
        BY Zenon, <1>1, <1>2, <3>1
      <3> QED BY Zenon, <3>1, <3>2, <3>3
    <2> QED BY Zenon, <1>2, <1>4, <2>1, <2>2 DEF Unused
  <1>9. Shared(Slots, Unused, in_used, SlotCapacity)
    <2>1. Unused \in Seq(0 .. SlotCapacity - 1) /\ Len(Unused) = SlotCapacity
      BY <1>1, <1>8
    <2>2. \A k \in 1 .. SlotCapacity : Unused[k] = k - 1 /\ Unused[k] \in Slots
      BY <1>1, <1>8
    <2>3. in_used \in [Slots -> {0, 1}] /\ \A s \in Slots : in_used[s] = 0
      BY <1>2
    <2>4. \A j, k \in 1 .. SlotCapacity : Unused[j] = Unused[k] => j = k
      BY <1>1, <2>2
    <2>5. ASSUME NEW b \in 0 .. SlotCapacity - 1 PROVE \E k \in 1 .. SlotCapacity : Unused[k] = b
      <3>1. b + 1 \in 1 .. SlotCapacity /\ (b + 1) - 1 = b
        BY <1>1
      <3> QED BY Zenon, <2>2, <3>1
    <2> QED BY Zenon, <2>1, <2>2, <2>3, <2>4, <2>5 DEF Shared
  <1>10. LiveMatches(slot_live, in_used, slot_data)
    <2>1. \A k \in 1 .. 0 : FALSE
      OBVIOUS
    <2>2. \A s \in Slots : in_used[s] # 1
      BY <1>2
    <2> QED BY Zenon, <1>4, <2>1, <2>2 DEF LiveMatches
  <1>11. Linked(slot_live, next, prev)
    <2>1. NodeAt(slot_live, 0) = HeadNode /\ NodeAt(slot_live, 0 + 1) = TailNode
      BY <1>4 DEF NodeAt
    <2>2. next[HeadNode] = TailNode /\ prev[TailNode] = HeadNode
      BY Zenon, <1>2, <1>3
    <2>3. \A k \in 0 .. 0 : k = 0
      OBVIOUS
    <2> QED BY Zenon, <1>4, <2>1, <2>2, <2>3 DEF Linked
  <1> QED BY Zenon, <1>5, <1>7, <1>9, <1>10, <1>11 DEF SlotIInv

\* Every call keeps the invariant.
LEMMA SlotStep ==
  ASSUME SlotAssumption, Allocated = SlotCapacity, SlotIInv, [SlotNext]_slotVars
  PROVE  SlotIInv'
  <1>1. CASE \E x \in Data : Insert(x)
    BY Zenon, <1>1, InsertStep
  <1>2. CASE \E s \in Slots : Remove(s)
    BY Zenon, <1>2, RemoveStep
  <1>3. CASE UNCHANGED slotVars
    <2>1. /\ pp_slots' = pp_slots /\ alloc_index' = alloc_index /\ free_index' = free_index
          /\ prev' = prev /\ next' = next /\ in_used' = in_used /\ slot_data' = slot_data
          /\ slot_live' = slot_live
      BY Zenon, <1>3 DEF slotVars, list
    <2>2. SlotTypeOK'
      BY Zenon, <2>1 DEF SlotIInv, SlotTypeOK, Slots, SlotNodes
    <2>3. PpRing' = PpRing
      BY Zenon, <2>1 DEF PpRing, RingOf
    <2>4. SlotRing'
      BY Zenon, <2>1, <2>3 DEF SlotIInv, SlotRing, IsRing, Closed, SlotIdx, Slots
    <2>5. Unused' = Unused
      BY Zenon, <2>1 DEF Unused, SlotIdx
    <2>6. Shared(Slots, Unused, in_used, SlotCapacity)'
      BY Zenon, <2>1, <2>5 DEF SlotIInv, Shared, Slots
    <2>7. LiveMatches(slot_live, in_used, slot_data)'
      BY Zenon, <2>1 DEF SlotIInv, LiveMatches, Slots
    <2>8. Linked(slot_live, next, prev)'
      BY Zenon, <2>1 DEF SlotIInv, Linked, NodeAt
    <2> QED BY Zenon, <2>2, <2>4, <2>6, <2>7, <2>8 DEF SlotIInv
  <1> QED BY Zenon, <1>1, <1>2, <1>3 DEF SlotNext

\* The fields of a table always agree with each other: the ring, the flags, the list and
\* what was inserted.
THEOREM SlotInductive ==
  ASSUME SlotAssumption, Allocated = SlotCapacity
  PROVE  SlotSpec => []SlotIInv
  <1>1. SlotInit => SlotIInv
    BY SlotStarts
  <1>2. SlotIInv /\ [SlotNext]_slotVars => SlotIInv'
    BY SlotStep
  <1> QED BY <1>1, <1>2, PTL DEF SlotSpec

\* What the invariant says of the table.
LEMMA SlotSafe ==
  ASSUME SlotAssumption, Allocated = SlotCapacity, SlotIInv
  PROVE  SlotsMatch
  <1> DEFINE a == SlotIdx(alloc_index)
             f == SlotIdx(free_index)
             n == Len(slot_live)
             s0 == pp_slots[a]
  <1>1. /\ slot_live \in Seq(Slots \X Data) /\ n \in Nat
        /\ pp_slots \in [Slots -> Slots] /\ PpRing \in Seq(Slots)
        /\ Len(PpRing) = SlotCapacity /\ a \in Slots /\ f \in Slots
        /\ PpRing[a + 1] = s0
        /\ Unused = RingAvail(PpRing, a, n) /\ n <= SlotCapacity
        /\ Len(Unused) = SlotCapacity - n
        /\ in_used \in [Slots -> {0, 1}]
    BY Zenon, SlotFacts
  <1>2. SlotCapacity \in Nat /\ Slots = 0 .. SlotCapacity - 1 /\ SlotCapacity <= SlotCapacity
    BY SlotConsts
  <1>3. SlotTypeOK
    BY Zenon DEF SlotIInv
  <1>4. ListIsLive
    BY Zenon, <1>1, LinkedIsList DEF SlotIInv
  <1>5. RingIsUnused
    <2>1. DOMAIN Unused = 1 .. Len(Unused)
      BY <1>1, <1>2 DEF Unused
    <2>2. /\ \A k \in 1 .. Len(Unused) : in_used[Unused[k]] = 0
          /\ \A j, k \in 1 .. Len(Unused) : Unused[j] = Unused[k] => j = k
      BY Zenon DEF SlotIInv, Shared
    <2> QED BY Zenon, <2>1, <2>2 DEF RingIsUnused
  <1>6. GetIsInserted
    <2> SUFFICES ASSUME NEW s \in Slots
                 PROVE  Get(s) = IF \E k \in 1 .. n : slot_live[k][1] = s
                                 THEN slot_live[EntryOf(s)][2] ELSE NULL
      BY Zenon DEF GetIsInserted
    <2>1. in_used[s] = 0 \/ in_used[s] = 1
      BY <1>1
    <2>2. CASE in_used[s] = 0
      <3>1. \A k \in 1 .. n : slot_live[k][1] # s
        BY Zenon, <2>2, NotInUse
      <3> QED BY Zenon, <2>2, <3>1 DEF Get
    <2>3. CASE in_used[s] = 1
      <3>1. EntryOf(s) \in 1 .. n /\ slot_live[EntryOf(s)][1] = s
        BY Zenon, <2>3, InUse
      <3>2. slot_data[s] = slot_live[EntryOf(s)][2]
        BY Zenon, <3>1 DEF SlotIInv, LiveMatches
      <3>3. 1 # 0
        OBVIOUS
      <3> QED BY Zenon, <2>3, <3>1, <3>2, <3>3 DEF Get
    <2> QED BY Zenon, <2>1, <2>2, <2>3
  <1>7. RefusedOnlyWhenFull
    <2> SUFFICES ASSUME in_used[s0] = 1
                 PROVE  n = Allocated /\ a = f
      BY Zenon DEF RefusedOnlyWhenFull
    <2>1. ~(n < SlotCapacity)
      <3> SUFFICES ASSUME n < SlotCapacity PROVE FALSE
        OBVIOUS
      <3>1. TakesFirst(Slots, PpRing, a, f, n)
        BY Zenon, <1>1, RingTakes DEF SlotIInv, SlotRing
      <3>2. Unused # <<>> /\ Head(Unused) = s0
        BY Zenon, <1>1, <3>1 DEF TakesFirst
      <3>3. in_used[Head(Unused)] = 0
        BY Zenon, <1>2, <3>2, TakeShares DEF SlotIInv
      <3>4. 0 # 1
        OBVIOUS
      <3> QED BY Zenon, <3>2, <3>3, <3>4
    <2> HIDE DEF s0
    <2>2. n = SlotCapacity
      <3> HIDE DEF n
      <3> QED BY <1>1, <1>2, <2>1
    <2>3. Closed(a, f, n, SlotCapacity)
      BY Zenon, <1>1 DEF SlotIInv, SlotRing, IsRing
    <2>4. a = f
      <3> HIDE DEF a, f, n
      <3> QED BY <1>1, <1>2, <2>2, <2>3 DEF Closed
    <2> QED BY Zenon, <2>2, <2>4
  <1> QED BY Zenon, <1>3, <1>4, <1>5, <1>6, <1>7 DEF SlotsMatch

\* For every capacity that is a power of two: the list holds the slots in use in the order
\* of insertion, an index names its data until it is removed, and insert, which looks
\* at one slot, is refused only when all are in use, with alloc_index and free_index at
\* the same position (pointer_slot.c:83).
THEOREM SlotsAreMatched ==
  ASSUME SlotAssumption, Allocated = SlotCapacity
  PROVE  SlotSpec => []SlotsMatch
  <1>1. SlotIInv => SlotsMatch
    BY SlotSafe
  <1> QED BY <1>1, SlotInductive, PTL

=============================================================================
