-------------------------------- MODULE Aes --------------------------------
(***************************************************************************)
(* The two implementations of AES of muggle/c/crypt, of which the build    *)
(* takes one (MUGGLE_CRYPT_OPTIMIZATION): internal_aes.c, with tables and  *)
(* a state of bytes, and openssl_aes.c, without tables, which works on the *)
(* eight bytes of a 64 bit word at once and inverts them in a tower of     *)
(* fields.                                                                 *)
(*                                                                         *)
(* A word, a block and a key are the sets of their bits that are on; byte  *)
(* i of what is kept in memory holds the bits 8i .. 8i+7, as on a little   *)
(* endian machine.  So & is \cap, | is \cup and ^ the symmetric            *)
(* difference.                                                             *)
(***************************************************************************)
EXTENDS Integers, Sequences, FiniteSets

CONSTANTS
  Words,    \* 64 bit words to substitute
  Keys,     \* sequences of bytes, as numbers: the keys, some of them of no valid size
  Blocks,   \* blocks of 16 bytes
  Examples  \* blocks, keys and encrypted blocks of the unit tests

VARIABLES query, answer

Seqs == INSTANCE SequencesExt

On(n, b) == (n \div 2^b) % 2 = 1
Bits(n) == {b \in 0 .. 7 : On(n, b)}
Xor(x, y) == (x \ y) \cup (y \ x)
Shl(x, n) == {b + n : b \in x}
Shr(x, n) == {b - n : b \in {c \in x : c >= n}}
Part(m, width, i) == Shr(m, width * i) \cap (0 .. width - 1)
ByteAt(m, i) == Part(m, 8, i)
Join(parts, width) == UNION {Shl(parts[i], width * (i - 1)) : i \in DOMAIN parts}
Memory(bytes) == Join([i \in DOMAIN bytes |-> Bits(bytes[i])], 8)

-----------------------------------------------------------------------------
(***************************************************************************)
(* openssl_aes.c.                                                          *)
(***************************************************************************)
\* x & the constant with the byte m in all its places.
And(x, m) == {b \in x : On(m, b % 8)}

\* Every bit changes places with the one n away: masks, shifts by n both ways, and |.
Swap(x, n) == {IF (b \div n) % 2 = 1 THEN b - n ELSE b + n : b \in x}

\* Every byte's bits become sums of bits of that byte, which is turned right by one bit
\* after each summand: masks[n + 1] says for which bits the one n to the left is a summand.
Linear(x, masks) ==
  {b \in 0 .. 63 :
     Cardinality({n \in 0 .. 7 : /\ On(masks[n + 1], b % 8)
                                 /\ 8 * (b \div 8) + ((b + n) % 8) \in x}) % 2 = 1}

\* The product in GF(2^2) of the pairs of bits of u and v, mask being their left bits.
Mul2Spilling(u, v, mask) ==
  LET p == u \cap v IN
  Xor(Xor(p, Shr(And(p, mask), 1)), Xor(Shl(u, 1) \cap v, Shl(v, 1) \cap u))

Mul2(u, v, mask) ==
  LET p == u \cap v IN
  Xor(Xor(p, Shr(And(p, mask), 1)), And(Xor(Shl(u, 1) \cap v, Shl(v, 1) \cap u), mask))

\* The pairs of u whose left bit is in mask times x.
Twice(u, mask) ==
  LET p == And(u, mask) IN Xor(p \cup Shr(p, 1), And(Shl(u, 1), mask))

\* The product in GF(2^2^2) of the halves of the bytes.
Mul4(u, v) ==
  LET low == Mul2(u, v, \hAA)
      cross == Mul2(Swap(u, 2), v, \hAA)
  IN Xor(Xor(low, And(Xor(Shl(cross, 2), cross), \hCC)), Twice(Shr(And(low, \hCC), 2), \h22))

\* Eight times the left half of each byte, twice that half being given.
Eight(twice) ==
  LET high == And(twice, \hC0) IN
  Xor(high, And(Shl(twice, 2), \hC0)) \cup Twice(Shr(high, 2), \h20)

\* The sum of the right half of each byte and of eight times the left one.
Sum4(x) == And(Xor(x, Shr(Eight(Twice(x, \hA0)), 4)), \h0F)

\* The same of the pairs of bits of the right halves, with two for eight.
Sum2(x) == And(Xor(x, Shr(Twice(x, \h08), 2)), \h03)

\* The inverse of every byte in GF(2^2), in GF(2^2^2) and in GF(2^2^2^2), 0 being its own.
Invert2(x) == Xor(x, Shr(And(x, \h02), 1))

Invert4(x) ==
  LET a2 == Xor(x, Shr(And(x, \h0C), 2))
      Both(t) == t \cup Shl(t, 2)
  IN Mul2(a2, Both(Invert2(Sum2(Mul2(x, a2, \h0A)))), \h0A)

Invert(x) ==
  LET a1 == Xor(x, Shr(And(x, \hF0), 4))
      Both(t) == t \cup Shl(t, 4)
  IN Mul4(a1, Both(Invert4(Sum4(Mul4(x, a1)))))

\* openssl_sub_u64 and openssl_sub_u32, for a word of that width.
openssl_sub(x, width) ==
  LET y == Invert(Linear(x, <<\hDD, \h57, \h1C, \h4A, \h42, \h64, \hE0, 0>>)) IN
  Xor(Linear(y, <<\h39, \h3F, 0, \h97, \h9B, \h3C, \hDD, \h72>>),
      And(0 .. width - 1, \h63))

openssl_inv_sub(x) ==
  LET y == Invert(Linear(Xor(x, And(0 .. 63, \h63)),
                         <<\hFD, \h5E, \hF3, \hF5, \h78, \h77, \h15, \hA5>>)) IN
  Linear(y, <<\hB5, \h40, \h80, \h16, \hEB, \h97, \hFB, \h7D>>)

openssl_xtime(x) ==
  LET top == And(x, \h80)
      ones == UNION {b - 7 .. b - 1 : b \in top}  \* 0x80 - 0x01 in these bytes
  IN Xor(And(ones, \h1B), Shl(x \ top, 1))

openssl_shift_row(state) ==
  Join([i \in 1 .. 16 |-> ByteAt(state, (i - 1 + 4 * ((i - 1) % 4)) % 16)], 8)

openssl_inv_shift_row(state) ==
  Join([i \in 1 .. 16 |-> ByteAt(state, (i - 1 - 4 * ((i - 1) % 4)) % 16)], 8)

\* Byte n of each group of four takes byte n + 1 of it.
Next8(x) == {32 * (b \div 32) + ((b - 8) % 32) : b \in x}

MixWord(s1) ==
  LET pairs == Xor(s1, Swap(s1, 16))
      twice == openssl_xtime(s1)
  IN Xor(Xor(Xor(pairs, Swap(pairs, 8)), s1), Xor(twice, Next8(twice)))

openssl_mix_columns(state) == Join([c \in 1 .. 2 |-> MixWord(Part(state, 64, c - 1))], 64)

InvMixWord(s1) ==
  LET four == openssl_xtime(openssl_xtime(s1))
      fours == Xor(four, Swap(four, 16))
      eight == openssl_xtime(fours)
  IN Xor(MixWord(s1), Xor(fours, Xor(eight, Swap(eight, 8))))

openssl_inv_mix_columns(state) ==
  Join([c \in 1 .. 2 |-> InvMixWord(Part(state, 64, c - 1))], 64)

\* w is the sequence of 64 bit words of the schedule.
openssl_add_round_key(state, w, i) == Xor(state, Join(<<w[i + 1], w[i + 2]>>, 64))

SubState(state) == Join([c \in 1 .. 2 |-> openssl_sub(Part(state, 64, c - 1), 64)], 64)
InvSubState(state) == Join([c \in 1 .. 2 |-> openssl_inv_sub(Part(state, 64, c - 1))], 64)

\* Round i of openssl_cipher.
openssl_cipher(state, w, nr, i) ==
  LET shifted == openssl_shift_row(SubState(state)) IN
  openssl_add_round_key(IF i = 0 THEN state
                        ELSE IF i < nr THEN openssl_mix_columns(shifted)
                        ELSE shifted, w, 2 * i)

\* Round i of openssl_inv_cipher, nr being the first and 0 the last.
openssl_inv_cipher(state, w, nr, i) ==
  LET keyed == openssl_add_round_key(
                 IF i = nr THEN state ELSE InvSubState(openssl_inv_shift_row(state)), w, 2 * i)
  IN IF i \in 1 .. nr - 1 THEN openssl_inv_mix_columns(keyed) ELSE keyed

\* The word of openssl_key_expansion that follows those of w, and the next rcon.
openssl_key_expansion(w, rcon, nk) ==
  LET n == nk \div 2
      i == Len(w)
      last == Part(w[i], 32, 1)
      temp == IF i % n = 0 THEN Xor(openssl_sub(Next8(last), 32), rcon)
              ELSE IF nk > 6 /\ i % n = 2 THEN openssl_sub(last, 32)
              ELSE last
      low == Xor(Part(w[i - n + 1], 32, 0), temp)
      high == Xor(Part(w[i - n + 1], 32, 1), low)
  IN [word |-> Join(<<low, high>>, 32),
      rcon |-> IF i % n = 0 THEN openssl_xtime(rcon) ELSE rcon]

-----------------------------------------------------------------------------
(***************************************************************************)
(* internal_aes.c, with the schedule of aes.c.  The state holds the block  *)
(* row by row; a word of the schedule is a number, its first byte on top.  *)
(***************************************************************************)
s_muggle_aes_sbox == <<
  \h63, \h7c, \h77, \h7b, \hf2, \h6b, \h6f, \hc5, \h30, \h01, \h67, \h2b, \hfe, \hd7, \hab, \h76,
  \hca, \h82, \hc9, \h7d, \hfa, \h59, \h47, \hf0, \had, \hd4, \ha2, \haf, \h9c, \ha4, \h72, \hc0,
  \hb7, \hfd, \h93, \h26, \h36, \h3f, \hf7, \hcc, \h34, \ha5, \he5, \hf1, \h71, \hd8, \h31, \h15,
  \h04, \hc7, \h23, \hc3, \h18, \h96, \h05, \h9a, \h07, \h12, \h80, \he2, \heb, \h27, \hb2, \h75,
  \h09, \h83, \h2c, \h1a, \h1b, \h6e, \h5a, \ha0, \h52, \h3b, \hd6, \hb3, \h29, \he3, \h2f, \h84,
  \h53, \hd1, \h00, \hed, \h20, \hfc, \hb1, \h5b, \h6a, \hcb, \hbe, \h39, \h4a, \h4c, \h58, \hcf,
  \hd0, \hef, \haa, \hfb, \h43, \h4d, \h33, \h85, \h45, \hf9, \h02, \h7f, \h50, \h3c, \h9f, \ha8,
  \h51, \ha3, \h40, \h8f, \h92, \h9d, \h38, \hf5, \hbc, \hb6, \hda, \h21, \h10, \hff, \hf3, \hd2,
  \hcd, \h0c, \h13, \hec, \h5f, \h97, \h44, \h17, \hc4, \ha7, \h7e, \h3d, \h64, \h5d, \h19, \h73,
  \h60, \h81, \h4f, \hdc, \h22, \h2a, \h90, \h88, \h46, \hee, \hb8, \h14, \hde, \h5e, \h0b, \hdb,
  \he0, \h32, \h3a, \h0a, \h49, \h06, \h24, \h5c, \hc2, \hd3, \hac, \h62, \h91, \h95, \he4, \h79,
  \he7, \hc8, \h37, \h6d, \h8d, \hd5, \h4e, \ha9, \h6c, \h56, \hf4, \hea, \h65, \h7a, \hae, \h08,
  \hba, \h78, \h25, \h2e, \h1c, \ha6, \hb4, \hc6, \he8, \hdd, \h74, \h1f, \h4b, \hbd, \h8b, \h8a,
  \h70, \h3e, \hb5, \h66, \h48, \h03, \hf6, \h0e, \h61, \h35, \h57, \hb9, \h86, \hc1, \h1d, \h9e,
  \he1, \hf8, \h98, \h11, \h69, \hd9, \h8e, \h94, \h9b, \h1e, \h87, \he9, \hce, \h55, \h28, \hdf,
  \h8c, \ha1, \h89, \h0d, \hbf, \he6, \h42, \h68, \h41, \h99, \h2d, \h0f, \hb0, \h54, \hbb, \h16>>

s_muggle_aes_inv_sbox == <<
  \h52, \h09, \h6a, \hd5, \h30, \h36, \ha5, \h38, \hbf, \h40, \ha3, \h9e, \h81, \hf3, \hd7, \hfb,
  \h7c, \he3, \h39, \h82, \h9b, \h2f, \hff, \h87, \h34, \h8e, \h43, \h44, \hc4, \hde, \he9, \hcb,
  \h54, \h7b, \h94, \h32, \ha6, \hc2, \h23, \h3d, \hee, \h4c, \h95, \h0b, \h42, \hfa, \hc3, \h4e,
  \h08, \h2e, \ha1, \h66, \h28, \hd9, \h24, \hb2, \h76, \h5b, \ha2, \h49, \h6d, \h8b, \hd1, \h25,
  \h72, \hf8, \hf6, \h64, \h86, \h68, \h98, \h16, \hd4, \ha4, \h5c, \hcc, \h5d, \h65, \hb6, \h92,
  \h6c, \h70, \h48, \h50, \hfd, \hed, \hb9, \hda, \h5e, \h15, \h46, \h57, \ha7, \h8d, \h9d, \h84,
  \h90, \hd8, \hab, \h00, \h8c, \hbc, \hd3, \h0a, \hf7, \he4, \h58, \h05, \hb8, \hb3, \h45, \h06,
  \hd0, \h2c, \h1e, \h8f, \hca, \h3f, \h0f, \h02, \hc1, \haf, \hbd, \h03, \h01, \h13, \h8a, \h6b,
  \h3a, \h91, \h11, \h41, \h4f, \h67, \hdc, \hea, \h97, \hf2, \hcf, \hce, \hf0, \hb4, \he6, \h73,
  \h96, \hac, \h74, \h22, \he7, \had, \h35, \h85, \he2, \hf9, \h37, \he8, \h1c, \h75, \hdf, \h6e,
  \h47, \hf1, \h1a, \h71, \h1d, \h29, \hc5, \h89, \h6f, \hb7, \h62, \h0e, \haa, \h18, \hbe, \h1b,
  \hfc, \h56, \h3e, \h4b, \hc6, \hd2, \h79, \h20, \h9a, \hdb, \hc0, \hfe, \h78, \hcd, \h5a, \hf4,
  \h1f, \hdd, \ha8, \h33, \h88, \h07, \hc7, \h31, \hb1, \h12, \h10, \h59, \h27, \h80, \hec, \h5f,
  \h60, \h51, \h7f, \ha9, \h19, \hb5, \h4a, \h0d, \h2d, \he5, \h7a, \h9f, \h93, \hc9, \h9c, \hef,
  \ha0, \he0, \h3b, \h4d, \hae, \h2a, \hf5, \hb0, \hc8, \heb, \hbb, \h3c, \h83, \h53, \h99, \h61,
  \h17, \h2b, \h04, \h7e, \hba, \h77, \hd6, \h26, \he1, \h69, \h14, \h63, \h55, \h21, \h0c, \h7d>>

s_muggle_aes_mix_column == <<2, 3, 1, 1,  1, 2, 3, 1,  1, 1, 2, 3,  3, 1, 1, 2>>

s_muggle_aes_inv_mix_column ==
  <<14, 11, 13, 9,  9, 14, 11, 13,  13, 9, 14, 11,  11, 13, 9, 14>>

\* The top bytes of the constants; the others are 0.
s_aes_rcon == <<1, 2, 4, 8, 16, 32, 64, 128, \h1b, \h36, \h6c, \hd8, \hab, \h4d, \h9a>>

Number(x) == Seqs!FoldSet(LAMBDA b, n : n + 2^b, 0, x)

Sbox(x) == Bits(s_muggle_aes_sbox[Number(x) + 1])
InvSbox(x) == Bits(s_muggle_aes_inv_sbox[Number(x) + 1])

RECURSIVE galois_mul(_, _)
galois_mul(a, b) ==
  IF a = {} THEN {}
  ELSE LET shifted == Shl(b \ {7}, 1) IN
       Xor(IF 0 \in a THEN b ELSE {},
           galois_mul(Shr(a, 1), IF 7 \in b THEN Xor(shifted, Bits(\h1b)) ELSE shifted))

\* rd_key is the sequence of words, of which four are added from word i on.
muggle_aes_add_round_key(state, rd_key, i) ==
  Join([k \in 1 .. 16 |-> Xor(ByteAt(state, k - 1),
                              ByteAt(rd_key[i + ((k - 1) % 4) + 1], 3 - ((k - 1) \div 4)))], 8)

muggle_aes_sub_bytes(state) == Join([k \in 1 .. 16 |-> Sbox(ByteAt(state, k - 1))], 8)
muggle_aes_inv_sub_bytes(state) ==
  Join([k \in 1 .. 16 |-> InvSbox(ByteAt(state, k - 1))], 8)

\* Row r moves left, or right, by r.
muggle_aes_shift_rows(state) ==
  Join([k \in 1 .. 16 |-> LET r == (k - 1) \div 4 IN ByteAt(state, 4 * r + ((k - 1 + r) % 4))], 8)
muggle_aes_inv_shift_rows(state) ==
  Join([k \in 1 .. 16 |-> LET r == (k - 1) \div 4 IN ByteAt(state, 4 * r + ((k - 1 - r) % 4))], 8)

\* The loop of muggle_aes_mix_column and of muggle_aes_inv_mix_column.
Mixed(state, matrix) ==
  Join([k \in 1 .. 16 |->
          LET Term(n) == galois_mul(Bits(matrix[4 * ((k - 1) \div 4) + n + 1]),
                                    ByteAt(state, 4 * n + ((k - 1) % 4)))
          IN Xor(Xor(Term(0), Term(1)), Xor(Term(2), Term(3)))], 8)
muggle_aes_mix_column(state) == Mixed(state, s_muggle_aes_mix_column)
muggle_aes_inv_mix_column(state) == Mixed(state, s_muggle_aes_inv_mix_column)

\* The bytes move one place up in memory, on a little endian machine to the left.
muggle_aes_rot_word_big(word) == {(b - 8) % 32 : b \in word}
muggle_aes_rot_word(word) == {(b + 8) % 32 : b \in word}
muggle_aes_sub_word(word) == Join([k \in 1 .. 4 |-> Sbox(ByteAt(word, k - 1))], 8)

\* Round i of muggle_aes_encrypt.
muggle_aes_encrypt(state, rd_key, rounds, i) ==
  LET shifted == muggle_aes_shift_rows(muggle_aes_sub_bytes(state)) IN
  muggle_aes_add_round_key(IF i = 0 THEN state
                           ELSE IF i < rounds THEN muggle_aes_mix_column(shifted)
                           ELSE shifted, rd_key, 4 * i)

\* "inv round" i of muggle_aes_decrypt.
muggle_aes_decrypt(state, rd_key, rounds, i) ==
  LET keyed == muggle_aes_add_round_key(state, rd_key, 4 * i)
      mixed == IF i = rounds THEN keyed ELSE muggle_aes_inv_mix_column(keyed)
  IN IF i = 0 THEN keyed ELSE muggle_aes_inv_sub_bytes(muggle_aes_inv_shift_rows(mixed))

\* The word that the loop of muggle_aes_set_key adds to the ones in rd_key.
NextWord(rd_key, Nk) ==
  LET i == Len(rd_key)
      last == rd_key[i]
      temp == IF i % Nk = 0
              THEN Xor(muggle_aes_sub_word(muggle_aes_rot_word(last)),
                       Shl(Bits(s_aes_rcon[((i - 1) \div Nk) + 1]), 24))
              ELSE IF Nk > 6 /\ i % Nk = 4 THEN muggle_aes_sub_word(last)
              ELSE last
  IN Xor(rd_key[i - Nk + 1], temp)

-----------------------------------------------------------------------------
(***************************************************************************)
(* aes.c: a key is set, a block encrypted and the result decrypted, or the *)
(* other way round, in both builds side by side; a step is a 64 bit word   *)
(* of the schedule or a round.  One query is about a word only.            *)
(***************************************************************************)
Rounds == [bytes \in {16, 24, 32} |-> (bytes \div 4) + 6]
nr == Rounds[Len(query.key)]
nk == Len(query.key) \div 4

\* muggle_aes_crypt turns the block into rows for the internal functions and back.
Transposed(m) == Join([k \in 1 .. 16 |-> ByteAt(m, 4 * ((k - 1) % 4) + ((k - 1) \div 4))], 8)

Queries ==
  [op : {"sub"}, word : Words] \cup
  [op : {"encrypt", "decrypt"}, key : Keys, block : Blocks] \cup
  {[op |-> "encrypt", key |-> e.key, block |-> e.block] : e \in Examples}

Init == query \in Queries /\ answer = [at |-> "start"]

\* openssl_sub_u64 and the others.
Substitute ==
  LET word == Memory(query.word) IN
  /\ answer.at = "start" /\ query.op = "sub"
  /\ answer' = [at |-> "done",
                sub |-> openssl_sub(word, 64), sub_u32 |-> openssl_sub(Part(word, 32, 0), 32),
                inv_sub |-> openssl_inv_sub(word), xtime |-> openssl_xtime(word)]

\* muggle_aes_set_key and muggle_openssl_aes_set_key: the key is the start of the schedule.
SetKey ==
  LET key == Memory(query.key)
      Big(i) == Join([k \in 1 .. 4 |-> ByteAt(key, 4 * i - k)], 8)
  IN
  /\ answer.at = "start" /\ query.op # "sub"
  /\ answer' = IF Len(query.key) \notin DOMAIN Rounds THEN [at |-> "KEY_SIZE"]
               ELSE [at |-> "expand", rcon |-> {0},
                     w |-> [i \in 1 .. nk \div 2 |-> Part(key, 64, i - 1)],
                     rd_key |-> [i \in 1 .. nk |-> Big(i)]]

\* The loops of openssl_key_expansion and of muggle_aes_set_key, a word of the one being
\* two words of the other; the block is then copied into the state.
ExpandKey ==
  LET next == openssl_key_expansion(answer.w, answer.rcon, nk)
      once == Append(answer.rd_key, NextWord(answer.rd_key, nk))
      w == Append(answer.w, next.word)
      rd_key == Append(once, NextWord(once, nk))
  IN
  /\ answer.at = "expand"
  /\ answer' = IF Len(w) < 2 * (nr + 1)
               THEN [at |-> "expand", rcon |-> next.rcon, w |-> w, rd_key |-> rd_key]
               ELSE [at |-> query.op, i |-> 0, w |-> w, rd_key |-> rd_key,
                     state |-> Memory(query.block),
                     rows |-> Transposed(Memory(query.block)), out |-> <<>>]

\* A round of muggle_aes_crypt with this op; after the last one the result is the input of
\* the other op, once.
Round(op, state, rows) ==
  LET last == answer.i = nr
      done == last /\ op # query.op
  IN
  /\ answer.at = op
  /\ answer' = [answer EXCEPT
       !.state = state, !.rows = rows,
       !.i = IF last THEN 0 ELSE @ + 1,
       !.out = IF last THEN Append(@, <<state, Transposed(rows)>>) ELSE @,
       !.at = IF done THEN "done"
              ELSE IF last THEN IF op = "encrypt" THEN "decrypt" ELSE "encrypt"
              ELSE op]

Encrypt ==
  Round("encrypt", openssl_cipher(answer.state, answer.w, nr, answer.i),
                   muggle_aes_encrypt(answer.rows, answer.rd_key, nr, answer.i))

Decrypt ==
  Round("decrypt", openssl_inv_cipher(answer.state, answer.w, nr, nr - answer.i),
                   muggle_aes_decrypt(answer.rows, answer.rd_key, nr, nr - answer.i))

Next == UNCHANGED query /\ (Substitute \/ SetKey \/ ExpandKey \/ Encrypt \/ Decrypt)

Spec == Init /\ [][Next]_<<query, answer>>

-----------------------------------------------------------------------------
\* What FIPS 197 says of the byte that stands for x: with 0x63 taken away and the affine map
\* undone it is the inverse of x in GF(2^8), or 0 as x is.
Substitutes(x, s) ==
  LET c == Xor(s, Bits(\h63))
      y == {b \in 0 .. 7 : Cardinality({n \in {2, 5, 7} : (b + n) % 8 \in c}) % 2 = 1}
  IN IF x = {} THEN y = {} ELSE galois_mul(x, y) = {0}

\* openssl_sub_u64, openssl_sub_u32, openssl_inv_sub_u64 and openssl_xtime_u64 do to each
\* byte of a word what the standard does to a byte, whatever its neighbours are: no bit
\* moves from one byte to the next.  The tables of internal_aes.c hold the same.
LanesRight ==
  query.op = "sub" /\ answer.at = "done" =>
    \A i \in 0 .. 7 :
      LET x == Bits(query.word[i + 1]) IN
      /\ Substitutes(x, ByteAt(answer.sub, i))
      /\ i < 4 => Substitutes(x, ByteAt(answer.sub_u32, i))
      /\ Substitutes(ByteAt(answer.inv_sub, i), x)
      /\ ByteAt(answer.xtime, i) = galois_mul(Bits(2), x)
      /\ Substitutes(x, Sbox(x)) /\ Substitutes(InvSbox(x), x)

\* Both builds make the same schedule of a key and the same block of a block in every round
\* of encryption and at the end of decryption; decrypting what was encrypted, and the other
\* way round, gives the block back; and the example of FIPS 197 of the unit test comes out.
BuildsAgree ==
  /\ answer.at \in {"expand", "encrypt", "decrypt"} =>
       \A i \in DOMAIN answer.w, k \in 1 .. 8 :
         ByteAt(answer.w[i], k - 1) =
           ByteAt(answer.rd_key[2 * i - 1 + ((k - 1) \div 4)], 3 - ((k - 1) % 4))
  /\ answer.at = "encrypt" => answer.state = Transposed(answer.rows)
  /\ answer.at = "done" /\ query.op # "sub" =>
       /\ \A n \in DOMAIN answer.out : answer.out[n][1] = answer.out[n][2]
       /\ answer.out[2][1] = Memory(query.block)
       /\ \A e \in Examples :
            query = [op |-> "encrypt", key |-> e.key, block |-> e.block] =>
              answer.out[1][1] = Memory(e.encrypted)
=============================================================================
