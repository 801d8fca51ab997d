---------------------------- MODULE BlockCipher ----------------------------
(***************************************************************************)
(* The block cipher modes of muggle/c/crypt (aes.c, des.c, tdes.c): a      *)
(* message is encrypted by any sequence of calls, and what has been        *)
(* encrypted is decrypted by another sequence of calls, cut elsewhere.     *)
(* The initialization vector, its offset, the nonce and the stream block   *)
(* belong to the caller and carry the state from one call to the next.     *)
(*                                                                         *)
(* A byte is one bit and a block BLOCK_SIZE bytes.  A key is the sequence  *)
(* of what its rounds do to half a block: the rounds of DES are the ones   *)
(* of the code, for AES they stand for some permutation of the blocks.     *)
(* The null checks and the calls refused for a context of another mode or  *)
(* a length that is not a multiple of a block change nothing and are left  *)
(* out.                                                                    *)
(***************************************************************************)
EXTENDS Integers, Sequences

CONSTANTS
  BLOCK_SIZE,  \* MUGGLE_AES_BLOCK_SIZE and MUGGLE_DES_BLOCK_SIZE: 16 and 8
  ip, fp,      \* the tables of the initial permutation of DES and of the final one
  Keys,        \* triples of keys, of which AES and DES use the first
  Ivs,         \* the initialization vectors and nonces
  Messages

VARIABLES
  cipher, mode,
  optimization,  \* MUGGLE_CRYPT_OPTIMIZATION, of the build
  in_place,      \* the output buffer of each call is its input buffer
  key, iv, message,
  enc, dec,      \* what the two callers keep between their calls
  text, back     \* what was encrypted, and what was decrypted of it

Seqs == INSTANCE SequencesExt

setup == <<cipher, mode, optimization, in_place, key, iv, message>>
vars == <<setup, enc, dec, text, back>>

Bits == {0, 1}
Block == [1 .. BLOCK_SIZE -> Bits]
Half == BLOCK_SIZE \div 2

ENCRYPT == "encrypt"
DECRYPT == "decrypt"
BlockModes == {"ecb", "cbc"}
ByteModes == {"cfb", "ofb", "ctr"}

Xor(a, b) == [i \in DOMAIN a |-> (a[i] + b[i]) % 2]

-----------------------------------------------------------------------------
(***************************************************************************)
(* One block.                                                              *)
(***************************************************************************)
Left(b) == SubSeq(b, 1, Half)
Right(b) == SubSeq(b, Half + 1, BLOCK_SIZE)
Swap(b) == Right(b) \o Left(b)

\* The bits of a block are moved one by one, as the two tables say.
Ip(b) == [i \in 1 .. BLOCK_SIZE |-> b[ip[i]]]
Fp(b) == [i \in 1 .. BLOCK_SIZE |-> b[fp[i]]]

\* A round of the Feistel network, with what muggle_des_f does under its subkey.
Round(b, f) == Right(b) \o Xor(Left(b), f[Right(b)])
Rounds(b, sk) == Seqs!FoldLeft(Round, b, sk)

\* The subkeys are stored in the opposite order for decryption.
DesSubkeys(op, k) == IF op = DECRYPT THEN Seqs!Reverse(k) ELSE k

DesSetKey(op) == DesSubkeys(IF mode \in BlockModes THEN op ELSE ENCRYPT, key[1])

DesCrypt(sk, b) == Fp(Swap(Rounds(Ip(b), sk)))

TdesSetKey(op) ==
  IF op = ENCRYPT \/ mode \in ByteModes
  THEN <<DesSubkeys(ENCRYPT, key[1]), DesSubkeys(DECRYPT, key[2]), DesSubkeys(ENCRYPT, key[3])>>
  ELSE <<DesSubkeys(DECRYPT, key[3]), DesSubkeys(ENCRYPT, key[2]), DesSubkeys(DECRYPT, key[1])>>

\* The three times sixteen rounds without optimization: the halves are swapped once, at
\* the end.
TdesCryptInner(sk, b) == Fp(Swap(Rounds(Rounds(Rounds(Ip(b), sk[1]), sk[2]), sk[3])))

\* encrypt2 of the optimized build swaps the halves after its sixteen rounds.
Encrypt2(b, sk) == Swap(Rounds(b, sk))
TdesCryptOpenssl(sk, b) == Fp(Encrypt2(Encrypt2(Encrypt2(Ip(b), sk[1]), sk[2]), sk[3]))

TdesCrypt(sk, b) == IF optimization THEN TdesCryptOpenssl(sk, b) ELSE TdesCryptInner(sk, b)

\* The same schedule serves both directions.
AesCrypt(op, sk, b) ==
  IF op = ENCRYPT THEN Rounds(b, sk) ELSE CHOOSE c \in Block : Rounds(c, sk) = b

-----------------------------------------------------------------------------
(***************************************************************************)
(* The modes, over the function C that en- or decrypts a block.  s holds   *)
(* the initialization vector or nonce, the offset in it, the stream block  *)
(* and the output of the call so far.                                      *)
(***************************************************************************)
EcbBlock(C, s, b) == [s EXCEPT !.out = @ \o C[b]]

\* The vector for the next block is read from the input after the output was written.
CbcBlock(C, op, s, b) ==
  LET c == IF op = ENCRYPT THEN C[Xor(s.iv, b)] ELSE Xor(C[b], s.iv)
  IN  [s EXCEPT !.out = @ \o c, !.iv = IF op = ENCRYPT \/ in_place THEN c ELSE b]

Advance(offset) == (offset + 1) % BLOCK_SIZE

\* The bytes of the vector are replaced by the ones of the encrypted text.
CfbByte(C, op, s, x) ==
  LET v == IF s.offset = 0 THEN C[s.iv] ELSE s.iv
      y == (x + v[s.offset + 1]) % 2
  IN  [s EXCEPT !.out = Append(@, y),
                !.iv = [v EXCEPT ![s.offset + 1] = IF op = ENCRYPT \/ in_place THEN y ELSE x],
                !.offset = Advance(@)]

OfbByte(C, s, x) ==
  LET v == IF s.offset = 0 THEN C[s.iv] ELSE s.iv
  IN  [s EXCEPT !.out = Append(@, (x + v[s.offset + 1]) % 2),
                !.iv = v, !.offset = Advance(@)]

CtrByte(C, Inc, s, x) ==
  LET n == IF s.offset = 0 THEN Inc[s.iv] ELSE s.iv
      v == IF s.offset = 0 THEN C[n] ELSE s.stream_block
  IN  [s EXCEPT !.out = Append(@, (x + v[s.offset + 1]) % 2),
                !.iv = n, !.stream_block = v, !.offset = Advance(@)]

Blocks(in) == [i \in 1 .. Len(in) \div BLOCK_SIZE |->
                 SubSeq(in, (i - 1) * BLOCK_SIZE + 1, i * BLOCK_SIZE)]

OnBlocks(C, op, s, in) ==
  LET Step(t, b) == IF mode = "ecb" THEN EcbBlock(C, t, b) ELSE CbcBlock(C, op, t, b)
  IN  Seqs!FoldLeft(Step, [s EXCEPT !.out = <<>>], Blocks(in))

OnBytes(C, Inc, op, s, in) ==
  LET Step(t, x) == CASE mode = "cfb" -> CfbByte(C, op, t, x)
                      [] mode = "ofb" -> OfbByte(C, t, x)
                      [] mode = "ctr" -> CtrByte(C, Inc, t, x)
  IN  Seqs!FoldLeft(Step, [s EXCEPT !.out = <<>>], in)

-----------------------------------------------------------------------------
(***************************************************************************)
(* The calls of the three ciphers.                                         *)
(***************************************************************************)
\* The value of bits, the lowest first, and back.
Value(b) == Seqs!FoldRight(LAMBDA x, v : x + 2 * v, b, 0)
ToBits(v, n) == [i \in 1 .. n |-> (v \div 2 ^ (i - 1)) % 2]

\* Mutant: the carry is lost.
AesIncNoCarry(n) == ToBits(Value(Left(n)) + 1, Half) \o Right(n)

\* The nonce of AES is two words, with a carry from the first to the second.
AesInc(n) ==
  LET low == ToBits(Value(Left(n)) + 1, Half)
  IN  low \o (IF Value(low) = 0 THEN ToBits(Value(Right(n)) + 1, Half) ELSE Right(n))

DesInc(n) == ToBits(Value(n) + 1, BLOCK_SIZE)

AesBlockCall(op, s, in) == OnBlocks([b \in Block |-> AesCrypt(op, key[1], b)], op, s, in)
AesByteCall(op, s, in) ==
  OnBytes([b \in Block |-> AesCrypt(ENCRYPT, key[1], b)],
          [n \in Block |-> AesInc(n)], op, s, in)

DesBlockCall(op, s, in) == OnBlocks([b \in Block |-> DesCrypt(DesSetKey(op), b)], op, s, in)
DesByteCall(op, s, in) ==
  OnBytes([b \in Block |-> DesCrypt(DesSetKey(op), b)],
          [n \in Block |-> DesInc(n)], op, s, in)

TdesBlockCall(op, s, in) == OnBlocks([b \in Block |-> TdesCrypt(TdesSetKey(op), b)], op, s, in)
TdesByteCall(op, s, in) ==
  OnBytes([b \in Block |-> TdesCrypt(TdesSetKey(op), b)],
          [n \in Block |-> DesInc(n)], op, s, in)

Call(op, s, in) ==
  CASE cipher = "aes" /\ mode \in BlockModes -> AesBlockCall(op, s, in)
    [] cipher = "aes" /\ mode \in ByteModes -> AesByteCall(op, s, in)
    [] cipher = "des" /\ mode \in BlockModes -> DesBlockCall(op, s, in)
    [] cipher = "des" /\ mode \in ByteModes -> DesByteCall(op, s, in)
    [] cipher = "tdes" /\ mode \in BlockModes -> TdesBlockCall(op, s, in)
    [] cipher = "tdes" /\ mode \in ByteModes -> TdesByteCall(op, s, in)

-----------------------------------------------------------------------------
Fresh == [iv |-> iv, offset |-> 0, stream_block |-> [i \in 1 .. BLOCK_SIZE |-> 0],
          out |-> <<>>]

Init ==
  /\ cipher \in {"aes", "des", "tdes"} /\ mode \in BlockModes \cup ByteModes
  /\ optimization \in BOOLEAN /\ in_place \in BOOLEAN
  /\ key \in Keys /\ iv \in Ivs /\ message \in Messages
  /\ enc = Fresh /\ dec = Fresh
  /\ text = <<>> /\ back = <<>>

\* The lengths a call may have when 'left' bytes are left.
Lengths(left) == {n \in 1 .. left : mode \in BlockModes => n % BLOCK_SIZE = 0}

Encrypt ==
  \E n \in Lengths(Len(message) - Len(text)) :
    LET s == Call(ENCRYPT, enc, SubSeq(message, Len(text) + 1, Len(text) + n))
    IN  /\ enc' = [s EXCEPT !.out = <<>>]
        /\ text' = text \o s.out
        /\ UNCHANGED <<setup, dec, back>>

Decrypt ==
  \E n \in Lengths(Len(text) - Len(back)) :
    LET s == Call(DECRYPT, dec, SubSeq(text, Len(back) + 1, Len(back) + n))
    IN  /\ dec' = [s EXCEPT !.out = <<>>]
        /\ back' = back \o s.out
        /\ UNCHANGED <<setup, enc, text>>

Next == Encrypt \/ Decrypt

Spec == Init /\ [][Next]_vars

-----------------------------------------------------------------------------
Kept == [iv : Block, offset : 0 .. BLOCK_SIZE - 1, stream_block : Block, out : {<<>>}]

TypeOK ==
  /\ enc \in Kept /\ dec \in Kept
  /\ Len(back) <= Len(text) /\ Len(text) <= Len(message)
  /\ \A i \in 1 .. Len(text) : text[i] \in Bits

\* What the textbook cipher does to a block: triple DES is DES under the first key, back
\* under the second, and again under the third.
Textbook(b) ==
  CASE cipher = "aes" -> Rounds(b, key[1])
    [] cipher = "des" -> DesCrypt(key[1], b)
    [] cipher = "tdes" -> DesCrypt(key[3], DesCrypt(Seqs!Reverse(key[2]), DesCrypt(key[1], b)))

\* The block of t before block i, counted from 0.
Before(t, i) ==
  IF i = 0 THEN iv ELSE SubSeq(t, (i - 1) * BLOCK_SIZE + 1, i * BLOCK_SIZE)

\* The key stream of block i when each block is the encryption of the one before it.
Feedback[i \in Nat] == Textbook(IF i = 0 THEN iv ELSE Feedback[i - 1])

\* Byte j of the encrypted text, as the mode is defined for whole messages.
Expected(j) ==
  LET i == (j - 1) \div BLOCK_SIZE
      o == ((j - 1) % BLOCK_SIZE) + 1
      p == SubSeq(message, i * BLOCK_SIZE + 1, (i + 1) * BLOCK_SIZE)
      Add(v) == (message[j] + v[o]) % 2
  IN  CASE mode = "ecb" -> Textbook(p)[o]
        [] mode = "cbc" -> Textbook(Xor(p, Before(text, i)))[o]
        [] mode = "cfb" -> Add(Textbook(Before(text, i)))
        [] mode = "ofb" -> Add(Feedback[i])
        [] mode = "ctr" -> Add(Textbook(ToBits(Value(iv) + i + 1, BLOCK_SIZE)))

\* However a message is cut into calls, and in place or not, the encrypted text is the one
\* the mode defines for the whole message: muggle_*_ecb, _cbc, _cfb*, _ofb* and _ctr hand
\* the vector, the offset, the nonce and the stream block from call to call.  (Triple DES
\* of a build without MUGGLE_CRYPT_OPTIMIZATION is another cipher.)
ModeIsStandard ==
  (cipher = "tdes" => optimization)
    => \A j \in 1 .. Len(text) : text[j] = Expected(j)

\* Decryption gives the message back, although its calls are cut elsewhere than the ones
\* that encrypted; in place this holds for ECB, OFB and CTR, since muggle_*_cbc and
\* muggle_*_cfb* read the input again after they have written the output.
RoundTrip ==
  (in_place => mode \in {"ecb", "ofb", "ctr"})
    => back = SubSeq(message, 1, Len(back))
=============================================================================
