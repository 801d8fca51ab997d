---------------------------- MODULE MCSequential ----------------------------
(***************************************************************************)
(* The parts without threads for TLC, side by side: the containers and     *)
(* sorts of muggle/c/dsaa, the block cipher modes and AES of               *)
(* muggle/c/crypt, and the string and path functions.  In each behaviour   *)
(* 'part' names the one that is used, and the others stay as they were     *)
(* initialised.                                                            *)
(***************************************************************************)
EXTENDS Integers, Sequences, TLC

CONSTANTS
  StartSizes,   \* the numbers of nodes of the AVL trees to start with
  char_a, char_b, char_nul,    \* the characters of the keys of the trie
  null                         \* a null pointer, and no answer

VARIABLES
  part, ops,
  tree, key, value, alloc, pc, node, side, arg,
  h_next, h_prev, h_key, h_value, h_alloc,
  children, data, cnt, t_freed,
  heap, heap_size, heap_capacity, taken,
  kind, next, prev, l_alloc, l_size, l_freed, list,
  a_kind, nodes, size, capacity, freed, a_list,
  ptr, done,
  cipher, mode, optimization, in_place, c_key, iv, message, enc, dec, text, back,
  query, answer      \* of the string and path functions and of AES

avlVars == <<tree, key, value, alloc, pc, node, side, arg>>
hashVars == <<h_next, h_prev, h_key, h_value, h_alloc>>
trieVars == <<children, data, cnt, t_freed>>
heapVars == <<heap, heap_size, heap_capacity, taken>>
listVars == <<kind, next, prev, l_alloc, l_size, l_freed, list>>
arrayVars == <<a_kind, nodes, size, capacity, freed, a_list>>
sortVars == <<ptr, done>>
cipherVars == <<cipher, mode, optimization, in_place, c_key, iv, message, enc, dec, text, back>>
callVars == <<query, answer>>

-----------------------------------------------------------------------------
MaxNode == CHOOSE n \in StartSizes : \A m \in StartSizes : m <= n
AvlNodes == 1 .. MaxNode + 1
AvlKeys == 1 .. 2 * MaxNode + 1

RECURSIVE Trees(_, _)
\* The AVL trees of the nodes lo .. hi, in that order.
Trees(lo, hi) ==
  IF lo > hi THEN {[root |-> 0, depth |-> 0, edges |-> {}, balance |-> {}]}
  ELSE UNION {
    {[root |-> m, depth |-> 1 + (IF t[1].depth > t[2].depth THEN t[1] ELSE t[2]).depth,
      edges |-> t[1].edges \cup t[2].edges \cup {<<m, -1, t[1].root>>, <<m, 1, t[2].root>>},
      balance |-> t[1].balance \cup t[2].balance \cup {<<m, t[2].depth - t[1].depth>>}] :
        t \in {u \in Trees(lo, m - 1) \X Trees(m + 1, hi) :
                 u[2].depth - u[1].depth \in -1 .. 1}} : m \in lo .. hi}

\* Such a tree of n nodes as pointers; a key fits between any two keys.  Calls of
\* insert build it, level by level.
Start(t, n) ==
  [root |-> t.root,
   child |-> [m \in AvlNodes |-> [s \in {-1, 1} |->
     IF m <= n THEN (CHOOSE e \in t.edges : e[1] = m /\ e[2] = s)[3] ELSE 0]],
   parent |-> [m \in AvlNodes |-> IF \E e \in t.edges : e[3] = m
                                  THEN (CHOOSE e \in t.edges : e[3] = m)[1] ELSE 0],
   balance |-> [m \in AvlNodes |->
     IF m <= n THEN (CHOOSE e \in t.balance : e[1] = m)[2] ELSE 0],
   key |-> [m \in AvlNodes |-> IF m <= n THEN 2 * m ELSE 0]]

AvlStarts == UNION {{Start(t, n) : t \in Trees(1, n)} : n \in StartSizes}

Avl == INSTANCE AvlTree WITH
  Keys <- AvlKeys, Nodes <- AvlNodes, Starts <- AvlStarts, MaxOps <- 1

\* Three keys in one chain, two of them with the same hash.
Hash == INSTANCE HashTable WITH
  Keys <- 1 .. 4, Values <- {1, 2}, hash <- <<0, 8, 8, 3>>, Nodes <- 1 .. 4,
  table_size <- 8, MaxOps <- 6,
  next <- h_next, prev <- h_prev, key <- h_key, value <- h_value, alloc <- h_alloc

Prefixes == INSTANCE Trie WITH
  Chars <- {char_a, char_b}, NUL <- char_nul,
  Keys <- {<<>>, <<char_a>>, <<char_b>>, <<char_a, char_b>>, <<char_a, char_b, char_a>>},
  Values <- {1, 2}, Nodes <- 1 .. 5, MaxOps <- 4, freed <- t_freed

Min == INSTANCE Heap WITH
  Keys <- 1 .. 3, InitCapacity <- 1, MaxOps <- 7,
  nodes <- heap, size <- heap_size, capacity <- heap_capacity

Linked == INSTANCE LinkedList WITH
  Nodes <- 1 .. 4, MaxOps <- 7, alloc <- l_alloc, size <- l_size, freed <- l_freed

Array == INSTANCE ArrayList WITH
  InitCapacity <- 1, MaxSize <- 4, MaxOps <- 6, kind <- a_kind, list <- a_list

Sorts == INSTANCE Sort WITH
  Keys <- 1 .. 3, Counts <- {1, 2, 4, 7}, QUICK_SORT_CUTOFF <- 3

\* Blocks of four bits; keys of two rounds, three different ones or three times the same;
\* nonces that wrap in the first word and in both.
Halves == [1 .. 2 -> {0, 1}]
F == [h \in Halves |-> <<h[1] * h[2], 1 - h[1]>>]
G == [h \in Halves |-> <<h[2], h[1] * (1 - h[2])>>]
H == [h \in Halves |-> <<1 - h[1] * h[2], h[1]>>]

Ciphers == INSTANCE BlockCipher WITH
  BLOCK_SIZE <- 4, ip <- <<2, 3, 4, 1>>, fp <- <<4, 1, 2, 3>>,
  Keys <- {<<<<F, G>>, <<G, H>>, <<H, F>>>>, <<<<F, G>>, <<F, G>>, <<F, G>>>>},
  Ivs <- {<<0, 0, 0, 0>>, <<1, 1, 0, 1>>, <<1, 1, 1, 1>>},
  Messages <- {<<0, 1, 1, 0, 1, 0, 0, 1, 1>>}, key <- c_key

\* The sequences of up to n of these.
UpTo(n, S) == UNION {[1 .. k -> S] : k \in 0 .. n}

\* An int of 3 bits, and a long and a long long of 4; values beyond all of them.
TextFns == INSTANCE Text WITH
  NULL <- null,
  Texts <- {null} \cup UpTo(4, {"a", "b"}) \cup UpTo(3, {"a", "b", " "}),
  Subs <- {null} \cup UpTo(2, {"a", "b"}),
  Bounds <- 0 .. 5, Values <- -20 .. 20,
  Rests <- {<<>>, <<" ">>, <<" ", " ">>, <<" ", "a">>, <<"a">>},
  INT_MAX <- 3, LONG_MAX <- 7, LLONG_MAX <- 7,
  Paths <- UpTo(4, {"/", ".", "a", "\\", ":"}) \cup UpTo(5, {"/", ".", "a"}),
  Heads <- UpTo(2, {"/", ".", "a", "\\"}), Tails <- UpTo(3, {"/", ".", "a", "\\"}),
  Sizes <- 0 .. 8, CurDir <- <<"/", "w">>, MUGGLE_MAX_PATH <- 8

\* Words that hold every byte in some place, next to three other bytes; keys of the three
\* sizes and of none of them; and the example of unittest_crypt_aes.cpp:160.
Bytes(n, first, step) == [i \in 1 .. n |-> (first + step * i) % 256]

AesFns == INSTANCE Aes WITH
  Words <- {Bytes(8, 8 * k, step) : k \in 0 .. 31, step \in {1, 37, 128}},
  Keys <- {Bytes(16, 1, 7), Bytes(24, 2, 11), Bytes(32, 3, 13), Bytes(32, 255, 0),
           Bytes(8, 0, 1)},
  Blocks <- {Bytes(16, 0, 0), Bytes(16, 5, 17)},
  Examples <- {[
    key |-> <<\h2b, \h7e, \h15, \h16, \h28, \hae, \hd2, \ha6,
              \hab, \hf7, \h15, \h88, \h09, \hcf, \h4f, \h3c>>,
    block |-> <<\h32, \h43, \hf6, \ha8, \h88, \h5a, \h30, \h8d,
                \h31, \h31, \h98, \ha2, \he0, \h37, \h07, \h34>>,
    encrypted |-> <<\h39, \h25, \h84, \h1d, \h02, \hdc, \h09, \hfb,
                    \hdc, \h11, \h85, \h97, \h19, \h6a, \h0b, \h32>>]}

Init ==
  /\ part \in {"avl", "hash", "trie", "heap", "linked", "array", "sort", "cipher",
              "text", "aes"}
  /\ ops = 0
  /\ IF part = "sort" THEN Sorts!Init
     ELSE ptr = [i \in {0} |-> [key |-> 1, id |-> 0]] /\ done = "none"
  /\ Linked!Init /\ (part # "linked" => kind = "list")
  /\ Array!Init /\ (part # "array" => a_kind = "list")
  /\ Hash!Init /\ Prefixes!Init /\ Min!Init
  /\ IF part = "cipher" THEN Ciphers!Init
     ELSE /\ cipher = "aes" /\ mode = "ecb" /\ optimization = TRUE /\ in_place = FALSE
          /\ c_key = <<>> /\ iv = <<>> /\ message = <<>> /\ enc = <<>> /\ dec = <<>>
          /\ text = <<>> /\ back = <<>>
  /\ Avl!Init /\ (part # "avl" => alloc = {})
  /\ CASE part = "text" -> TextFns!Init
       [] part = "aes" -> AesFns!Init
       [] OTHER -> query = null /\ answer = null

Next ==
  /\ UNCHANGED part
  /\ \/ /\ part = "avl" /\ Avl!Next
        /\ UNCHANGED <<hashVars, trieVars, heapVars, listVars, arrayVars, sortVars,
                       cipherVars, callVars>>
     \/ /\ part = "hash" /\ Hash!Next
        /\ UNCHANGED <<avlVars, trieVars, heapVars, listVars, arrayVars, sortVars,
                       cipherVars, callVars>>
     \/ /\ part = "trie" /\ Prefixes!Next
        /\ UNCHANGED <<avlVars, hashVars, heapVars, listVars, arrayVars, sortVars,
                       cipherVars, callVars>>
     \/ /\ part = "heap" /\ Min!Next
        /\ UNCHANGED <<avlVars, hashVars, trieVars, listVars, arrayVars, sortVars,
                       cipherVars, callVars>>
     \/ /\ part = "linked" /\ Linked!Next
        /\ UNCHANGED <<avlVars, hashVars, trieVars, heapVars, arrayVars, sortVars,
                       cipherVars, callVars>>
     \/ /\ part = "array" /\ Array!Next
        /\ UNCHANGED <<avlVars, hashVars, trieVars, heapVars, listVars, sortVars,
                       cipherVars, callVars>>
     \/ /\ part = "sort" /\ Sorts!Next
        /\ UNCHANGED <<ops, avlVars, hashVars, trieVars, heapVars, listVars, arrayVars,
                       cipherVars, callVars>>
     \/ /\ part = "cipher" /\ Ciphers!Next
        /\ UNCHANGED <<ops, avlVars, hashVars, trieVars, heapVars, listVars, arrayVars,
                       sortVars, callVars>>
     \/ /\ \/ part = "text" /\ TextFns!Next
           \/ part = "aes" /\ AesFns!Next
        /\ UNCHANGED <<ops, avlVars, hashVars, trieVars, heapVars, listVars, arrayVars,
                       sortVars, cipherVars>>

Spec == Init /\ [][Next]_<<part, ops, avlVars, hashVars, trieVars, heapVars, listVars,
                           arrayVars, sortVars, cipherVars, callVars>>

-----------------------------------------------------------------------------
\* The pointers, indices and counters of every container.
TypesOK ==
  /\ part = "avl" => Avl!TypeOK
  /\ part = "hash" => Hash!TypeOK
  /\ part = "trie" => Prefixes!TypeOK
  /\ part = "heap" => Min!TypeOK
  /\ part = "linked" => Linked!TypeOK
  /\ part = "array" => Array!TypeOK
  /\ part = "sort" => Sorts!TypeOK
  /\ part = "cipher" => Ciphers!TypeOK

\* AVL tree: every node hangs in the tree once, the balance factors are the
\* differences of the heights and at most 1, find finds every key, and what the
\* rotations assert of the nodes they turn is so.
AvlIsSound ==
  part = "avl" => Avl!LinksMatch /\ Avl!Balanced /\ Avl!FindsAll /\ Avl!AssertsHold

\* Hash table, trie, heap, lists: chains and lists are linked both ways and hold
\* every node once, a trie node is the child of one node, no key of the heap is
\* smaller than its parent's, the array holds what the calls ask for, find returns the
\* first that is equal, and nothing is freed twice or while it is held; the fields of
\* all have their types.
StructuresMatch ==
  /\ TypesOK
  /\ part = "hash" => Hash!ChainsMatch
  /\ part = "trie" => Prefixes!NodesApart
  /\ part = "heap" => Min!HeapOrder
  /\ part = "linked" => Linked!ListMatches /\ Linked!FindsFirst
  /\ part = "array" => Array!ArrayMatches /\ Array!FindsFirst /\ Array!FreedOnce


\* The five sorts order the elements given; insertion sort and merge sort keep
\* elements with equal keys in their order.
SortsRight == part = "sort" => Sorts!IsSorted /\ Sorts!Stable

\* Block ciphers: the encrypted text is that of the mode and decryption gives the
\* message back, however the message is cut into calls; AES: no byte of a word changes
\* another, the S-boxes are those of FIPS 197, and the build with openssl_aes.c and the
\* one with internal_aes.c make the same of every key and block.
CiphersRight ==
  /\ part = "cipher" => Ciphers!ModeIsStandard /\ Ciphers!RoundTrip
  /\ part = "aes" => AesFns!LanesRight /\ AesFns!BuildsAgree

=============================================================================
