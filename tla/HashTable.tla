----------------------------- MODULE HashTable -----------------------------
(***************************************************************************)
(* muggle_hash_table_t (muggle/c/dsaa/hash_table.c): an array of heads,    *)
(* each the first node of a chain that is linked both ways.                *)
(***************************************************************************)
EXTENDS Integers

CONSTANTS
  Keys, Values,
  hash,          \* the user's hash function: a number for each key
  Nodes,         \* the memory for nodes, a set of positive integers
  table_size,
  MaxOps         \* bound on the calls

NULL == 0
\* &p_hash_table->nodes[idx]; negative, to tell the heads from the nodes.
Head(k) == -1 - (hash[k] % table_size)
Heads == -table_size .. -1

VARIABLES
  next, prev,    \* of the nodes and, the first, of the heads
  key, value,
  alloc, ops

vars == <<next, prev, key, value, alloc, ops>>

\* muggle_hash_table_init
Init ==
  /\ next = [n \in Heads \cup Nodes |-> NULL]
  /\ prev = [n \in Nodes |-> NULL]
  /\ key = [n \in Nodes |-> NULL] /\ value = [n \in Nodes |-> NULL]
  /\ alloc = {} /\ ops = 0

\* The nodes of a chain from n on, in a set.
Chain(n) ==
  LET rest[m \in Nodes \cup {NULL}] == IF m = NULL THEN {} ELSE {m} \cup rest[next[m]]
  IN  rest[n]

\* Mutant: the whole table is searched by comparing hash values.
FindByHash(k) ==
  LET found == {n \in Chain(next[Head(k)]) : hash[key[n]] = hash[k]} IN
  IF found = {} THEN NULL ELSE CHOOSE n \in found : TRUE

\* muggle_hash_table_find
Find(k) ==
  LET found == {n \in Chain(next[Head(k)]) : key[n] = k} IN
  IF found = {} THEN NULL ELSE CHOOSE n \in found : TRUE

\* Mutant: the old first node keeps its prev.
PutNoPrev(k, v) ==
  /\ ops < MaxOps /\ Find(k) = NULL
  /\ \E n \in Nodes \ alloc :
       /\ \A m \in Nodes \ alloc : n <= m
       /\ alloc' = alloc \cup {n}
       /\ key' = [key EXCEPT ![n] = k] /\ value' = [value EXCEPT ![n] = v]
       /\ next' = [next EXCEPT ![n] = next[Head(k)], ![Head(k)] = n]
       /\ prev' = [prev EXCEPT ![n] = Head(k)]
  /\ ops' = ops + 1

\* muggle_hash_table_put: the new node becomes the first.  With the key present, or
\* without memory, it returns NULL and has changed nothing.
Put(k, v) ==
  /\ ops < MaxOps /\ Find(k) = NULL
  /\ \E n \in Nodes \ alloc :
       /\ \A m \in Nodes \ alloc : n <= m
       /\ alloc' = alloc \cup {n}
       /\ key' = [key EXCEPT ![n] = k] /\ value' = [value EXCEPT ![n] = v]
       /\ next' = [next EXCEPT ![n] = next[Head(k)], ![Head(k)] = n]
       /\ prev' = [m \in Nodes |-> IF m = n THEN Head(k)
                                   ELSE IF m = next[Head(k)] THEN n ELSE prev[m]]
  /\ ops' = ops + 1

\* muggle_hash_table_remove of a node that find returned.
Remove(n) ==
  /\ ops < MaxOps /\ n \in alloc
  /\ key' = [key EXCEPT ![n] = NULL] /\ value' = [value EXCEPT ![n] = NULL]
  /\ next' = [next EXCEPT ![prev[n]] = next[n], ![n] = NULL]
  /\ prev' = [m \in Nodes |-> IF m = n THEN NULL
                              ELSE IF m = next[n] THEN prev[n] ELSE prev[m]]
  /\ alloc' = alloc \ {n}
  /\ ops' = ops + 1

\* muggle_hash_table_clear removes the nodes of every chain, the first one first.
Cleared ==
  LET cleared == UNION {Chain(next[h]) : h \in Heads} IN
  /\ key' = [n \in Nodes |-> IF n \in cleared THEN NULL ELSE key[n]]
  /\ value' = [n \in Nodes |-> IF n \in cleared THEN NULL ELSE value[n]]
  /\ next' = [n \in Heads \cup Nodes |-> IF n \in Heads \cup cleared THEN NULL ELSE next[n]]
  /\ prev' = [n \in Nodes |-> IF n \in cleared THEN NULL ELSE prev[n]]
  /\ alloc' = alloc \ cleared
Clear == ops < MaxOps /\ Cleared /\ ops' = ops + 1

\* muggle_hash_table_destroy clears, and frees the pool and the table: the last operation.
Destroy == ops < MaxOps /\ Cleared /\ ops' = MaxOps

Next ==
  \/ \E k \in Keys, v \in Values : Put(k, v)
  \/ \E n \in Nodes : Remove(n)
  \/ Clear \/ Destroy

Spec == Init /\ [][Next]_vars

-----------------------------------------------------------------------------
TypeOK ==
  /\ next \in [Heads \cup Nodes -> Nodes \cup {NULL}]
  /\ prev \in [Nodes -> Heads \cup Nodes \cup {NULL}]
  /\ key \in [Nodes -> Keys \cup {NULL}] /\ value \in [Nodes -> Values \cup {NULL}]
  /\ alloc \subseteq Nodes /\ ops \in 0 .. MaxOps

\* The chains are linked both ways, hold every allocated node in the chain its key
\* hashes to, and nothing that was freed: remove finds the neighbours of any node,
\* first, middle or last.
ChainsMatch ==
  /\ \A n \in Heads \cup alloc : next[n] # NULL => next[n] \in alloc /\ prev[next[n]] = n
  /\ \A n \in alloc : n \in Chain(next[Head(key[n])])

Contents ==
  [k \in {j \in Keys : Find(j) # NULL} |-> value[Find(k)]]
Dict == INSTANCE Dictionary WITH Overwrites <- FALSE, map <- Contents

\* put, remove and clear change what find finds as a dictionary does, with keys whose
\* hashes are equal and keys that only share a chain.
ImplementsDictionary == Dict!Spec
=============================================================================
