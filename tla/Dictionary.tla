----------------------------- MODULE Dictionary -----------------------------
(***************************************************************************)
(* What a dictionary promises: a partial function from keys to values that *)
(* a call changes at one key or, to clear it, at all.                      *)
(***************************************************************************)
CONSTANTS
  Keys, Values,
  Overwrites   \* does putting a present key replace its value, or fail?

VARIABLE map

Init == DOMAIN map \subseteq Keys

\* k is put, with some value.
Put(k) ==
  /\ Overwrites \/ k \notin DOMAIN map
  /\ DOMAIN map' = DOMAIN map \cup {k}
  /\ map'[k] \in Values
  /\ \A j \in DOMAIN map \ {k} : map'[j] = map[j]

Remove(k) ==
  /\ k \in DOMAIN map
  /\ DOMAIN map' = DOMAIN map \ {k}
  /\ \A j \in DOMAIN map' : map'[j] = map[j]

Clear == DOMAIN map' = {}

Next == (\E k \in Keys : Put(k) \/ Remove(k)) \/ Clear

Spec == Init /\ [][Next]_map
=============================================================================
