------------------------------ MODULE MultiMap ------------------------------
(***************************************************************************)
(* What the data planes rely on in a table of src/flowpath/hash.h: it maps *)
(* a key to the values inserted under it and not removed since.  A key may *)
(* be inserted more than once; which of its values a call then meets is    *)
(* left open.                                                              *)
(***************************************************************************)
EXTENDS Naturals

CONSTANTS
  Keys,      \* the keys that are inserted
  Foreign,   \* other keys the table is asked for
  Values,
  Null

VARIABLES
  count,   \* key -> value -> how many entries hold the two
  found    \* what the last call returned: an entry, or Null

vars == <<count, found>>

Added(c, k, v) == [c EXCEPT ![k][v] = @ + 1]
Taken(c, k, v) == [c EXCEPT ![k][v] = @ - 1]

Under(k) == IF k \in Keys THEN {v \in Values : count[k][v] > 0} ELSE {}

Init == count = [k \in Keys |-> [v \in Values |-> 0]] /\ found = Null

Insert(k, v) ==
  /\ count' = Added(count, k, v)
  /\ found' = [key |-> k, value |-> v]

Find(k) ==
  /\ IF Under(k) = {} THEN found' = Null
     ELSE \E v \in Under(k) : found' = [key |-> k, value |-> v]
  /\ UNCHANGED count

Remove(k) ==
  /\ IF Under(k) = {} THEN UNCHANGED count
     ELSE \E v \in Under(k) : count' = Taken(count, k, v)
  /\ found' = Null

(* One of the values of k becomes w. *)
Update(k, w) ==
  /\ IF Under(k) = {} THEN UNCHANGED count
     ELSE \E v \in Under(k) : count' = Added(Taken(count, k, v), k, w)
  /\ found' = Null

Clear == count' = [k \in Keys |-> [v \in Values |-> 0]] /\ found' = Null

Next ==
  \/ \E k \in Keys, v \in Values : Insert(k, v) \/ Update(k, v)
  \/ \E k \in Keys \cup Foreign : Find(k) \/ Remove(k)
  \/ Clear

Spec == Init /\ [][Next]_vars
=============================================================================
