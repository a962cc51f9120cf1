---------------------------- MODULE BoundedFifo ----------------------------
(***************************************************************************)
(* What a user of struct fp_ring (src/flowpath/util.h) relies on: a first- *)
(* in first-out queue that holds at most Capacity items.  A push accepts   *)
(* the longest prefix of the items offered that still fits and reports how *)
(* many it took; a pop or a top hands out the oldest items, in order.      *)
(*                                                                         *)
(* A queue is kept as its length and its contents from the oldest item on, *)
(* and ret is what the last call reported: how many items it moved and, in *)
(* ret.out, the items it handed to its caller.                             *)
(***************************************************************************)
EXTENDS Integers

CONSTANTS
  Capacity,   \* the largest number of items the queue holds
  Items,      \* what is queued
  MaxBatch    \* the most items one call moves

VARIABLES
  len,        \* number of items queued
  items,      \* the items, items[1] the oldest
  ret         \* [n, out]: what the last call returned

vars == <<len, items, ret>>

NoItems == <<>>

AtMost(n, k) == IF n <= k THEN n ELSE k

(* The first k items queued. *)
Front(k) == [i \in 1 .. k |-> items[i]]

Init ==
  /\ len = 0
  /\ items = NoItems
  /\ ret = [n |-> 0, out |-> NoItems]

(* Offer n items xs. *)
Push(xs, n) ==
  LET k == AtMost(n, Capacity - len) IN
  /\ len' = len + k
  /\ items' = [i \in 1 .. len + k |-> IF i <= len THEN items[i] ELSE xs[i - len]]
  /\ ret' = [n |-> k, out |-> NoItems]

(* Take up to n items from the front; the caller sees them when shown. *)
Take(n, shown) ==
  LET k == AtMost(n, len) IN
  /\ len' = len - k
  /\ items' = [i \in 1 .. len - k |-> items[i + k]]
  /\ ret' = [n |-> k, out |-> IF shown THEN Front(k) ELSE NoItems]

(* Look at up to n items without taking them. *)
Peek(n) ==
  LET k == AtMost(n, len) IN
  /\ ret' = [n |-> k, out |-> Front(k)]
  /\ UNCHANGED <<len, items>>

Clear ==
  /\ len' = 0
  /\ items' = NoItems
  /\ ret' = [n |-> 0, out |-> NoItems]

Next ==
  \/ \E n \in 0 .. MaxBatch : \E xs \in [1 .. n -> Items] : Push(xs, n)
  \/ \E n \in 0 .. MaxBatch, shown \in BOOLEAN : Take(n, shown)
  \/ \E n \in 0 .. MaxBatch : Peek(n)
  \/ Clear

Spec == Init /\ [][Next]_vars
=============================================================================
