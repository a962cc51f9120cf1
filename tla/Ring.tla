-------------------------------- MODULE Ring --------------------------------
(***************************************************************************)
(* The circular buffer of src/flowpath/util.c.  A ring is a record: head   *)
(* and tail are indices, ring is the flexible array member, and Num is     *)
(* r->num, which fp_ring_new sets and nothing changes.  One slot always    *)
(* stays free, so that head = tail means empty.                            *)
(*                                                                         *)
(* Every function is an operator from a ring to a record [r, n, out]: the  *)
(* ring it leaves, the number of items it reports, and the items it hands  *)
(* to the caller.  A function that returns a pointer reports n = 0 for     *)
(* NULL and n = 1 otherwise.  The loops that step an index and wrap it at  *)
(* num are given by their effect: slot Slot(i, k) is the k-th one visited. *)
(***************************************************************************)
EXTENDS Integers

CONSTANTS
  Num,        \* r->num, the number of slots
  Items,      \* the pointers callers queue
  Junk        \* what malloc leaves in a slot nothing was stored in

ASSUME RingAssumption == Num \in Nat \ {0} /\ Junk \notin Items

Index == 0 .. Num - 1

Rings == [head : Index, tail : Index, ring : [Index -> Items \cup {Junk}]]

Min2(a, b) == IF a <= b THEN a ELSE b

(* Bug: wrapped one step too late. *)
Slot_TooLate(i, k) == IF i + k > Num THEN i + k - Num ELSE i + k

(* The index k steps after i, for k at most Num: i++, wrapped at num. *)
Slot(i, k) == IF i + k >= Num THEN i + k - Num ELSE i + k

(* How many steps after i the index j is. *)
Steps(i, j) == IF j < i THEN j - i + Num ELSE j - i

RingOf(head, tail, ring) == [head |-> head, tail |-> tail, ring |-> ring]

Returns(r, n, out) == [r |-> r, n |-> n, out |-> out]

fp_ring_new == RingOf(0, 0, [i \in Index |-> Junk])

fp_ring_init(r) == Returns(RingOf(0, 0, r.ring), 0, <<>>)

fp_ring_count(r) == Steps(r.head, r.tail)

fp_ring_free(r) == Num - fp_ring_count(r)

fp_ring_push(r, x) ==
  IF fp_ring_count(r) < Num - 1
  THEN Returns(RingOf(r.head, Slot(r.tail, 1), [r.ring EXCEPT ![r.tail] = x]), 1, <<>>)
  ELSE Returns(r, 0, <<>>)

(* Bug: the slot that stays free is filled too. *)
fp_ring_push_n_Overfull(r, x, n) ==
  LET items == Min2(n, fp_ring_free(r))
      at(i) == Steps(r.tail, i) + 1
      ring == [i \in Index |-> IF at(i) <= items THEN x[at(i)] ELSE r.ring[i]]
  IN  Returns(RingOf(r.head, Slot(r.tail, items), ring), items, <<>>)

fp_ring_push_n(r, x, n) ==
  LET items == Min2(n, fp_ring_free(r) - 1)
      at(i) == Steps(r.tail, i) + 1
      ring == [i \in Index |-> IF at(i) <= items THEN x[at(i)] ELSE r.ring[i]]
  IN  Returns(RingOf(r.head, Slot(r.tail, items), ring), items, <<>>)

(* The first k items from the head on, as the loops of pop_n and top_n read them. *)
Oldest(r, k) == [i \in 1 .. k |-> r.ring[Slot(r.head, i - 1)]]

fp_ring_pop(r) ==
  IF r.head # r.tail
  THEN Returns(RingOf(Slot(r.head, 1), r.tail, r.ring), 1, <<r.ring[r.head]>>)
  ELSE Returns(r, 0, <<>>)

fp_ring_pop_n(r, n) ==
  LET items == Min2(n, fp_ring_count(r))
  IN  Returns(RingOf(Slot(r.head, items), r.tail, r.ring), items, Oldest(r, items))

(* Bug: an empty ring is not told apart. *)
fp_ring_top_Unchecked(r) == Returns(r, 1, <<r.ring[r.head]>>)

fp_ring_top(r) ==
  IF fp_ring_count(r) > 0 THEN Returns(r, 1, <<r.ring[r.head]>>) ELSE Returns(r, 0, <<>>)

fp_ring_top_n(r, n) ==
  LET items == Min2(n, fp_ring_count(r)) IN Returns(r, items, Oldest(r, items))

fp_ring_remove_n(r, n) ==
  LET items == Min2(n, fp_ring_count(r))
  IN  Returns(RingOf(Slot(r.head, items), r.tail, r.ring), items, <<>>)

(* What the ring holds, oldest first. *)
Contents(r) == Oldest(r, fp_ring_count(r))
=============================================================================
