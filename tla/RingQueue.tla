----------------------------- MODULE RingQueue -----------------------------
(***************************************************************************)
(* A ring in use: any sequence of calls of src/flowpath/util.h on one      *)
(* ring, with the items and the batch sizes its callers pass.  The module  *)
(* shows that the ring is a bounded first-in first-out queue of Num - 1    *)
(* items (BoundedFifo).                                                    *)
(***************************************************************************)
EXTENDS Ring

CONSTANT MaxBatch   \* bound: the largest n a caller passes

ASSUME BatchAssumption == MaxBatch \in Nat \ {0}

VARIABLES
  r,      \* the ring
  ret     \* what the last call returned: [n, out]

vars == <<r, ret>>

Init == r = fp_ring_new /\ ret = [n |-> 0, out |-> <<>>]

(* The call made returns to its caller. *)
Call(result) ==
  /\ r' = result.r
  /\ ret' = [n |-> result.n, out |-> result.out]

PushOne(x)    == Call(fp_ring_push(r, x))
PushMany(x, n) == Call(fp_ring_push_n(r, x, n))
PopOne        == Call(fp_ring_pop(r))
PopMany(n)    == Call(fp_ring_pop_n(r, n))
TopOne        == Call(fp_ring_top(r))
TopMany(n)    == Call(fp_ring_top_n(r, n))
RemoveMany(n) == Call(fp_ring_remove_n(r, n))
Reset         == Call(fp_ring_init(r))

Next ==
  \/ \E x \in Items : PushOne(x)
  \/ \E n \in 0 .. MaxBatch : \E x \in [1 .. n -> Items] : PushMany(x, n)
  \/ PopOne
  \/ \E n \in 0 .. MaxBatch : PopMany(n)
  \/ TopOne
  \/ \E n \in 0 .. MaxBatch : TopMany(n)
  \/ \E n \in 0 .. MaxBatch : RemoveMany(n)
  \/ Reset

Spec == Init /\ [][Next]_vars

-----------------------------------------------------------------------------

(* The ring is a record of its type: both indices stay inside the array, so no *)
(* call reads or writes past ring[num - 1] (util.c:33-138).                    *)
TypeOK ==
  /\ r \in Rings
  /\ ret.n \in Nat

(* The slots from head up to tail hold pointers some caller stored, and what a *)
(* pop or a top hands out is one of them: never what malloc left in a slot     *)
(* (util.c:68-126, and fp_ring_new, which does not clear the array).           *)
StoredItemsOnly ==
  /\ \A i \in 1 .. fp_ring_count(r) : Contents(r)[i] \in Items
  /\ \A i \in DOMAIN ret.out : ret.out[i] \in Items

(* What the calls of the ring promise: they are those of a bounded queue of    *)
(* Num - 1 items, with the same results (util.c:33-166).                       *)
Fifo == INSTANCE BoundedFifo WITH
          Capacity <- Num - 1, len <- fp_ring_count(r), items <- Contents(r)

ImplementsFifo == Fifo!Spec
=============================================================================
