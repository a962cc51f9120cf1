----------------------------- MODULE RingProofs -----------------------------
(***************************************************************************)
(* Proofs about the ring of src/flowpath/util.c, for every number of slots *)
(* and every set of items: its indices stay in bounds, the slots a pop     *)
(* reads hold stored items, and it implements a bounded FIFO queue.        *)
(***************************************************************************)
EXTENDS RingQueue, RingLemmas

-----------------------------------------------------------------------------

(* Every call maps to the same call of the bounded queue.                       *)
LEMMA CallImplements ==
  ASSUME TypeOK, Next
  PROVE  TypeOK' /\ Fifo!Next
<1> DEFINE c == fp_ring_count(r)
<1>1. r \in Rings /\ c \in 0 .. Num - 1
  BY CountBounds DEF TypeOK
<1>2. fp_ring_count(r)' = fp_ring_count(r') /\ Contents(r)' = Contents(r')
  BY DEF fp_ring_count, Contents, Oldest, Steps, Slot
<1>3. ASSUME NEW n \in 0 .. MaxBatch, NEW x \in [1 .. n -> Items], PushMany(x, n)
      PROVE  TypeOK' /\ Fifo!Push(x, n)
  <2> DEFINE R == fp_ring_push_n(r, x, n)
             k == Min2(n, Num - 1 - c)
  <2>1. n \in Nat
    BY BatchAssumption
  <2>2. r' = R.r /\ ret' = [n |-> R.n, out |-> R.out]
    BY <1>3 DEF PushMany, Call
  <2>3. /\ R.r \in Rings
        /\ R.n = k
        /\ R.out = <<>>
        /\ fp_ring_count(R.r) = c + k
        /\ Contents(R.r) = [i \in 1 .. c + k |-> IF i <= c THEN Contents(r)[i] ELSE x[i - c]]
    BY <1>1, <2>1, PushMany_Effect
  <2>4. k \in Nat
    BY <1>1, <2>1, RingAssumption DEF Min2
  <2>5. k = Fifo!AtMost(n, Num - 1 - c)
    BY DEF Min2, Fifo!AtMost
  <2> HIDE DEF R, k
  <2>6. TypeOK'
    BY <2>2, <2>3, <2>4 DEF TypeOK
  <2> HIDE DEF c
  <2>7. Fifo!Push(x, n)
    BY <1>2, <2>2, <2>3, <2>5 DEF c, Fifo!Push, Fifo!NoItems
  <2> QED
    BY <2>6, <2>7
<1>4. ASSUME NEW n \in 0 .. MaxBatch, NEW shown \in BOOLEAN,
             r' = fp_ring_pop_n(r, n).r,
             ret' = [n |-> fp_ring_pop_n(r, n).n,
                     out |-> IF shown THEN fp_ring_pop_n(r, n).out ELSE <<>>]
      PROVE  TypeOK' /\ Fifo!Take(n, shown)
  <2> DEFINE R == fp_ring_pop_n(r, n)
             k == Min2(n, c)
  <2>1. n \in Nat
    BY BatchAssumption
  <2>3. /\ R.r \in Rings
        /\ R.n = k
        /\ R.out = [i \in 1 .. k |-> Contents(r)[i]]
        /\ fp_ring_count(R.r) = c - k
        /\ Contents(R.r) = [i \in 1 .. c - k |-> Contents(r)[i + k]]
    BY <1>1, <2>1, PopMany_Effect
  <2>4. k \in Nat
    BY <1>1, <2>1, RingAssumption DEF Min2
  <2>5. k = Fifo!AtMost(n, c)
    BY DEF Min2, Fifo!AtMost
  <2>2. r' = R.r /\ ret' = [n |-> R.n, out |-> IF shown THEN R.out ELSE <<>>]
    BY <1>4
  <2> HIDE DEF R, k
  <2>6. TypeOK'
    BY <2>2, <2>3, <2>4 DEF TypeOK
  <2> HIDE DEF c
  <2>7. Fifo!Take(n, shown)
    BY <1>2, <2>2, <2>3, <2>5 DEF c, Fifo!Take, Fifo!Front, Fifo!NoItems
  <2> QED
    BY <2>6, <2>7
<1>5. ASSUME NEW n \in 0 .. MaxBatch, Call(fp_ring_top_n(r, n))
      PROVE  TypeOK' /\ Fifo!Peek(n)
  <2> DEFINE R == fp_ring_pop_n(r, n)
             k == Min2(n, c)
  <2>1. n \in Nat
    BY BatchAssumption
  <2>2. r' = r /\ ret' = [n |-> R.n, out |-> R.out]
    BY <1>1, <1>5, <2>1, RemoveMany_Effect DEF Call
  <2>3. R.n = k /\ R.out = [i \in 1 .. k |-> Contents(r)[i]]
    BY <1>1, <2>1, PopMany_Effect
  <2>4. k \in Nat
    BY <1>1, <2>1, RingAssumption DEF Min2
  <2>5. k = Fifo!AtMost(n, c)
    BY DEF Min2, Fifo!AtMost
  <2> HIDE DEF R, k
  <2>6. TypeOK'
    BY <1>1, <2>2, <2>3, <2>4 DEF TypeOK
  <2> HIDE DEF c
  <2>7. Fifo!Peek(n)
    BY <1>2, <2>2, <2>3, <2>5 DEF c, Fifo!Peek, Fifo!Front
  <2> QED
    BY <2>6, <2>7
<1>6. ASSUME Reset
      PROVE  TypeOK' /\ Fifo!Clear
  <2>1. r' = RingOf(0, 0, r.ring) /\ ret' = [n |-> 0, out |-> <<>>]
    BY <1>6 DEF Reset, Call, fp_ring_init, Returns
  <2>2. r.ring \in [Index -> Items \cup {Junk}]
    BY <1>1 DEF Rings
  <2>3. r' \in Rings /\ fp_ring_count(r') = 0 /\ Contents(r') = <<>>
    BY <2>1, <2>2, EmptyRing
  <2> QED
    BY <1>2, <2>1, <2>3 DEF TypeOK, Fifo!Clear, Fifo!NoItems
<1>7. 1 \in 0 .. MaxBatch
  BY BatchAssumption
<1>8. ASSUME NEW n \in 0 .. MaxBatch, PopMany(n) PROVE TypeOK' /\ Fifo!Take(n, TRUE)
  <2>1. n \in Nat
    BY BatchAssumption
  <2>2. /\ r' = fp_ring_pop_n(r, n).r
        /\ ret' = [n |-> fp_ring_pop_n(r, n).n,
                   out |-> IF TRUE THEN fp_ring_pop_n(r, n).out ELSE <<>>]
    BY <1>8 DEF PopMany, Call
  <2> QED
    BY <2>2, <1>4
<1>9. ASSUME NEW n \in 0 .. MaxBatch, RemoveMany(n) PROVE TypeOK' /\ Fifo!Take(n, FALSE)
  <2>1. n \in Nat
    BY BatchAssumption
  <2>2. /\ r' = fp_ring_pop_n(r, n).r
        /\ ret' = [n |-> fp_ring_pop_n(r, n).n,
                   out |-> IF FALSE THEN fp_ring_pop_n(r, n).out ELSE <<>>]
    BY <1>1, <1>9, <2>1, RemoveMany_Effect DEF RemoveMany, Call
  <2> QED
    BY <2>2, <1>4
<1>10. CASE \E x \in Items : PushOne(x)
  <2>1. PICK x \in Items : PushOne(x)
    BY <1>10
  <2>2. PushMany([i \in 1 .. 1 |-> x], 1) /\ [i \in 1 .. 1 |-> x] \in [1 .. 1 -> Items]
    BY <1>1, <2>1, SinglesAreBatches DEF PushOne, PushMany
  <2> QED
    BY <1>3, <1>7, <2>2 DEF Fifo!Next
<1>11. CASE \E n \in 0 .. MaxBatch : \E x \in [1 .. n -> Items] : PushMany(x, n)
  BY <1>3, <1>11 DEF Fifo!Next
<1>12. CASE PopOne
  <2>1. PopMany(1)
    BY <1>1, <1>12, SinglesAreBatches DEF PopOne, PopMany
  <2> QED
    BY <1>7, <1>8, <2>1 DEF Fifo!Next
<1>13. CASE \E n \in 0 .. MaxBatch : PopMany(n)
  BY <1>8, <1>13 DEF Fifo!Next
<1>14. CASE TopOne
  <2>1. Call(fp_ring_top_n(r, 1))
    BY <1>1, <1>14, SinglesAreBatches DEF TopOne
  <2> QED
    BY <1>5, <1>7, <2>1 DEF Fifo!Next
<1>15. CASE \E n \in 0 .. MaxBatch : TopMany(n)
  BY <1>5, <1>15 DEF TopMany, Fifo!Next
<1>16. CASE \E n \in 0 .. MaxBatch : RemoveMany(n)
  BY <1>9, <1>16 DEF Fifo!Next
<1>17. CASE Reset
  BY <1>6, <1>17 DEF Fifo!Next
<1> QED
  BY <1>10, <1>11, <1>12, <1>13, <1>14, <1>15, <1>16, <1>17 DEF Next

(* A step of the bounded queue queues and hands out only items pushed into it.  *)
LEMMA FifoStored ==
  ASSUME TypeOK, StoredItemsOnly, Fifo!Next
  PROVE  StoredItemsOnly'
<1> DEFINE c == fp_ring_count(r)
           I == Contents(r)
           Goal == /\ \A i \in 1 .. fp_ring_count(r)' : Contents(r)'[i] \in Items
                   /\ \A i \in DOMAIN ret'.out : ret'.out[i] \in Items
<1>1. c \in Nat /\ \A i \in 1 .. c : I[i] \in Items
  BY CountBounds, RingAssumption DEF TypeOK, StoredItemsOnly
<1>2. Goal => StoredItemsOnly'
  BY DEF StoredItemsOnly
<1> HIDE DEF c, I
<1>3. ASSUME NEW n \in 0 .. MaxBatch, NEW xs \in [1 .. n -> Items], Fifo!Push(xs, n)
      PROVE  Goal
  <2> DEFINE k == Fifo!AtMost(n, Num - 1 - c)
  <2>1. k \in Int /\ k <= n /\ n \in Nat
    BY <1>1, RingAssumption, BatchAssumption DEF Fifo!AtMost
  <2>2. /\ fp_ring_count(r)' = c + k
        /\ Contents(r)' = [i \in 1 .. c + k |-> IF i <= c THEN I[i] ELSE xs[i - c]]
        /\ ret' = [n |-> k, out |-> <<>>]
    BY <1>3 DEF Fifo!Push, Fifo!NoItems, c, I
  <2> HIDE DEF k
  <2>3. ASSUME NEW i \in 1 .. c + k, ~(i <= c) PROVE xs[i - c] \in Items
    BY <1>1, <2>1, <2>3
  <2> QED
    BY <1>1, <2>1, <2>2, <2>3
<1>4. ASSUME NEW n \in 0 .. MaxBatch, NEW shown \in BOOLEAN, Fifo!Take(n, shown)
      PROVE  Goal
  <2> DEFINE k == Fifo!AtMost(n, c)
  <2>1. k \in 0 .. c
    BY <1>1, BatchAssumption DEF Fifo!AtMost
  <2>2. /\ fp_ring_count(r)' = c - k
        /\ Contents(r)' = [i \in 1 .. c - k |-> I[i + k]]
        /\ ret' = [n |-> k, out |-> IF shown THEN [i \in 1 .. k |-> I[i]] ELSE <<>>]
    BY <1>4 DEF Fifo!Take, Fifo!Front, Fifo!NoItems, c, I
  <2> HIDE DEF k
  <2>3. ASSUME NEW i \in 1 .. c - k PROVE I[i + k] \in Items
    BY <1>1, <2>1
  <2>4. \A i \in DOMAIN ret'.out : ret'.out[i] \in Items
    BY <1>1, <2>1, <2>2
  <2> QED
    BY <2>2, <2>3, <2>4
<1>5. ASSUME NEW n \in 0 .. MaxBatch, Fifo!Peek(n)
      PROVE  Goal
  <2> DEFINE k == Fifo!AtMost(n, c)
  <2>1. k \in 0 .. c
    BY <1>1, BatchAssumption DEF Fifo!AtMost
  <2>2. /\ fp_ring_count(r)' = c
        /\ Contents(r)' = I
        /\ ret' = [n |-> k, out |-> [i \in 1 .. k |-> I[i]]]
    BY <1>5 DEF Fifo!Peek, Fifo!Front, c, I
  <2> HIDE DEF k
  <2> QED
    BY <1>1, <2>1, <2>2
<1>6. ASSUME Fifo!Clear PROVE Goal
  BY <1>6 DEF Fifo!Clear, Fifo!NoItems
<1> QED
  BY <1>2, <1>3, <1>4, <1>5, <1>6 DEF Fifo!Next

(* The initial ring is empty.                                                   *)
LEMMA InitEmpty == Init => TypeOK /\ StoredItemsOnly /\ Fifo!Init
<1> SUFFICES ASSUME Init PROVE TypeOK /\ StoredItemsOnly /\ Fifo!Init
  OBVIOUS
<1>1. r \in Rings /\ fp_ring_count(r) = 0 /\ Contents(r) = <<>>
  <2>1. [i \in Index |-> Junk] \in [Index -> Items \cup {Junk}]
    OBVIOUS
  <2> QED
    BY <2>1, EmptyRing DEF Init, fp_ring_new
<1> QED
  BY <1>1 DEF Init, TypeOK, StoredItemsOnly, Fifo!Init, Fifo!NoItems

(* The ring never leaves its type: no call indexes outside the array            *)
(* (util.c:33-138), whatever the size of the ring and of the batches.           *)
THEOREM RingTypeCorrect == Spec => []TypeOK
<1>1. TypeOK /\ [Next]_vars => TypeOK'
  <2>1. TypeOK /\ UNCHANGED vars => TypeOK'
    BY DEF TypeOK, vars
  <2> QED
    BY <2>1, CallImplements
<1> QED
  BY <1>1, InitEmpty, PTL DEF Spec

(* No call hands out a slot that nothing was stored in (util.c:68-126).         *)
THEOREM RingStoredItemsOnly == Spec => []StoredItemsOnly
<1>1. TypeOK /\ StoredItemsOnly /\ [Next]_vars => StoredItemsOnly'
  <2>1. StoredItemsOnly /\ UNCHANGED vars => StoredItemsOnly'
    BY DEF StoredItemsOnly, vars, fp_ring_count, Contents, Oldest, Steps, Slot
  <2> QED
    BY <2>1, CallImplements, FifoStored
<1> QED
  BY <1>1, InitEmpty, RingTypeCorrect, PTL DEF Spec

(* The ring is a bounded first-in first-out queue of Num - 1 items: every       *)
(* behaviour of the ring is one of BoundedFifo (util.c:33-166).                 *)
THEOREM RingImplementsFifo == Spec => ImplementsFifo
<1>1. TypeOK /\ [Next]_vars => [Fifo!Next]_(Fifo!vars)
  <2>1. UNCHANGED vars => UNCHANGED Fifo!vars
    BY DEF vars, Fifo!vars, fp_ring_count, Contents, Oldest, Steps, Slot
  <2> QED
    BY <2>1, CallImplements
<1> QED
  BY <1>1, InitEmpty, RingTypeCorrect, PTL DEF Spec, ImplementsFifo, Fifo!Spec
=============================================================================
