----------------------------- MODULE RingLemmas -----------------------------
(***************************************************************************)
(* What the functions of the ring of src/flowpath/util.c do to its         *)
(* contents, for every number of slots and every set of items.             *)
(***************************************************************************)
EXTENDS Ring, TLAPS

(* One step of a ring index stays inside the array, and the distance travelled *)
(* from an index to the index k steps on is k (the wrap in every loop).        *)
LEMMA SlotSteps ==
  ASSUME NEW i \in Index, NEW k \in 0 .. Num
  PROVE  /\ Slot(i, k) \in Index
         /\ k < Num => Steps(i, Slot(i, k)) = k
BY RingAssumption DEF Slot, Steps, Index

(* A slot is reached by stepping to it. *)
LEMMA StepsSlot ==
  ASSUME NEW i \in Index, NEW j \in Index
  PROVE  Steps(i, j) \in Index /\ Slot(i, Steps(i, j)) = j
BY RingAssumption DEF Slot, Steps, Index

(* The ring always has a free slot: its count is at most Num - 1. *)
LEMMA CountBounds ==
  ASSUME NEW q \in Rings
  PROVE  fp_ring_count(q) \in 0 .. Num - 1
BY StepsSlot, RingAssumption DEF Rings, fp_ring_count, Index

(* Moving the tail on by k slots adds k to the count when k slots are free, and *)
(* moving the head on by k slots takes k from it when k are occupied.           *)
LEMMA CountMoves ==
  ASSUME NEW h \in Index, NEW t \in Index, NEW k \in Nat
  PROVE  /\ Steps(h, t) + k <= Num - 1 => Steps(h, Slot(t, k)) = Steps(h, t) + k
         /\ k <= Steps(h, t) => Steps(Slot(h, k), t) = Steps(h, t) - k
BY RingAssumption DEF Steps, Slot, Index

(* The j-th slot from the head, seen from the tail: the occupied ones come last *)
(* on the way round, the free ones first.                                       *)
LEMMA SeenFromTail ==
  ASSUME NEW h \in Index, NEW t \in Index, NEW j \in 0 .. Num - 1
  PROVE  Steps(t, Slot(h, j)) = IF j < Steps(h, t) THEN Num - Steps(h, t) + j
                                                   ELSE j - Steps(h, t)
BY RingAssumption DEF Steps, Slot, Index

(* A push of n items stores the ones that fit behind those already queued.     *)
LEMMA PushMany_Effect ==
  ASSUME NEW q \in Rings, NEW n \in Nat, NEW x \in [1 .. n -> Items]
  PROVE  LET R == fp_ring_push_n(q, x, n)
             c == fp_ring_count(q)
             k == Min2(n, Num - 1 - c)
         IN  /\ R.r \in Rings
             /\ R.n = k
             /\ R.out = <<>>
             /\ fp_ring_count(R.r) = c + k
             /\ Contents(R.r) = [i \in 1 .. c + k |-> IF i <= c THEN Contents(q)[i] ELSE x[i - c]]
<1> DEFINE c == fp_ring_count(q)
           k == Min2(n, Num - 1 - c)
           at(i) == Steps(q.tail, i) + 1
           new == [i \in Index |-> IF at(i) <= k THEN x[at(i)] ELSE q.ring[i]]
           R == fp_ring_push_n(q, x, n)
<1>1. /\ c \in 0 .. Num - 1
      /\ k \in 0 .. Num - 1 - c
      /\ k <= n
      /\ q.head \in Index /\ q.tail \in Index
      /\ q.ring \in [Index -> Items \cup {Junk}]
  BY CountBounds, RingAssumption DEF Min2, Rings
<1>2. R = Returns(RingOf(q.head, Slot(q.tail, k), new), k, <<>>)
  <2>1. fp_ring_free(q) - 1 = Num - 1 - c
    BY <1>1, RingAssumption DEF fp_ring_free
  <2> QED
    BY <2>1, Zenon DEF fp_ring_push_n
<1>3. new \in [Index -> Items \cup {Junk}]
  <2> SUFFICES ASSUME NEW i \in Index, at(i) <= k PROVE x[at(i)] \in Items
    BY <1>1
  <2> HIDE DEF k
  <2>1. Steps(q.tail, i) \in 0 .. Num - 1
    BY <1>1, StepsSlot DEF Index
  <2>2. at(i) \in 1 .. n
    BY <1>1, <2>1, RingAssumption
  <2> QED
    BY <2>2
<1>4. Slot(q.tail, k) \in Index
  BY <1>1, SlotSteps, RingAssumption
<1>5. R.r \in Rings /\ R.n = k /\ R.out = <<>>
  BY <1>1, <1>2, <1>3, <1>4 DEF Returns, RingOf, Rings
<1>6. fp_ring_count(R.r) = c + k
  <2> HIDE DEF k, R, new
  <2>1. R.r.head = q.head /\ R.r.tail = Slot(q.tail, k)
    BY <1>2 DEF Returns, RingOf
  <2>2. Steps(q.head, q.tail) + k <= Num - 1
    BY <1>1, RingAssumption DEF fp_ring_count
  <2> QED
    BY <1>1, <2>1, <2>2, CountMoves DEF fp_ring_count
<1>7. ASSUME NEW i \in 1 .. c + k
      PROVE  new[Slot(q.head, i - 1)] = IF i <= c THEN q.ring[Slot(q.head, i - 1)] ELSE x[i - c]
  <2> DEFINE s == Slot(q.head, i - 1)
  <2> HIDE DEF k
  <2>1. i - 1 \in 0 .. Num - 1 /\ i - 1 \in 0 .. Num /\ i \in Int
    BY <1>1, RingAssumption
  <2>2. s \in Index
    <3>1. q.head \in Index
      BY <1>1
    <3> HIDE DEF c, new, R, at
    <3> QED  BY <2>1, <3>1, SlotSteps
  <2>3. new[s] = IF at(s) <= k THEN x[at(s)] ELSE q.ring[s]
    BY <2>2
  <2>4. at(s) = IF i <= c THEN Num - c + i ELSE i - c
    <3> HIDE DEF s
    <3>1. Steps(q.tail, s) = IF i - 1 < c THEN Num - c + (i - 1) ELSE i - 1 - c
      BY <1>1, <2>1, SeenFromTail DEF s, fp_ring_count
    <3> HIDE DEF c
    <3> QED
      BY <1>1, <2>1, <3>1, RingAssumption
  <2> QED
    <3> HIDE DEF s, new, c, at
    <3>1. i <= c => ~(at(s) <= k)
      BY <1>1, <2>1, <2>4, RingAssumption
    <3>2. ~(i <= c) => at(s) <= k /\ at(s) = i - c
      BY <1>1, <2>1, <2>4, RingAssumption
    <3>3. new[s] = IF i <= c THEN q.ring[s] ELSE x[i - c]
      BY <2>3, <3>1, <3>2
    <3> QED
      BY <3>3 DEF s
<1>8. Contents(R.r) = [i \in 1 .. c + k |-> IF i <= c THEN Contents(q)[i] ELSE x[i - c]]
  <2>1. Contents(R.r) = [i \in 1 .. c + k |-> new[Slot(q.head, i - 1)]]
    <3> HIDE DEF k, new, R, c
    <3> QED
      BY <1>2, <1>6 DEF Contents, Oldest, Returns, RingOf
  <2>2. \A i \in 1 .. c + k : i <= c => Contents(q)[i] = q.ring[Slot(q.head, i - 1)]
    BY <1>1 DEF Contents, Oldest
  <2> QED
    BY <2>1, <2>2, <1>7
<1> QED
  BY <1>5, <1>6, <1>8

(* Taking n items hands out the oldest ones, in order, and leaves the rest.     *)
LEMMA PopMany_Effect ==
  ASSUME NEW q \in Rings, NEW n \in Nat
  PROVE  LET R == fp_ring_pop_n(q, n)
             c == fp_ring_count(q)
             k == Min2(n, c)
         IN  /\ R.r \in Rings
             /\ R.n = k
             /\ R.out = [i \in 1 .. k |-> Contents(q)[i]]
             /\ fp_ring_count(R.r) = c - k
             /\ Contents(R.r) = [i \in 1 .. c - k |-> Contents(q)[i + k]]
<1> DEFINE c == fp_ring_count(q)
           k == Min2(n, c)
           R == fp_ring_pop_n(q, n)
<1>1. /\ c \in 0 .. Num - 1
      /\ k \in 0 .. c
      /\ q.head \in Index /\ q.tail \in Index
      /\ q.ring \in [Index -> Items \cup {Junk}]
  BY CountBounds, RingAssumption DEF Min2, Rings
<1>2. R = Returns(RingOf(Slot(q.head, k), q.tail, q.ring), k, Oldest(q, k))
  BY DEF fp_ring_pop_n
<1> HIDE DEF k, R
<1>3. Slot(q.head, k) \in Index
  BY <1>1, SlotSteps, RingAssumption
<1>4. R.r \in Rings /\ R.n = k
  BY <1>1, <1>2, <1>3 DEF Returns, RingOf, Rings
<1>5. fp_ring_count(R.r) = c - k
  <2>1. R.r.head = Slot(q.head, k) /\ R.r.tail = q.tail
    BY <1>2 DEF Returns, RingOf
  <2> QED
    BY <1>1, <2>1, CountMoves DEF fp_ring_count
<1>6. R.out = [i \in 1 .. k |-> Contents(q)[i]]
  <2>1. R.out = [i \in 1 .. k |-> q.ring[Slot(q.head, i - 1)]]
    BY <1>2 DEF Returns, Oldest
  <2>2. \A i \in 1 .. k : Contents(q)[i] = q.ring[Slot(q.head, i - 1)]
    BY <1>1 DEF Contents, Oldest
  <2> QED
    BY <2>1, <2>2
<1>7. Contents(R.r) = [i \in 1 .. c - k |-> Contents(q)[i + k]]
  <2>1. Contents(R.r) = [i \in 1 .. c - k |-> q.ring[Slot(Slot(q.head, k), i - 1)]]
    <3> HIDE DEF c
    <3> QED
      BY <1>2, <1>5 DEF Contents, Oldest, Returns, RingOf
  <2>2. \A i \in 1 .. c - k : Slot(Slot(q.head, k), i - 1) = Slot(q.head, (i + k) - 1)
    <3> HIDE DEF c
    <3> TAKE i \in 1 .. c - k
    <3>1. /\ q.head \in Int /\ 0 <= q.head /\ q.head < Num
          /\ k \in Int /\ 0 <= k /\ i \in Int /\ 1 <= i /\ i + k <= Num - 1
      BY <1>1, RingAssumption DEF Index
    <3> QED
      BY <3>1, RingAssumption DEF Slot
  <2>3. \A i \in 1 .. c - k : Contents(q)[i + k] = q.ring[Slot(q.head, (i + k) - 1)]
    BY <1>1 DEF Contents, Oldest
  <2> QED
    BY <2>1, <2>2, <2>3
<1> QED
  BY <1>4, <1>5, <1>6, <1>7 DEF k, R

(* The single-item calls are batches of one.                                    *)
LEMMA SinglesAreBatches ==
  ASSUME NEW q \in Rings
  PROVE  /\ \A x \in Items : fp_ring_push(q, x) = fp_ring_push_n(q, [i \in 1 .. 1 |-> x], 1)
         /\ fp_ring_pop(q) = fp_ring_pop_n(q, 1)
         /\ fp_ring_top(q) = fp_ring_top_n(q, 1)
<1> DEFINE c == fp_ring_count(q)
<1>1. /\ c \in 0 .. Num - 1
      /\ q.head \in Index /\ q.tail \in Index
      /\ q.ring \in [Index -> Items \cup {Junk}]
  BY CountBounds DEF Rings
<1>2. ASSUME NEW x \in Items
      PROVE  fp_ring_push(q, x) = fp_ring_push_n(q, [i \in 1 .. 1 |-> x], 1)
  <2> DEFINE ring(k) == [i \in Index |-> IF Steps(q.tail, i) + 1 <= k
                                          THEN [j \in 1 .. 1 |-> x][Steps(q.tail, i) + 1]
                                          ELSE q.ring[i]]
  <2>0. \A i \in Index : Steps(q.tail, i) \in 0 .. Num - 1 /\ (Steps(q.tail, i) = 0 <=> i = q.tail)
    BY <1>1, RingAssumption DEF Steps, Index
  <2>1. CASE c < Num - 1
    <3>1. Min2(1, fp_ring_free(q) - 1) = 1
      BY <1>1, <2>1, RingAssumption DEF Min2, fp_ring_free
    <3>2. ring(1) = [q.ring EXCEPT ![q.tail] = x]
      BY <1>1, <2>0, RingAssumption
    <3> QED
      BY <2>1, <3>1, <3>2, Zenon DEF fp_ring_push, fp_ring_push_n
  <2>2. CASE ~(c < Num - 1)
    <3>1. Min2(1, fp_ring_free(q) - 1) = 0
      BY <1>1, <2>2, RingAssumption DEF Min2, fp_ring_free
    <3>2. ring(0) = q.ring
      BY <1>1, <2>0, RingAssumption
    <3>3. q = RingOf(q.head, Slot(q.tail, 0), q.ring)
      BY <1>1, RingAssumption DEF RingOf, Slot, Rings, Index
    <3> QED
      BY <2>2, <3>1, <3>2, <3>3, Zenon DEF fp_ring_push, fp_ring_push_n
  <2> QED
    BY <2>1, <2>2
<1>3. /\ q.head # q.tail <=> c > 0
      /\ Min2(1, c) = IF c > 0 THEN 1 ELSE 0
      /\ c = 0 \/ c > 0
  BY <1>1, RingAssumption DEF fp_ring_count, Steps, Index, Min2
<1>4. /\ Oldest(q, 1) = <<q.ring[q.head]>>
      /\ Oldest(q, 0) = <<>>
  <2>1. Slot(q.head, 0) = q.head
    BY <1>1, RingAssumption DEF Slot, Index
  <2> QED
    BY <2>1 DEF Oldest
<1>5. q = RingOf(Slot(q.head, 0), q.tail, q.ring)
  BY <1>1, RingAssumption DEF RingOf, Slot, Rings, Index
<1>6. fp_ring_pop(q) = fp_ring_pop_n(q, 1) /\ fp_ring_top(q) = fp_ring_top_n(q, 1)
  <2> HIDE DEF c
  <2>1. CASE c > 0
    BY <1>3, <1>4, <2>1, Zenon DEF fp_ring_pop, fp_ring_pop_n, fp_ring_top, fp_ring_top_n, c
  <2>2. CASE c = 0
    BY <1>3, <1>4, <1>5, <2>2, Zenon DEF fp_ring_pop, fp_ring_pop_n, fp_ring_top, fp_ring_top_n, c
  <2> QED
    BY <1>3, <2>1, <2>2
<1> QED
  BY <1>2, <1>6

(* Removing items is taking them without showing them, and a top shows them     *)
(* without taking them.                                                         *)
LEMMA RemoveMany_Effect ==
  ASSUME NEW q \in Rings, NEW n \in Nat
  PROVE  /\ fp_ring_remove_n(q, n).r = fp_ring_pop_n(q, n).r
         /\ fp_ring_remove_n(q, n).n = fp_ring_pop_n(q, n).n
         /\ fp_ring_remove_n(q, n).out = <<>>
         /\ fp_ring_top_n(q, n).r = q
         /\ fp_ring_top_n(q, n).n = fp_ring_pop_n(q, n).n
         /\ fp_ring_top_n(q, n).out = fp_ring_pop_n(q, n).out
BY DEF fp_ring_remove_n, fp_ring_pop_n, fp_ring_top_n, Returns

(* A ring whose indices are equal is empty.                                     *)
LEMMA EmptyRing ==
  ASSUME NEW a \in [Index -> Items \cup {Junk}]
  PROVE  /\ RingOf(0, 0, a) \in Rings
         /\ fp_ring_count(RingOf(0, 0, a)) = 0
         /\ Contents(RingOf(0, 0, a)) = <<>>
<1>1. RingOf(0, 0, a) \in Rings
  BY RingAssumption DEF RingOf, Rings, Index
<1>2. fp_ring_count(RingOf(0, 0, a)) = 0
  BY DEF RingOf, fp_ring_count, Steps
<1> QED
  BY <1>1, <1>2 DEF Contents, Oldest
=============================================================================
