----------------------------- MODULE NadkProofs -----------------------------
(***************************************************************************)
(* Proofs about the packet path of src/flowpath/port_nadk.c, for every     *)
(* budget, number of frames and kind of device: its state stays well       *)
(* formed; between two NADK devices whose driver takes at least one packet *)
(* of a batch every frame is sent once and in order; whatever the driver   *)
(* does, no frame is sent twice while at most one device is a UDP socket,  *)
(* and a loopback sends or frees what arrives.                             *)
(***************************************************************************)
EXTENDS NadkPort, SequenceTheorems, TLAPS

L == INSTANCE RingLemmas WITH Num <- 2 * Budget, Items <- Packets, Junk <- Null

-----------------------------------------------------------------------------
(* The rings of a device *)

(* What RingLemmas says, it says of the rings of a NADK device.                *)
LEMMA SameRing ==
  /\ L!Index = Index /\ L!Rings = Rings
  /\ \A a, b : L!Min2(a, b) = Min2(a, b) /\ L!RingOf(a, b, a) = RingOf(a, b, a)
  /\ \A r : /\ L!fp_ring_count(r) = fp_ring_count(r)
            /\ L!Contents(r) = Contents(r)
            /\ L!fp_ring_pop(r) = fp_ring_pop(r)
  /\ \A r, n : /\ L!fp_ring_pop_n(r, n) = fp_ring_pop_n(r, n)
               /\ L!fp_ring_top_n(r, n) = fp_ring_top_n(r, n)
               /\ L!fp_ring_remove_n(r, n) = fp_ring_remove_n(r, n)
  /\ \A r, x : L!fp_ring_push(r, x) = fp_ring_push(r, x)
  /\ \A r, x, n : L!fp_ring_push_n(r, x, n) = fp_ring_push_n(r, x, n)
BY DEF L!Index, Index, L!Rings, Rings, L!Min2, Min2, L!RingOf, RingOf, L!fp_ring_count,
       fp_ring_count, L!Contents, Contents, L!fp_ring_pop, fp_ring_pop, L!fp_ring_pop_n,
       fp_ring_pop_n, L!fp_ring_top_n, fp_ring_top_n, L!fp_ring_remove_n, fp_ring_remove_n,
       L!fp_ring_push, fp_ring_push, L!fp_ring_push_n, fp_ring_push_n, L!Steps, Steps, L!Slot,
       Slot, L!Returns, Returns, L!Oldest, Oldest, L!fp_ring_free, fp_ring_free

(* The assumption of RingLemmas.                                               *)
LEMMA Sizes ==
  /\ Budget \in Nat \ {0} /\ 2 * Budget \in Nat \ {0}
  /\ Null \notin Packets
BY NadkAssumption DEF Packets, Frames

(* A push of n items stores those that fit behind what is queued.              *)
LEMMA PushMany ==
  ASSUME NEW q \in Rings, NEW n \in Nat, NEW x \in [1 .. n -> Packets]
  PROVE  LET R == fp_ring_push_n(q, x, n)
             c == fp_ring_count(q)
             k == Min2(n, 2 * Budget - 1 - c)
         IN  /\ R.r \in Rings
             /\ R.n = k
             /\ R.out = <<>>
             /\ fp_ring_count(R.r) = c + k
             /\ Contents(R.r) = [i \in 1 .. c + k |-> IF i <= c THEN Contents(q)[i] ELSE x[i - c]]
BY Sizes, SameRing, L!PushMany_Effect

(* Taking n items hands out the oldest ones and leaves the rest.               *)
LEMMA PopMany ==
  ASSUME NEW q \in Rings, NEW n \in Nat
  PROVE  LET R == fp_ring_pop_n(q, n)
             c == fp_ring_count(q)
             k == Min2(n, c)
         IN  /\ R.r \in Rings
             /\ R.n = k
             /\ R.out = [i \in 1 .. k |-> Contents(q)[i]]
             /\ fp_ring_count(R.r) = c - k
             /\ Contents(R.r) = [i \in 1 .. c - k |-> Contents(q)[i + k]]
BY Sizes, SameRing, L!PopMany_Effect

(* A ring's contents are a sequence of as many items as it counts.             *)
LEMMA CountContents ==
  ASSUME NEW q \in Rings
  PROVE  /\ fp_ring_count(q) \in 0 .. 2 * Budget - 1
         /\ DOMAIN Contents(q) = 1 .. fp_ring_count(q)
         /\ Contents(q) \in Seq(Packets) => Len(Contents(q)) = fp_ring_count(q)
<1>1. fp_ring_count(q) \in 0 .. 2 * Budget - 1
  BY Sizes, SameRing, L!CountBounds
<1>2. DOMAIN Contents(q) = 1 .. fp_ring_count(q)
  BY DEF Contents, Oldest
<1> QED
  BY <1>1, <1>2

(* A batch for which there is room goes behind what is queued.                 *)
LEMMA Refill ==
  ASSUME NEW q \in Rings, Contents(q) \in Seq(Packets),
         NEW n \in Nat, NEW x \in [1 .. n -> Packets],
         NEW R, R = fp_ring_push_n(q, x, n)
  PROVE  /\ R.r \in Rings /\ Contents(R.r) \in Seq(Packets)
         /\ fp_ring_count(q) + n < 2 * Budget =>
              /\ Contents(R.r) = Contents(q) \o x
              /\ fp_ring_count(R.r) = fp_ring_count(q) + n
<1> DEFINE c == fp_ring_count(q)
           k == Min2(n, 2 * Budget - 1 - c)
<1>1. /\ R.r \in Rings
      /\ fp_ring_count(R.r) = c + k
      /\ Contents(R.r) = [i \in 1 .. c + k |-> IF i <= c THEN Contents(q)[i] ELSE x[i - c]]
  BY PushMany
<1>2. /\ c \in Nat /\ k \in 0 .. n /\ c + k \in Nat
      /\ Len(Contents(q)) = c
      /\ c + n < 2 * Budget => k = n
  BY CountContents, Sizes DEF Min2
<1> HIDE DEF c, k
<1>3. \A i \in 1 .. c + k : (IF i <= c THEN Contents(q)[i] ELSE x[i - c]) \in Packets
  <2> TAKE i \in 1 .. c + k
  <2>1. CASE i <= c
    BY <1>2, <2>1
  <2>2. CASE ~(i <= c)
    <3>1. i - c \in 1 .. n
      BY <1>2, <2>2
    <3> QED
      BY <2>2, <3>1
  <2> QED
    BY <2>1, <2>2
<1>4. Contents(R.r) \in Seq(Packets)
  BY <1>1, <1>2, <1>3
<1>5. ASSUME k = n
      PROVE  Contents(R.r) = Contents(q) \o x
  <2>1. x \in Seq(Packets) /\ Len(x) = n
    OBVIOUS
  <2>2. /\ Contents(q) \o x \in Seq(Packets) /\ Len(Contents(q) \o x) = c + n
        /\ \A i \in 1 .. c + n : (Contents(q) \o x)[i] = IF i <= c THEN Contents(q)[i] ELSE x[i - c]
    BY <1>2, <2>1
  <2>3. /\ Len(Contents(R.r)) = c + n
        /\ \A i \in 1 .. c + n : Contents(R.r)[i] = IF i <= c THEN Contents(q)[i] ELSE x[i - c]
    BY <1>1, <1>2, <1>5
  <2>4. \A i \in 1 .. c + n : Contents(R.r)[i] = (Contents(q) \o x)[i]
    BY <2>2, <2>3
  <2> QED
    BY <1>4, <2>2, <2>3, <2>4, SeqEqual
<1> QED
  BY <1>1, <1>2, <1>4, <1>5 DEF c

(* A packet for which there is room goes behind what is queued.                *)
LEMMA PushOne ==
  ASSUME NEW q \in Rings, Contents(q) \in Seq(Packets), NEW x \in Packets,
         NEW R, R = fp_ring_push(q, x)
  PROVE  /\ R.r \in Rings /\ Contents(R.r) \in Seq(Packets)
         /\ fp_ring_count(q) < 2 * Budget - 1 =>
              /\ Contents(R.r) = Contents(q) \o <<x>>
              /\ fp_ring_count(R.r) = fp_ring_count(q) + 1
<1> DEFINE one == [i \in 1 .. 1 |-> x]
<1>1. R = fp_ring_push_n(q, one, 1)
  BY Sizes, SameRing, L!SinglesAreBatches
<1>2. one = <<x>> /\ one \in [1 .. 1 -> Packets]
  OBVIOUS
<1>3. fp_ring_count(q) \in Nat
  BY CountContents
<1> HIDE DEF one
<1>4. /\ R.r \in Rings /\ Contents(R.r) \in Seq(Packets)
      /\ fp_ring_count(q) + 1 < 2 * Budget =>
           /\ Contents(R.r) = Contents(q) \o one
           /\ fp_ring_count(R.r) = fp_ring_count(q) + 1
  BY <1>1, <1>2, Refill
<1> QED
  BY <1>2, <1>3, <1>4, Sizes

(* A pop hands out the oldest packet and keeps the others.                     *)
LEMMA PopOne ==
  ASSUME NEW q \in Rings, Contents(q) \in Seq(Packets),
         NEW R, R = fp_ring_pop(q)
  PROVE  /\ R.r \in Rings /\ Contents(R.r) \in Seq(Packets)
         /\ R.n = 1 => R.out[1] \in Packets /\ Contents(q) = <<R.out[1]>> \o Contents(R.r)
         /\ R.n = 0 => Contents(q) = <<>> /\ Contents(R.r) = <<>>
<1> DEFINE c == fp_ring_count(q)
           k == Min2(1, c)
<1>1. R = fp_ring_pop_n(q, 1)
  BY Sizes, SameRing, L!SinglesAreBatches
<1>2. /\ R.r \in Rings
      /\ R.n = k
      /\ R.out = [i \in 1 .. k |-> Contents(q)[i]]
      /\ fp_ring_count(R.r) = c - k
      /\ Contents(R.r) = [i \in 1 .. c - k |-> Contents(q)[i + k]]
  <2>1. 1 \in Nat
    OBVIOUS
  <2> QED
    BY <1>1, <2>1, PopMany, Zenon
<1>3. c \in Nat /\ Len(Contents(q)) = c /\ k \in 0 .. c /\ k \in {0, 1} /\ (k = 0 => c = 0)
  BY CountContents DEF Min2
<1> HIDE DEF c, k
<1>4. Contents(R.r) \in Seq(Packets) /\ Len(Contents(R.r)) = c - k
  BY <1>2, <1>3
<1>5. ASSUME k = 1
      PROVE  R.out[1] \in Packets /\ Contents(q) = <<R.out[1]>> \o Contents(R.r)
  <2>1. R.out[1] = Contents(q)[1] /\ R.out[1] \in Packets
    BY <1>2, <1>3, <1>5
  <2>2. \A i \in 1 .. c : Contents(q)[i] = (<<R.out[1]>> \o Contents(R.r))[i]
    BY <1>2, <1>3, <1>4, <1>5, <2>1
  <2>3. Len(<<R.out[1]>> \o Contents(R.r)) = c /\ <<R.out[1]>> \o Contents(R.r) \in Seq(Packets)
    BY <1>3, <1>4, <1>5, <2>1
  <2> QED
    BY <1>3, <2>1, <2>2, <2>3
<1>6. ASSUME k = 0
      PROVE  Contents(q) = <<>> /\ Contents(R.r) = <<>>
  BY <1>3, <1>4, <1>6
<1> QED
  BY <1>2, <1>4, <1>5, <1>6

(* What is shown from the top of a ring is what removing it takes out.         *)
LEMMA TopRemove ==
  ASSUME NEW q \in Rings, Contents(q) \in Seq(Packets),
         NEW top, top = fp_ring_top_n(q, Budget)
  PROVE  /\ top.n = Min2(Budget, fp_ring_count(q)) /\ top.n \in Nat
         /\ top.out \in [1 .. top.n -> Packets]
         /\ \A sent \in 0 .. top.n :
              LET after == fp_ring_remove_n(q, sent).r IN
              /\ after \in Rings /\ Contents(after) \in Seq(Packets)
              /\ fp_ring_count(after) = fp_ring_count(q) - sent
              /\ Contents(q) = [i \in 1 .. sent |-> top.out[i]] \o Contents(after)
<1> DEFINE c == fp_ring_count(q)
<1>0. ASSUME NEW n \in Nat
      PROVE  /\ fp_ring_top_n(q, n).n = fp_ring_pop_n(q, n).n
             /\ fp_ring_top_n(q, n).out = fp_ring_pop_n(q, n).out
             /\ fp_ring_remove_n(q, n).r = fp_ring_pop_n(q, n).r
  BY Sizes, SameRing, L!RemoveMany_Effect
<1>1. /\ top.n = Min2(Budget, c)
      /\ top.out = [i \in 1 .. top.n |-> Contents(q)[i]]
  <2>1. Budget \in Nat
    BY Sizes
  <2>2. /\ fp_ring_pop_n(q, Budget).n = Min2(Budget, c)
        /\ fp_ring_pop_n(q, Budget).out = [i \in 1 .. Min2(Budget, c) |-> Contents(q)[i]]
    BY <2>1, PopMany, Zenon
  <2> QED
    BY <1>0, <2>1, <2>2, Zenon
<1>2. c \in Nat /\ Len(Contents(q)) = c /\ top.n \in 0 .. c
  BY <1>1, CountContents, Sizes DEF Min2
<1>3. top.out \in [1 .. top.n -> Packets]
  BY <1>1, <1>2
<1>4. ASSUME NEW sent \in 0 .. top.n
      PROVE  LET after == fp_ring_remove_n(q, sent).r IN
              /\ after \in Rings /\ Contents(after) \in Seq(Packets)
              /\ fp_ring_count(after) = c - sent
              /\ Contents(q) = [i \in 1 .. sent |-> top.out[i]] \o Contents(after)
  <2> DEFINE after == fp_ring_remove_n(q, sent).r
             first == [i \in 1 .. sent |-> top.out[i]]
  <2>1. sent \in Nat /\ Min2(sent, c) = sent /\ sent <= c
    BY <1>2 DEF Min2
  <2>2. /\ after \in Rings
        /\ fp_ring_count(after) = c - sent
        /\ Contents(after) = [i \in 1 .. c - sent |-> Contents(q)[i + sent]]
    <3>1. /\ fp_ring_pop_n(q, sent).r \in Rings
          /\ fp_ring_count(fp_ring_pop_n(q, sent).r) = c - Min2(sent, c)
          /\ Contents(fp_ring_pop_n(q, sent).r)
               = [i \in 1 .. c - Min2(sent, c) |-> Contents(q)[i + Min2(sent, c)]]
      BY <2>1, PopMany, Zenon
    <3> QED
      BY <1>0, <2>1, <3>1, Zenon
  <2> HIDE DEF c, after
  <2>3. Contents(after) \in Seq(Packets) /\ Len(Contents(after)) = c - sent
    BY <1>2, <2>1, <2>2
  <2>4. first \in Seq(Packets) /\ Len(first) = sent /\ \A i \in 1 .. sent : first[i] = Contents(q)[i]
    <3>1. \A i \in 1 .. sent : i \in 1 .. top.n /\ top.out[i] = Contents(q)[i]
      BY <1>1, <1>2, <2>1
    <3>2. \A i \in 1 .. sent : top.out[i] \in Packets
      BY <1>3, <3>1
    <3> QED
      BY <2>1, <3>1, <3>2
  <2> HIDE DEF first
  <2>5. first \o Contents(after) \in Seq(Packets) /\ Len(first \o Contents(after)) = c
    BY <2>1, <2>3, <2>4, <1>2
  <2>6. \A i \in 1 .. c : (first \o Contents(after))[i] = Contents(q)[i]
    BY <1>2, <2>1, <2>2, <2>3, <2>4
  <2>7. Contents(q) = first \o Contents(after)
    BY <1>2, <2>5, <2>6
  <2> QED
    BY <2>2, <2>3, <2>7 DEF after, first
<1> QED
  BY <1>1, <1>2, <1>3, <1>4 DEF c

(* A new ring is empty.                                                        *)
LEMMA NewRing ==
  fp_ring_new \in Rings /\ fp_ring_count(fp_ring_new) = 0 /\ Contents(fp_ring_new) = <<>>
<1>1. [i \in Index |-> Null] \in [L!Index -> Packets \cup {Null}]
  BY SameRing
<1>2. fp_ring_new = L!RingOf(0, 0, [i \in Index |-> Null])
  BY DEF fp_ring_new, RingOf, L!RingOf
<1> QED
  BY <1>1, <1>2, Sizes, SameRing, L!EmptyRing

-----------------------------------------------------------------------------
(* Frames and packets *)

(* The frames of a sequence of packets, and of two put together.               *)
LEMMA FramesOfSeq ==
  ASSUME NEW s \in Seq(Packets), NEW t \in Seq(Packets)
  PROVE  /\ FramesOf(s) \in Seq(Frames)
         /\ FramesOf(s \o t) = FramesOf(s) \o FramesOf(t)
<1>1. \A p \in Packets : p.frame \in Frames
  BY DEF Packets
<1>2. ASSUME NEW u \in Seq(Packets)
      PROVE  /\ FramesOf(u) \in Seq(Frames) /\ Len(FramesOf(u)) = Len(u)
             /\ \A i \in 1 .. Len(u) : FramesOf(u)[i] = u[i].frame
  BY <1>1 DEF FramesOf
<1>3. s \o t \in Seq(Packets) /\ Len(s \o t) = Len(s) + Len(t)
  OBVIOUS
<1>4. FramesOf(s) \o FramesOf(t) \in Seq(Frames)
      /\ Len(FramesOf(s) \o FramesOf(t)) = Len(s) + Len(t)
  <2>1. FramesOf(s) \in Seq(Frames) /\ Len(FramesOf(s)) = Len(s)
    BY <1>2
  <2>2. FramesOf(t) \in Seq(Frames) /\ Len(FramesOf(t)) = Len(t)
    BY <1>2
  <2> DEFINE v == FramesOf(s)
             w == FramesOf(t)
  <2> HIDE DEF v, w
  <2>3. v \in Seq(Frames) /\ w \in Seq(Frames) /\ Len(v) = Len(s) /\ Len(w) = Len(t)
    BY <2>1, <2>2 DEF v, w
  <2>4. v \o w \in Seq(Frames) /\ Len(v \o w) = Len(v) + Len(w)
    BY <2>3, ConcatProperties
  <2> QED
    BY <2>3, <2>4 DEF v, w
<1>5. \A i \in 1 .. Len(s) + Len(t) : FramesOf(s \o t)[i] = (FramesOf(s) \o FramesOf(t))[i]
  <2> TAKE i \in 1 .. Len(s) + Len(t)
  <2>1. FramesOf(s \o t)[i] = (s \o t)[i].frame
    BY <1>2, <1>3
  <2>2. (s \o t)[i] = IF i <= Len(s) THEN s[i] ELSE t[i - Len(s)]
    OBVIOUS
  <2>3. (FramesOf(s) \o FramesOf(t))[i]
          = IF i <= Len(s) THEN FramesOf(s)[i] ELSE FramesOf(t)[i - Len(s)]
    BY <1>2, ConcatProperties
  <2>4. CASE i <= Len(s)
    BY <1>2, <2>1, <2>2, <2>3, <2>4
  <2>5. CASE ~(i <= Len(s))
    <3>1. i - Len(s) \in 1 .. Len(t)
      BY <2>5
    <3> QED
      BY <1>2, <2>1, <2>2, <2>3, <2>5, <3>1
  <2> QED
    BY <2>4, <2>5
<1> QED
  BY <1>2, <1>3, <1>4, <1>5, SeqEqual

(* The frame of one packet.                                                    *)
LEMMA FramesOfOne ==
  ASSUME NEW p \in Packets
  PROVE  FramesOf(<<p>>) = <<p.frame>> /\ p.frame \in Frames
BY DEF FramesOf, Packets

(* No packets, no frames.                                                      *)
LEMMA FramesOfNone == FramesOf(<<>>) = <<>>
BY DEF FramesOf

(* A sequence is its first k elements and the others.                          *)
LEMMA FirstAndRest ==
  ASSUME NEW S, NEW s \in Seq(S), NEW k \in 0 .. Len(s)
  PROVE  /\ SubSeq(s, 1, k) \in Seq(S) /\ Len(SubSeq(s, 1, k)) = k
         /\ \A i \in 1 .. k : SubSeq(s, 1, k)[i] = s[i]
         /\ SubSeq(s, k + 1, Len(s)) \in Seq(S)
         /\ s = SubSeq(s, 1, k) \o SubSeq(s, k + 1, Len(s))
<1> DEFINE a == SubSeq(s, 1, k)
           b == SubSeq(s, k + 1, Len(s))
<1>1. /\ a \in Seq(S) /\ Len(a) = k
      /\ \A i \in 1 .. k : a[i] = s[i]
  OBVIOUS
<1>2. /\ b \in Seq(S) /\ Len(b) = Len(s) - k
      /\ \A i \in 1 .. Len(s) - k : b[i] = s[k + i]
  OBVIOUS
<1> HIDE DEF a, b
<1>3. k \in Nat /\ Len(s) \in Nat /\ k <= Len(s)
  OBVIOUS
<1>4. /\ a \o b \in Seq(S) /\ Len(a \o b) = Len(a) + Len(b)
      /\ \A i \in 1 .. Len(a) + Len(b) :
           (a \o b)[i] = IF i <= Len(a) THEN a[i] ELSE b[i - Len(a)]
  BY <1>1, <1>2, ConcatProperties
<1>5. Len(a) + Len(b) = Len(s)
  BY <1>1, <1>2, <1>3
<1>6. ASSUME NEW i \in 1 .. Len(s)
      PROVE  s[i] = (a \o b)[i]
  <2>1. (a \o b)[i] = IF i <= k THEN a[i] ELSE b[i - k]
    BY <1>1, <1>4, <1>5
  <2>2. CASE i <= k
    BY <1>1, <1>3, <2>1, <2>2
  <2>3. CASE ~(i <= k)
    <3>1. i - k \in 1 .. Len(s) - k /\ k + (i - k) = i
      BY <1>3, <2>3
    <3> QED
      BY <1>2, <2>1, <2>3, <3>1
  <2> QED
    BY <2>2, <2>3
<1>7. s = a \o b
  BY <1>6, <1>4, <1>5, SeqEqual
<1> QED
  BY <1>1, <1>2, <1>7 DEF a, b

-----------------------------------------------------------------------------
(* Devices *)

(* There are two devices, and the targets of two devices differ.               *)
LEMMA Targets ==
  ASSUME NEW d \in Devices
  PROVE  /\ Other(d) \in Devices /\ Other(d) # d
         /\ Target(d) \in Devices
         /\ \A e \in Devices : e # d => e = Other(d) /\ Target(e) # Target(d)
<1>1. PICK a \in Devices, b \in Devices : a # b /\ Devices = {a, b}
  BY NadkAssumption
<1>2. \A e \in Devices : Other(e) \in Devices /\ Other(e) # e
  BY <1>1, Zenon DEF Other
<1>3. \A e, f \in Devices : e # f => e = Other(f)
  BY <1>1, <1>2
<1> QED
  BY <1>1, <1>2, <1>3 DEF Target

(* No more is received than is there and than the ring has room for.           *)
LEMMA ReceiveBounds ==
  ASSUME NEW d \in Nadk, rx[d] \in Rings, queue[d] \in Seq(Frames)
  PROVE  /\ \A k \in nadk_receive(d) : k \in 0 .. Len(queue[d])
         /\ \A k \in IF Low(rx[d]) THEN nadk_receive(d) ELSE {0} :
              k \in 0 .. Len(queue[d]) /\ fp_ring_count(rx[d]) + k < 2 * Budget
<1>1. Budget \in Nat \ {0} /\ Len(queue[d]) \in Nat
  BY Sizes
<1>2. \A k \in nadk_receive(d) : k \in 0 .. Budget /\ k \in 0 .. Len(queue[d])
  BY <1>1 DEF nadk_receive, Min2
<1>3. fp_ring_count(rx[d]) \in 0 .. 2 * Budget - 1
  BY CountContents
<1> QED
  BY <1>1, <1>2, <1>3 DEF Low

(* A batch that fits moves frames from the driver to the ring.                 *)
LEMMA RecvBatch ==
  ASSUME NEW d \in Nadk, rx[d] \in Rings, Contents(rx[d]) \in Seq(Packets),
         queue[d] \in Seq(Frames), NEW k \in 0 .. Len(queue[d]),
         NEW R, R = fp_nadk_recv_batch(d, k)
  PROVE  /\ R \in Rings /\ Contents(R) \in Seq(Packets)
         /\ fp_ring_count(rx[d]) + k < 2 * Budget =>
              FramesOf(Contents(R)) \o SubSeq(queue[d], k + 1, Len(queue[d]))
                = FramesOf(Contents(rx[d])) \o queue[d]
<1> DEFINE x == [i \in 1 .. k |-> fp_packet_create(queue[d][i], "nadk")]
           a == SubSeq(queue[d], 1, k)
           b == SubSeq(queue[d], k + 1, Len(queue[d]))
           c == Contents(rx[d])
<1>1. R = fp_ring_push_n(rx[d], x, k).r
  BY DEF fp_nadk_recv_batch
<1>2. k \in Nat /\ \A i \in 1 .. k : queue[d][i] \in Frames
  OBVIOUS
<1>3. /\ x \in [1 .. k -> Packets] /\ x \in Seq(Packets) /\ Len(x) = k
      /\ \A i \in 1 .. k : x[i].frame = queue[d][i]
  BY <1>2 DEF fp_packet_create, Packets
<1>4. /\ a \in Seq(Frames) /\ Len(a) = k /\ b \in Seq(Frames)
      /\ \A i \in 1 .. k : a[i] = queue[d][i]
      /\ queue[d] = a \o b
  BY FirstAndRest
<1> HIDE DEF x, a, b
<1>5. FramesOf(x) = a
  <2>1. FramesOf(x) \in Seq(Frames) /\ Len(FramesOf(x)) = k
        /\ \A i \in 1 .. k : FramesOf(x)[i] = x[i].frame
    BY <1>3, FramesOfSeq DEF FramesOf
  <2>2. \A i \in 1 .. k : FramesOf(x)[i] = a[i]
    BY <1>3, <1>4, <2>1
  <2> QED
    BY <1>4, <2>1, <2>2, SeqEqual
<1>6. /\ R \in Rings /\ Contents(R) \in Seq(Packets)
      /\ fp_ring_count(rx[d]) + k < 2 * Budget => Contents(R) = c \o x
  <2> DEFINE P == fp_ring_push_n(rx[d], x, k)
  <2>0. ASSUME NEW Q, Q = fp_ring_push_n(rx[d], x, k)
        PROVE  /\ Q.r \in Rings /\ Contents(Q.r) \in Seq(Packets)
               /\ fp_ring_count(rx[d]) + k < 2 * Budget => Contents(Q.r) = Contents(rx[d]) \o x
    <3>1. k \in Nat /\ x \in [1 .. k -> Packets]
      BY <1>2, <1>3
    <3> QED
      BY <2>0, <3>1, Refill
  <2>1. /\ P.r \in Rings /\ Contents(P.r) \in Seq(Packets)
        /\ fp_ring_count(rx[d]) + k < 2 * Budget => Contents(P.r) = Contents(rx[d]) \o x
    BY <2>0, Zenon
  <2> QED
    BY <1>1, <2>1
<1>7. FramesOf(c \o x) = FramesOf(c) \o a /\ FramesOf(c) \in Seq(Frames)
  BY <1>3, <1>5, FramesOfSeq
<1>8. (FramesOf(c) \o a) \o b = FramesOf(c) \o queue[d]
  BY <1>4, <1>7, ConcatAssociative
<1> QED
  BY <1>6, <1>7, <1>8 DEF b

-----------------------------------------------------------------------------
(* Type correctness *)

(* What a ring holds are packets.                                              *)
PacketsStored ==
  \A d \in Nadk : Contents(rx[d]) \in Seq(Packets) /\ Contents(tx[d]) \in Seq(Packets)

Well == TypeOK /\ PacketsStored

(* The contents of a ring depend on the ring only.                             *)
LEMMA ContentsPrime ==
  \A d : /\ Contents(rx[d])' = Contents(rx'[d]) /\ Contents(tx[d])' = Contents(tx'[d])
         /\ fp_ring_count(tx[d])' = fp_ring_count(tx'[d])
BY DEF Contents, Oldest, fp_ring_count, Steps, Slot

(* The initial state is well formed.                                           *)
LEMMA WellInit == Init => Well
<1> SUFFICES ASSUME Init PROVE Well
  OBVIOUS
<1>1. \A d \in Nadk : rx[d] = fp_ring_new /\ tx[d] = fp_ring_new
  BY DEF Init
<1>2. PacketsStored
  <2>1. \A d \in Nadk : Contents(rx[d]) = <<>> /\ Contents(tx[d]) = <<>>
    BY <1>1, NewRing, Zenon
  <2>2. <<>> \in Seq(Packets)
    OBVIOUS
  <2> QED
    BY <2>1, <2>2, Zenon DEF PacketsStored
<1>3. TypeOK
  <2>1. /\ arrived \in [Devices -> 0 .. MaxFrames]
        /\ queue \in [Devices -> Seq(Frames)] /\ out \in [Devices -> Seq(Frames)]
    <3>1. MaxFrames \in Nat
      BY NadkAssumption
    <3> QED
      BY <3>1 DEF Init
  <2>2. rx \in [Nadk -> Rings] /\ tx \in [Nadk -> Rings]
    BY NewRing DEF Init
  <2> QED
    BY <2>1, <2>2 DEF Init, TypeOK
<1> QED
  BY <1>2, <1>3 DEF Well

(* Receiving from a NADK device.                                               *)
LEMMA WellRecv ==
  ASSUME Well, NEW d \in Devices, fp_nadk_recv(d)
  PROVE  Well'
<1>1. d \in Nadk /\ rx[d] \in Rings /\ Contents(rx[d]) \in Seq(Packets) /\ queue[d] \in Seq(Frames)
  BY DEF Well, TypeOK, PacketsStored, fp_nadk_recv
<1>2. PICK k \in IF Low(rx[d]) THEN nadk_receive(d) ELSE {0} :
        LET popped == fp_ring_pop(fp_nadk_recv_batch(d, k)) IN
          /\ queue' = [queue EXCEPT ![d] = SubSeq(@, k + 1, Len(@))]
          /\ rx' = [rx EXCEPT ![d] = popped.r]
          /\ \/ popped.n = 1 /\ hand' = popped.out[1] /\ UNCHANGED turn
             \/ popped.n = 0 /\ turn' = Other(d) /\ UNCHANGED hand
  BY DEF fp_nadk_recv
<1> DEFINE R == fp_nadk_recv_batch(d, k)
           popped == fp_ring_pop(R)
<1>3. k \in 0 .. Len(queue[d])
  BY <1>1, <1>2, ReceiveBounds
<1>4. R \in Rings /\ Contents(R) \in Seq(Packets)
  BY <1>1, <1>3, RecvBatch
<1> HIDE DEF R
<1>5. /\ popped.r \in Rings /\ Contents(popped.r) \in Seq(Packets)
      /\ popped.n = 1 => popped.out[1] \in Packets
  BY <1>4, PopOne
<1>6. /\ queue' = [queue EXCEPT ![d] = SubSeq(@, k + 1, Len(@))]
      /\ rx' = [rx EXCEPT ![d] = popped.r]
      /\ \/ popped.n = 1 /\ hand' = popped.out[1] /\ UNCHANGED turn
         \/ popped.n = 0 /\ turn' = Other(d) /\ UNCHANGED hand
  BY <1>2 DEF R
<1> HIDE DEF popped
<1>7. UNCHANGED <<test, arrived, tx, out, dropped, freed>>
  BY DEF fp_nadk_recv
<1>8. SubSeq(queue[d], k + 1, Len(queue[d])) \in Seq(Frames)
  BY <1>1, <1>3, FirstAndRest
<1>9. TypeOK'
  <2>1. queue' \in [Devices -> Seq(Frames)]
    BY <1>6, <1>8 DEF Well, TypeOK
  <2>2. rx' \in [Nadk -> Rings] /\ tx' \in [Nadk -> Rings]
    BY <1>5, <1>6, <1>7 DEF Well, TypeOK
  <2>3. turn' \in Devices /\ hand' \in Packets \cup {Null}
    BY <1>5, <1>6, Targets DEF Well, TypeOK
  <2> QED
    BY <1>7, <2>1, <2>2, <2>3 DEF Well, TypeOK
<1>10. PacketsStored'
  <2>1. \A e \in Nadk : rx'[e] = IF e = d THEN popped.r ELSE rx[e]
    BY <1>6 DEF Well, TypeOK
  <2> QED
    BY <1>5, <1>7, <2>1, ContentsPrime DEF Well, PacketsStored
<1> QED
  BY <1>9, <1>10 DEF Well

(* Sending a batch puts on the wire what it takes from the ring, and a willing *)
(* driver takes something.                                                     *)
LEMMA SendBatch ==
  ASSUME NEW d \in Nadk, NEW q \in Rings, Contents(q) \in Seq(Packets),
         freed \subseteq Packets, fp_nadk_send_batch(d, q)
  PROVE  /\ freed' \subseteq Packets
         /\ \E ring \in Rings, s \in Seq(Frames) :
              /\ tx' = [tx EXCEPT ![d] = ring]
              /\ out' = [out EXCEPT ![d] = @ \o s]
              /\ Contents(ring) \in Seq(Packets)
              /\ FramesOf(Contents(q)) = s \o FramesOf(Contents(ring))
              /\ Driver = {} /\ fp_ring_count(q) > 0 => fp_ring_count(ring) < fp_ring_count(q)
<1> DEFINE top == fp_ring_top_n(q, Budget)
<1>1. /\ top.n = Min2(Budget, fp_ring_count(q)) /\ top.n \in Nat
      /\ top.out \in [1 .. top.n -> Packets]
      /\ \A sent \in 0 .. top.n :
           /\ fp_ring_remove_n(q, sent).r \in Rings
           /\ Contents(fp_ring_remove_n(q, sent).r) \in Seq(Packets)
           /\ fp_ring_count(fp_ring_remove_n(q, sent).r) = fp_ring_count(q) - sent
           /\ Contents(q) = [i \in 1 .. sent |-> top.out[i]]
                             \o Contents(fp_ring_remove_n(q, sent).r)
  <2> SUFFICES ASSUME NEW t, t = fp_ring_top_n(q, Budget)
      PROVE  /\ t.n = Min2(Budget, fp_ring_count(q)) /\ t.n \in Nat
             /\ t.out \in [1 .. t.n -> Packets]
             /\ \A sent \in 0 .. t.n :
                  /\ fp_ring_remove_n(q, sent).r \in Rings
                  /\ Contents(fp_ring_remove_n(q, sent).r) \in Seq(Packets)
                  /\ fp_ring_count(fp_ring_remove_n(q, sent).r) = fp_ring_count(q) - sent
                  /\ Contents(q) = [i \in 1 .. sent |-> t.out[i]]
                                    \o Contents(fp_ring_remove_n(q, sent).r)
    OBVIOUS
  <2> QED
    BY TopRemove
<1>2. PICK num \in Prepared(top.out, top.n) : \E sent \in nadk_send(num) :
        /\ freed' = freed \cup {top.out[i] : i \in {j \in 1 .. num : Alloc(top.out[j])}}
        /\ out' = [out EXCEPT ![d] = @ \o [i \in 1 .. sent |-> top.out[i].frame]]
        /\ tx' = [tx EXCEPT ![d] = fp_ring_remove_n(q, Removed(sent)).r]
  BY Zenon DEF fp_nadk_send_batch
<1>3. PICK sent \in nadk_send(num) :
        /\ freed' = freed \cup {top.out[i] : i \in {j \in 1 .. num : Alloc(top.out[j])}}
        /\ out' = [out EXCEPT ![d] = @ \o [i \in 1 .. sent |-> top.out[i].frame]]
        /\ tx' = [tx EXCEPT ![d] = fp_ring_remove_n(q, Removed(sent)).r]
  BY <1>2
<1> HIDE DEF top
<1>4. num \in 0 .. top.n /\ (Driver = {} => num = top.n)
  BY <1>1, <1>2 DEF Prepared
<1>5. sent \in 0 .. num /\ (Driver = {} /\ num > 0 => sent > 0)
  BY <1>1, <1>3, <1>4 DEF nadk_send, Min2
<1>6. freed' \subseteq Packets
  <2>1. \A j \in 1 .. num : j \in 1 .. top.n
    BY <1>1, <1>4
  <2>2. \A j \in 1 .. num : top.out[j] \in Packets
    BY <1>1, <2>1
  <2> QED
    BY <1>3, <2>2
<1> DEFINE ring == fp_ring_remove_n(q, sent).r
           packets == [i \in 1 .. sent |-> top.out[i]]
           s == [i \in 1 .. sent |-> top.out[i].frame]
<1>7. /\ sent \in 0 .. top.n /\ ring \in Rings /\ Contents(ring) \in Seq(Packets)
      /\ fp_ring_count(ring) = fp_ring_count(q) - sent
      /\ Contents(q) = packets \o Contents(ring)
  BY <1>1, <1>4, <1>5
<1>8. packets \in Seq(Packets) /\ s = FramesOf(packets)
  <2>0. \A i \in 1 .. sent : i \in 1 .. top.n
    BY <1>1, <1>7
  <2>1. \A i \in 1 .. sent : top.out[i] \in Packets
    BY <1>1, <2>0
  <2>2. packets \in Seq(Packets) /\ DOMAIN packets = 1 .. sent
    BY <1>7, <2>1
  <2> QED
    BY <2>2 DEF FramesOf
<1>9. s \in Seq(Frames) /\ FramesOf(Contents(q)) = s \o FramesOf(Contents(ring))
  BY <1>7, <1>8, FramesOfSeq, Zenon
<1>10. Driver = {} /\ fp_ring_count(q) > 0 => fp_ring_count(ring) < fp_ring_count(q)
  BY <1>1, <1>4, <1>5, <1>7, Sizes, CountContents DEF Min2
<1>11. tx' = [tx EXCEPT ![d] = ring] /\ out' = [out EXCEPT ![d] = @ \o s]
  BY <1>3 DEF Removed
<1> HIDE DEF ring, s
<1> QED
  BY <1>6, <1>7, <1>9, <1>10, <1>11

(* Sending on a NADK device.                                                   *)
LEMMA WellSend ==
  ASSUME Well, NEW d \in Devices, fp_nadk_send(d)
  PROVE  Well'
<1>1. /\ d \in Nadk /\ tx[d] \in Rings /\ Contents(tx[d]) \in Seq(Packets) /\ hand \in Packets
      /\ freed \subseteq Packets /\ turn \in Devices
  BY DEF Well, TypeOK, PacketsStored, fp_nadk_send
<1> DEFINE pushed == fp_ring_push(tx[d], hand)
<1>2. pushed.r \in Rings /\ Contents(pushed.r) \in Seq(Packets)
  BY <1>1, PushOne
<1>3. /\ hand' = Null /\ turn' = Other(turn)
      /\ UNCHANGED <<test, arrived, queue, rx, dropped>>
  BY DEF fp_nadk_send
<1>4. freed' \subseteq Packets
      /\ \E ring \in Rings, s \in Seq(Frames) :
           /\ tx' = [tx EXCEPT ![d] = ring] /\ Contents(ring) \in Seq(Packets)
           /\ out' = out \/ out' = [out EXCEPT ![d] = @ \o s]
  <2>1. CASE fp_nadk_send_batch(d, pushed.r)
    <3>1. PICK ring \in Rings, s \in Seq(Frames) :
            /\ tx' = [tx EXCEPT ![d] = ring] /\ Contents(ring) \in Seq(Packets)
            /\ out' = [out EXCEPT ![d] = @ \o s]
      BY <1>1, <1>2, <2>1, SendBatch
    <3>2. freed' \subseteq Packets
      BY <1>1, <1>2, <2>1, SendBatch
    <3> QED
      BY <3>1, <3>2
  <2>2. CASE tx' = [tx EXCEPT ![d] = pushed.r] /\ UNCHANGED <<out, freed>>
    <3>1. <<>> \in Seq(Frames)
      OBVIOUS
    <3> HIDE DEF pushed
    <3> QED
      BY <1>1, <1>2, <2>2, <3>1
  <2> QED
    BY <2>1, <2>2 DEF fp_nadk_send
<1>5. PICK ring \in Rings, s \in Seq(Frames) :
           /\ tx' = [tx EXCEPT ![d] = ring] /\ Contents(ring) \in Seq(Packets)
           /\ out' = out \/ out' = [out EXCEPT ![d] = @ \o s]
  BY <1>4
<1>6. TypeOK'
  <2>1. out[d] \o s \in Seq(Frames)
    BY <1>1, ConcatProperties DEF Well, TypeOK
  <2>2. out' \in [Devices -> Seq(Frames)] /\ tx' \in [Nadk -> Rings]
    BY <1>5, <2>1 DEF Well, TypeOK
  <2> QED
    BY <1>1, <1>3, <1>4, <2>2, Targets DEF Well, TypeOK
<1>7. PacketsStored'
  <2>1. \A e \in Nadk : tx'[e] = IF e = d THEN ring ELSE tx[e]
    BY <1>5 DEF Well, TypeOK
  <2> QED
    BY <1>3, <1>5, <2>1, ContentsPrime DEF Well, PacketsStored
<1> QED
  BY <1>6, <1>7 DEF Well

(* The driver of a loopback, and the frames it frees.                          *)
LEMMA WellLoopback ==
  ASSUME Well, NEW d \in Devices, fp_nadk_xloopback(d, Target(d))
  PROVE  Well'
<1>1. d \in Nadk /\ queue[d] \in Seq(Frames) /\ rx[d] \in Rings /\ Target(d) \in Devices
  BY Targets DEF Well, TypeOK, fp_nadk_xloopback
<1>2. PICK received \in nadk_receive(d) : \E sent \in nadk_send(received) :
        LET pkt_buf == SubSeq(queue[d], 1, received) IN
          /\ queue' = [queue EXCEPT ![d] = SubSeq(@, received + 1, Len(@))]
          /\ out' = [out EXCEPT ![Target(d)] = @ \o SubSeq(pkt_buf, 1, sent)]
          /\ dropped' = dropped \cup Unsent(pkt_buf, sent)
  BY DEF fp_nadk_xloopback
<1> DEFINE pkt_buf == SubSeq(queue[d], 1, received)
<1>3. PICK sent \in nadk_send(received) :
        /\ queue' = [queue EXCEPT ![d] = SubSeq(@, received + 1, Len(@))]
        /\ out' = [out EXCEPT ![Target(d)] = @ \o SubSeq(pkt_buf, 1, sent)]
        /\ dropped' = dropped \cup Unsent(pkt_buf, sent)
  BY <1>2
<1>4. received \in 0 .. Len(queue[d])
  BY <1>1, ReceiveBounds
<1>5. pkt_buf \in Seq(Frames) /\ Len(pkt_buf) = received
      /\ SubSeq(queue[d], received + 1, Len(queue[d])) \in Seq(Frames)
  BY <1>1, <1>4, FirstAndRest
<1>6. sent \in 0 .. Len(pkt_buf)
  <2>1. sent \in nadk_send(received)
    BY <1>3
  <2> QED
    BY <1>4, <1>5, <2>1 DEF nadk_send, Min2
<1> HIDE DEF pkt_buf
<1>7. SubSeq(pkt_buf, 1, sent) \in Seq(Frames)
  BY <1>5, <1>6, FirstAndRest
<1>8. Unsent(pkt_buf, sent) \subseteq Frames
  <2>1. \A i \in sent + 1 .. Len(pkt_buf) : i \in 1 .. Len(pkt_buf)
    BY <1>5, <1>6
  <2>2. \A i \in 1 .. Len(pkt_buf) : pkt_buf[i] \in Frames
    BY <1>5
  <2> QED
    BY <2>1, <2>2 DEF Unsent
<1>9. turn' = Other(turn) /\ UNCHANGED <<test, arrived, rx, tx, hand, freed>>
  BY DEF fp_nadk_xloopback
<1>10. TypeOK'
  <2>1. out[Target(d)] \o SubSeq(pkt_buf, 1, sent) \in Seq(Frames)
    BY <1>1, <1>7, ConcatProperties DEF Well, TypeOK
  <2>2. out' \in [Devices -> Seq(Frames)] /\ queue' \in [Devices -> Seq(Frames)]
    BY <1>1, <1>5, <1>3, <2>1 DEF Well, TypeOK
  <2> QED
    BY <1>3, <1>8, <1>9, <2>2, Targets DEF Well, TypeOK
<1>11. PacketsStored'
  BY <1>9, ContentsPrime DEF Well, PacketsStored
<1> QED
  BY <1>10, <1>11 DEF Well

(* Receiving from a UDP device, and sending on one.                            *)
LEMMA WellUdp ==
  ASSUME Well, NEW d \in Devices, fp_udp_recv(d) \/ fp_udp_send(d)
  PROVE  Well'
<1>1. UNCHANGED <<test, arrived, rx, tx, dropped>>
  BY DEF fp_udp_recv, fp_udp_send
<1>2. PacketsStored'
  BY <1>1, ContentsPrime DEF Well, PacketsStored
<1>5. CASE fp_udp_recv(d) /\ turn' = Other(d) /\ UNCHANGED <<queue, hand, freed>>
  <2>1. UNCHANGED out
    BY <1>5 DEF fp_udp_recv
  <2> QED
    BY <1>1, <1>2, <1>5, <2>1, Targets DEF Well, TypeOK
<1>3. CASE fp_udp_recv(d) /\ queue[d] # <<>> /\ UNCHANGED turn
           /\ queue' = [queue EXCEPT ![d] = Tail(@)]
           /\ hand' = fp_packet_create(Head(queue[d]), "alloc") /\ freed' \subseteq freed
  <2>1. queue[d] \in Seq(Frames) /\ queue[d] # <<>>
    BY <1>3 DEF Well, TypeOK, fp_udp_recv
  <2>2. Head(queue[d]) \in Frames /\ Tail(queue[d]) \in Seq(Frames)
    BY <2>1, HeadTailProperties
  <2>3. fp_packet_create(Head(queue[d]), "alloc") \in Packets
    BY <2>2 DEF fp_packet_create, Packets
  <2>4. /\ queue' = [queue EXCEPT ![d] = Tail(@)]
        /\ hand' \in Packets /\ freed' \subseteq freed
        /\ UNCHANGED <<turn, out>>
    BY <1>3, <2>3 DEF fp_udp_recv
  <2>5. queue' \in [Devices -> Seq(Frames)]
    BY <2>2, <2>4 DEF Well, TypeOK
  <2> QED
    BY <1>1, <1>2, <2>4, <2>5 DEF Well, TypeOK
<1>4. CASE fp_udp_send(d)
  <2>1. hand \in Packets /\ hand.frame \in Frames
    BY <1>4, FramesOfOne DEF Well, TypeOK, fp_udp_send
  <2>2. Append(out[d], hand.frame) \in Seq(Frames) /\ Append(queue[d], hand.frame) \in Seq(Frames)
    BY <2>1 DEF Well, TypeOK
  <2>3. /\ out' = out \/ out' = [out EXCEPT ![d] = Append(@, hand.frame)]
        /\ queue' = queue \/ queue' = [queue EXCEPT ![d] = Append(@, hand.frame)]
        /\ freed' = freed \/ freed' = freed \cup {hand}
        /\ hand' = Null /\ turn' = Other(turn)
    BY <1>4 DEF fp_udp_send
  <2>4. out' \in [Devices -> Seq(Frames)] /\ queue' \in [Devices -> Seq(Frames)]
    BY <2>2, <2>3 DEF Well, TypeOK
  <2> QED
    BY <1>1, <1>2, <2>1, <2>3, <2>4, Targets DEF Well, TypeOK
<1> QED
  BY <1>3, <1>4, <1>5 DEF fp_udp_recv

(* A frame from outside.                                                       *)
LEMMA WellArrive ==
  ASSUME Well, NEW d \in Devices, Arrive(d)
  PROVE  Well'
<1>1. arrived[d] \in 0 .. MaxFrames /\ arrived[d] < MaxFrames /\ MaxFrames \in Nat
  BY NadkAssumption DEF Arrive, Well, TypeOK
<1>2. [dev |-> d, n |-> arrived[d] + 1] \in Frames
  BY <1>1 DEF Frames
<1>3. /\ arrived' = [arrived EXCEPT ![d] = arrived[d] + 1]
      /\ queue' = [queue EXCEPT ![d] = Append(queue[d], [dev |-> d, n |-> arrived[d] + 1])]
      /\ UNCHANGED <<test, rx, tx, turn, hand, out, dropped, freed>>
  BY DEF Arrive
<1>4. arrived' \in [Devices -> 0 .. MaxFrames]
  BY <1>1, <1>3 DEF Well, TypeOK
<1>5. Append(queue[d], [dev |-> d, n |-> arrived[d] + 1]) \in Seq(Frames)
  BY <1>2 DEF Well, TypeOK
<1>6. queue' \in [Devices -> Seq(Frames)]
  BY <1>3, <1>5 DEF Well, TypeOK
<1>7. PacketsStored'
  BY <1>3, ContentsPrime DEF Well, PacketsStored
<1> QED
  BY <1>3, <1>4, <1>6, <1>7 DEF Well, TypeOK

(* Every step keeps the state well formed.                                     *)
LEMMA WellNext == Well /\ [Next]_vars => Well'
<1> SUFFICES ASSUME Well, [Next]_vars PROVE Well'
  OBVIOUS
<1>1. ASSUME NEW d \in Devices, fp_nadk_recv(d) PROVE Well'
  BY <1>1, WellRecv
<1>2. ASSUME NEW d \in Devices, fp_nadk_send(d) PROVE Well'
  BY <1>2, WellSend
<1>3. ASSUME NEW d \in Devices, fp_udp_recv(d) \/ fp_udp_send(d) PROVE Well'
  BY <1>3, WellUdp
<1>4. ASSUME NEW d \in Devices, fp_nadk_xloopback(d, Target(d)) PROVE Well'
  BY <1>4, WellLoopback
<1>5. ASSUME NEW d \in Devices, Arrive(d) PROVE Well'
  BY <1>5, WellArrive
<1>6. CASE UNCHANGED vars
  BY <1>6, ContentsPrime DEF vars, Well, TypeOK, PacketsStored
<1> QED
  BY <1>1, <1>2, <1>3, <1>4, <1>5, <1>6 DEF Next, Step

(* The state of the packet path stays well formed: frames are only on the     *)
(* wire, in a queue or in a packet of the driver or of malloc, and the rings'  *)
(* indices stay inside their arrays (port_nadk.c:446-702).                     *)
THEOREM NadkTypeCorrect == Spec => []TypeOK
<1>1. Well => TypeOK
  BY DEF Well
<1> QED
  BY WellInit, WellNext, <1>1, PTL DEF Spec

-----------------------------------------------------------------------------
(* Order *)

(* Concatenation, under a name the provers take as it is.                      *)
Cat(s, t) == s \o t

(* Concatenation is associative, and the empty sequence adds nothing.          *)
LEMMA CatAssoc ==
  ASSUME NEW S, NEW u \in Seq(S), NEW v \in Seq(S), NEW w \in Seq(S)
  PROVE  Cat(u, v) \in Seq(S) /\ Cat(Cat(u, v), w) = Cat(u, Cat(v, w))
BY ConcatAssociative, ConcatProperties DEF Cat

LEMMA CatEmpty ==
  ASSUME NEW S, NEW u \in Seq(S)
  PROVE  Cat(<<>>, u) = u /\ Cat(u, <<>>) = u
BY ConcatEmptySeq DEF Cat

(* A line: what is sent, in the transmit ring, in hand, in the receive ring     *)
(* and in the queue of the driver.                                             *)
Joined(o, t, h, r, q) == Cat(o, Cat(t, Cat(h, Cat(r, q))))

(* A sequence goes to the end of a line.                                       *)
LEMMA AppendToLine ==
  ASSUME NEW S, NEW o \in Seq(S), NEW t \in Seq(S), NEW h \in Seq(S), NEW r \in Seq(S),
         NEW q \in Seq(S), NEW x \in Seq(S)
  PROVE  Joined(o, t, h, r, Cat(q, x)) = Cat(Joined(o, t, h, r, q), x)
BY CatAssoc DEF Joined

(* A transmit ring never holds a full batch between two packets, so that the   *)
(* next one has room.                                                          *)
Room == Willing => \A d \in Nadk : fp_ring_count(tx[d]) < Budget

IInv == Well /\ Room /\ ForwardedInOrder

(* All the frames of d, the first sent first.                                  *)
Line(d) == out[Target(d)] \o Queued(d)

(* The state after a step.                                                     *)
LEMMA LinePrime ==
  ASSUME UNCHANGED test, NEW d
  PROVE  /\ Target(d)' = Target(d) /\ Ringed' = Ringed /\ Willing' = Willing
         /\ Line(d)' = Joined(out'[Target(d)], FramesOf(Contents(tx'[Target(d)])), InHand(d)',
                              FramesOf(Contents(rx'[d])), queue'[d])
<1>1. Target(d)' = Target(d) /\ Ringed' = Ringed /\ Willing' = Willing
  BY DEF Target, Ringed, Willing
<1>2. FramesOf(Contents(rx[d]))' = FramesOf(Contents(rx'[d]))
  BY DEF FramesOf, Contents, Oldest, fp_ring_count, Steps, Slot
<1>3. FramesOf(Contents(tx[Target(d)]))' = FramesOf(Contents(tx'[Target(d)]))
  BY <1>1 DEF FramesOf, Contents, Oldest, fp_ring_count, Steps, Slot
<1> QED
  BY <1>1, <1>2, <1>3 DEF Line, Queued, Joined, Cat

(* The parts of a line are sequences of frames.                                *)
LEMMA Parts ==
  ASSUME Well, Willing, NEW d \in Devices
  PROVE  /\ d \in Nadk /\ Target(d) \in Nadk
         /\ out[Target(d)] \in Seq(Frames)
         /\ FramesOf(Contents(tx[Target(d)])) \in Seq(Frames)
         /\ InHand(d) \in Seq(Frames)
         /\ FramesOf(Contents(rx[d])) \in Seq(Frames)
         /\ queue[d] \in Seq(Frames)
<1>1. d \in Nadk /\ Target(d) \in Nadk /\ Target(d) \in Devices
  BY Targets DEF Willing, Nadk
<1>2. Contents(tx[Target(d)]) \in Seq(Packets) /\ Contents(rx[d]) \in Seq(Packets)
  BY <1>1 DEF Well, PacketsStored
<1>3. InHand(d) \in Seq(Frames)
  <2>1. hand # Null => hand.frame \in Frames
    BY FramesOfOne DEF Well, TypeOK
  <2> QED
    BY <2>1 DEF InHand
<1> QED
  BY <1>1, <1>2, <1>3, FramesOfSeq DEF Well, TypeOK

(* At the start every line is empty, as nothing has arrived.                   *)
LEMMA IInvInit == Init => IInv
<1> SUFFICES ASSUME Init PROVE IInv
  OBVIOUS
<1>1. Well
  BY WellInit
<1>2. Room
  BY NewRing, Sizes DEF Init, Room
<1>3. ASSUME Willing, NEW d \in Devices
      PROVE  Line(d) = Arrivals(d)
  <2>1. d \in Nadk /\ Target(d) \in Nadk /\ Target(d) \in Devices
    BY <1>3, Targets DEF Willing, Nadk
  <2>2. /\ out[Target(d)] = <<>> /\ queue[d] = <<>> /\ InHand(d) = <<>> /\ arrived[d] = 0
        /\ tx[Target(d)] = fp_ring_new /\ rx[d] = fp_ring_new
    BY <1>3, <2>1 DEF Init, InHand
  <2>3. FramesOf(Contents(fp_ring_new)) = <<>>
    BY NewRing, FramesOfNone, Zenon
  <2>4. Line(d) = <<>> \o (<<>> \o (<<>> \o (<<>> \o <<>>)))
    BY <2>2, <2>3, Zenon DEF Line, Queued
  <2>5. Arrivals(d) = <<>>
    BY <2>2 DEF Arrivals
  <2> QED
    BY <2>4, <2>5
<1> QED
  BY <1>1, <1>2, <1>3 DEF IInv, ForwardedInOrder, Line

(* A frame from outside goes to the end of the line.                           *)
LEMMA LineArrive ==
  ASSUME Well, Willing, NEW d \in Devices, Arrive(d), NEW e \in Devices,
         Line(e) = Arrivals(e)
  PROVE  Line(e)' = Arrivals(e)'
<1> DEFINE x == [dev |-> d, n |-> arrived[d] + 1]
           o == out[Target(e)]
           t == FramesOf(Contents(tx[Target(e)]))
           h == InHand(e)
           r == FramesOf(Contents(rx[e]))
           q == queue[e]
<1>1. /\ arrived' = [arrived EXCEPT ![d] = arrived[d] + 1]
      /\ queue' = [queue EXCEPT ![d] = Append(queue[d], x)]
      /\ UNCHANGED <<test, rx, tx, turn, hand, out, dropped, freed>>
      /\ arrived[d] \in Nat
  BY NadkAssumption DEF Arrive, Well, TypeOK
<1>2. x \in Frames /\ <<x>> \in Seq(Frames)
  <2>1. arrived[d] < MaxFrames /\ MaxFrames \in Nat
    BY NadkAssumption DEF Arrive
  <2> QED
    BY <1>1, <2>1 DEF Frames
<1>3. /\ o \in Seq(Frames) /\ t \in Seq(Frames) /\ h \in Seq(Frames)
      /\ r \in Seq(Frames) /\ q \in Seq(Frames)
  BY Parts
<1>4. InHand(e)' = h
  BY <1>1 DEF InHand
<1>5. Line(e)' = Joined(o, t, h, r, queue'[e])
  BY <1>1, <1>4, LinePrime
<1>6. Line(e) = Joined(o, t, h, r, q)
  BY DEF Line, Queued, Joined, Cat
<1>7. CASE e # d
  <2>1. queue'[e] = q /\ arrived'[e] = arrived[e]
    BY <1>1, <1>7 DEF Well, TypeOK
  <2>2. Arrivals(e)' = Arrivals(e)
    BY <2>1 DEF Arrivals
  <2> QED
    BY <1>5, <1>6, <2>1, <2>2
<1>8. CASE e = d
  <2>1. queue'[e] = Cat(q, <<x>>) /\ arrived'[e] = arrived[e] + 1
    <3>1. queue'[e] = Append(q, x) /\ arrived'[e] = arrived[e] + 1
      BY <1>1, <1>8 DEF Well, TypeOK
    <3> HIDE DEF q, x
    <3>2. Append(q, x) = Cat(q, <<x>>)
      BY <1>2, <1>3 DEF Cat
    <3> QED
      BY <3>1, <3>2
  <2> HIDE DEF o, t, h, r, q, x
  <2>2. Joined(o, t, h, r, Cat(q, <<x>>)) = Cat(Joined(o, t, h, r, q), <<x>>)
    <3> DEFINE y == <<x>>
    <3>1. y \in Seq(Frames)
      BY <1>2
    <3> HIDE DEF y
    <3>2. Joined(o, t, h, r, Cat(q, y)) = Cat(Joined(o, t, h, r, q), y)
      BY <1>3, <3>1, AppendToLine
    <3> QED
      BY <3>2 DEF y
  <2>3. Line(e)' = Cat(Arrivals(e), <<x>>)
    BY <1>5, <1>6, <1>8, <2>1, <2>2, Zenon
  <2>4. Cat(Arrivals(e), <<x>>) = [i \in 1 .. arrived[e] + 1 |-> [dev |-> e, n |-> i]]
    <3>1. arrived[e] \in Nat /\ x = [dev |-> e, n |-> arrived[e] + 1]
      BY <1>1, <1>8 DEF x
    <3> QED
      BY <3>1 DEF Arrivals, Cat
  <2>5. Arrivals(e)' = [i \in 1 .. arrived[e] + 1 |-> [dev |-> e, n |-> i]]
    BY <2>1 DEF Arrivals
  <2> QED
    BY <2>3, <2>4, <2>5
<1> QED
  BY <1>7, <1>8

(* Receiving moves frames: from the queue to the ring, and from the ring to the *)
(* hand.                                                                       *)
LEMMA RecvMoves ==
  ASSUME Well, NEW d \in Devices, fp_nadk_recv(d)
  PROVE  /\ d \in Nadk
         /\ UNCHANGED <<test, arrived, tx, out, dropped, freed>>
         /\ \A e \in Devices : InHand(e) = <<>> /\ (e # d => InHand(e)' = <<>>)
         /\ \E ring \in Rings, v \in Seq(Frames) :
              /\ rx' = [rx EXCEPT ![d] = ring] /\ queue' = [queue EXCEPT ![d] = v]
              /\ FramesOf(Contents(ring)) \in Seq(Frames) /\ InHand(d)' \in Seq(Frames)
              /\ Cat(InHand(d)', Cat(FramesOf(Contents(ring)), v))
                   = Cat(FramesOf(Contents(rx[d])), queue[d])
<1>1. /\ d \in Nadk /\ rx[d] \in Rings /\ Contents(rx[d]) \in Seq(Packets)
      /\ queue[d] \in Seq(Frames) /\ turn = d /\ hand = Null
      /\ UNCHANGED <<test, arrived, tx, out, dropped, freed>>
  BY DEF Well, TypeOK, PacketsStored, fp_nadk_recv
<1>2. PICK k \in IF Low(rx[d]) THEN nadk_receive(d) ELSE {0} :
        LET popped == fp_ring_pop(fp_nadk_recv_batch(d, k)) IN
          /\ queue' = [queue EXCEPT ![d] = SubSeq(@, k + 1, Len(@))]
          /\ rx' = [rx EXCEPT ![d] = popped.r]
          /\ \/ popped.n = 1 /\ hand' = popped.out[1] /\ UNCHANGED turn
             \/ popped.n = 0 /\ turn' = Other(d) /\ UNCHANGED hand
  BY DEF fp_nadk_recv
<1> DEFINE R == fp_nadk_recv_batch(d, k)
           popped == fp_ring_pop(R)
           b == FramesOf(Contents(R))
           u == FramesOf(Contents(popped.r))
           v == SubSeq(queue[d], k + 1, Len(queue[d]))
           f == InHand(d)'
<1>3. k \in 0 .. Len(queue[d]) /\ fp_ring_count(rx[d]) + k < 2 * Budget
  BY <1>1, <1>2, ReceiveBounds
<1>4. /\ R \in Rings /\ Contents(R) \in Seq(Packets)
      /\ b \o v = FramesOf(Contents(rx[d])) \o queue[d]
  BY <1>1, <1>3, RecvBatch
<1>5. /\ queue' = [queue EXCEPT ![d] = v]
      /\ rx' = [rx EXCEPT ![d] = popped.r]
      /\ \/ popped.n = 1 /\ hand' = popped.out[1] /\ UNCHANGED turn
         \/ popped.n = 0 /\ turn' = Other(d) /\ UNCHANGED hand
  BY <1>2
<1>6. v \in Seq(Frames)
  BY <1>1, <1>3, FirstAndRest
<1> HIDE DEF R
<1>7. /\ popped.r \in Rings /\ Contents(popped.r) \in Seq(Packets)
      /\ popped.n = 1 => /\ popped.out[1] \in Packets
                         /\ Contents(R) = <<popped.out[1]>> \o Contents(popped.r)
      /\ popped.n = 0 => Contents(R) = <<>> /\ Contents(popped.r) = <<>>
  BY <1>4, PopOne
<1> HIDE DEF popped
<1>8. b \in Seq(Frames) /\ u \in Seq(Frames)
  BY <1>4, <1>7, FramesOfSeq
<1>9. \A e \in Devices : InHand(e) = <<>> /\ (e # d => InHand(e)' = <<>>)
  BY <1>1, <1>5 DEF InHand
<1>10. f \in Seq(Frames) /\ b = Cat(f, u)
  <2>1. CASE popped.n = 1
    <3>1. popped.out[1] \in Packets /\ popped.out[1] # Null
      BY <1>7, <2>1, Sizes
    <3>2. f = <<popped.out[1].frame>>
      BY <1>1, <1>5, <2>1, <3>1 DEF InHand
    <3>3. /\ FramesOf(<<popped.out[1]>>) = <<popped.out[1].frame>>
          /\ popped.out[1].frame \in Frames
      BY <3>1, FramesOfOne
    <3>4. <<popped.out[1]>> \in Seq(Packets)
      BY <3>1
    <3> DEFINE g == FramesOf(<<popped.out[1]>>)
    <3>5. b = g \o u /\ g \in Seq(Frames)
      BY <1>7, <2>1, <3>4, FramesOfSeq
    <3>6. f = g
      BY <3>2, <3>3
    <3> HIDE DEF b, u, g, f
    <3> QED
      BY <3>5, <3>6 DEF Cat
  <2>2. CASE popped.n = 0
    <3>1. f = <<>>
      BY <1>1, <1>5, <2>2 DEF InHand
    <3>2. b = <<>> /\ u = <<>>
      BY <1>7, <2>2, FramesOfNone
    <3> QED
      BY <3>1, <3>2 DEF Cat
  <2> QED
    BY <1>5, <2>1, <2>2
<1>11. Cat(b, v) = Cat(FramesOf(Contents(rx[d])), queue[d])
  BY <1>4 DEF Cat
<1> HIDE DEF b, u, v, f
<1>12. Cat(f, Cat(u, v)) = Cat(FramesOf(Contents(rx[d])), queue[d])
  BY <1>6, <1>8, <1>10, <1>11, CatAssoc
<1>13. /\ popped.r \in Rings /\ v \in Seq(Frames)
       /\ rx' = [rx EXCEPT ![d] = popped.r] /\ queue' = [queue EXCEPT ![d] = v]
       /\ FramesOf(Contents(popped.r)) \in Seq(Frames) /\ InHand(d)' \in Seq(Frames)
       /\ Cat(InHand(d)', Cat(FramesOf(Contents(popped.r)), v))
            = Cat(FramesOf(Contents(rx[d])), queue[d])
  BY <1>5, <1>6, <1>7, <1>8, <1>10, <1>12 DEF f, u
<1> QED
  BY <1>1, <1>9, <1>13

(* So it moves frames along the line.                                          *)
LEMMA LineRecv ==
  ASSUME Well, Willing, NEW d \in Devices, fp_nadk_recv(d), NEW e \in Devices
  PROVE  Line(e)' = Line(e)
<1> DEFINE o == out[Target(e)]
           t == FramesOf(Contents(tx[Target(e)]))
           r == FramesOf(Contents(rx[e]))
           q == queue[e]
<1>1. /\ UNCHANGED <<test, tx, out>>
      /\ InHand(e) = <<>> /\ (e # d => InHand(e)' = <<>>)
  BY RecvMoves
<1>2. PICK ring \in Rings, v \in Seq(Frames) :
        /\ rx' = [rx EXCEPT ![d] = ring] /\ queue' = [queue EXCEPT ![d] = v]
        /\ FramesOf(Contents(ring)) \in Seq(Frames) /\ InHand(d)' \in Seq(Frames)
        /\ Cat(InHand(d)', Cat(FramesOf(Contents(ring)), v))
             = Cat(FramesOf(Contents(rx[d])), queue[d])
  BY RecvMoves
<1>3. /\ o \in Seq(Frames) /\ t \in Seq(Frames) /\ r \in Seq(Frames) /\ q \in Seq(Frames)
      /\ e \in Nadk
  BY Parts
<1>4. Line(e) = Joined(o, t, <<>>, r, q)
  BY <1>1 DEF Line, Queued, Joined, Cat
<1>5. Line(e)' = Joined(o, t, InHand(e)', FramesOf(Contents(rx'[e])), queue'[e])
  BY <1>1, LinePrime
<1>6. CASE e # d
  <2>1. queue'[e] = queue[e] /\ rx'[e] = rx[e]
    BY <1>2, <1>6 DEF Well, TypeOK
  <2> QED
    BY <1>1, <1>4, <1>5, <1>6, <2>1
<1>7. CASE e = d
  <2> DEFINE f == InHand(e)'
             u == FramesOf(Contents(ring))
  <2>1. queue'[e] = v /\ rx'[e] = ring
    BY <1>2, <1>3, <1>7 DEF Well, TypeOK
  <2>2. Cat(f, Cat(u, v)) = Cat(r, q)
    BY <1>2, <1>7
  <2> HIDE DEF o, t, r, q, u, f
  <2>3. Cat(<<>>, Cat(r, q)) = Cat(r, q)
    BY <1>3, CatAssoc, CatEmpty
  <2>4. Joined(o, t, f, u, v) = Joined(o, t, <<>>, r, q)
    BY <2>2, <2>3 DEF Joined
  <2>5. Line(e)' = Joined(o, t, f, u, v)
    BY <1>5, <2>1 DEF f, u
  <2> QED
    BY <1>4, <2>4, <2>5
<1> QED
  BY <1>6, <1>7

(* Sending moves frames: the one in hand to the ring, if it has room, and those *)
(* the driver takes from the ring to the wire.                                 *)
LEMMA SendMoves ==
  ASSUME Well, NEW d \in Devices, fp_nadk_send(d)
  PROVE  /\ d \in Nadk /\ Target(turn) = d /\ turn \in Devices
         /\ hand \in Packets /\ hand' = Null
         /\ UNCHANGED <<test, arrived, queue, rx, dropped>>
         /\ \E ring \in Rings, s \in Seq(Frames) :
              LET t == FramesOf(Contents(tx[d]))
                  u == FramesOf(Contents(ring))
              IN  /\ tx' = [tx EXCEPT ![d] = ring] /\ Contents(ring) \in Seq(Packets)
                  /\ out' = [out EXCEPT ![d] = Cat(@, s)]
                  /\ Cat(s, u) = Cat(t, <<hand.frame>>) \/ Cat(s, u) = t
                  /\ Driver = {} /\ fp_ring_count(tx[d]) < Budget =>
                       Cat(s, u) = Cat(t, <<hand.frame>>) /\ fp_ring_count(ring) < Budget
<1>1. /\ d \in Nadk /\ tx[d] \in Rings /\ Contents(tx[d]) \in Seq(Packets) /\ hand \in Packets
      /\ freed \subseteq Packets /\ turn \in Devices /\ Target(turn) = d
      /\ out \in [Devices -> Seq(Frames)] /\ tx \in [Nadk -> Rings]
      /\ hand' = Null /\ UNCHANGED <<test, arrived, queue, rx, dropped>>
  BY DEF Well, TypeOK, PacketsStored, fp_nadk_send
<1> DEFINE P == fp_ring_push(tx[d], hand)
           t == FramesOf(Contents(tx[d]))
           p == FramesOf(Contents(P.r))
<1>2. fp_ring_count(tx[d]) \in 0 .. 2 * Budget - 1 /\ Budget \in Nat \ {0}
  BY <1>1, CountContents, Sizes
<1>3. /\ P.r \in Rings /\ Contents(P.r) \in Seq(Packets)
      /\ fp_ring_count(tx[d]) < 2 * Budget - 1 =>
           /\ Contents(P.r) = Contents(tx[d]) \o <<hand>>
           /\ fp_ring_count(P.r) = fp_ring_count(tx[d]) + 1
      /\ ~(fp_ring_count(tx[d]) < 2 * Budget - 1) => P.r = tx[d]
  <2>1. ~(fp_ring_count(tx[d]) < 2 * Budget - 1) => P.r = tx[d]
    BY DEF fp_ring_push, Returns
  <2> QED
    BY <1>1, <2>1, PushOne
<1>4. \/ fp_nadk_send_batch(d, P.r)
      \/ ~Due(P.r) /\ tx' = [tx EXCEPT ![d] = P.r] /\ UNCHANGED <<out, freed>>
  BY DEF fp_nadk_send
<1> HIDE DEF P
<1>5. /\ p = Cat(t, <<hand.frame>>) \/ p = t
      /\ fp_ring_count(tx[d]) < Budget => p = Cat(t, <<hand.frame>>)
  <2>1. CASE fp_ring_count(tx[d]) < 2 * Budget - 1
    <3>1. <<hand>> \in Seq(Packets) /\ FramesOf(<<hand>>) = <<hand.frame>>
      BY <1>1, FramesOfOne
    <3>2. p = t \o FramesOf(<<hand>>)
      BY <1>1, <1>3, <2>1, <3>1, FramesOfSeq
    <3> HIDE DEF p, t
    <3> QED
      BY <3>1, <3>2 DEF Cat
  <2>2. CASE ~(fp_ring_count(tx[d]) < 2 * Budget - 1)
    <3>1. p = t
      BY <1>3, <2>2
    <3>2. ~(fp_ring_count(tx[d]) < Budget)
      BY <1>2, <2>2
    <3> QED
      BY <3>1, <3>2
  <2> QED
    BY <2>1, <2>2
<1>6. \E ring \in Rings, s \in Seq(Frames) :
        /\ tx' = [tx EXCEPT ![d] = ring] /\ Contents(ring) \in Seq(Packets)
        /\ out' = [out EXCEPT ![d] = Cat(@, s)]
        /\ p = Cat(s, FramesOf(Contents(ring)))
        /\ Driver = {} /\ fp_ring_count(tx[d]) < Budget => fp_ring_count(ring) < Budget
  <2>1. CASE fp_nadk_send_batch(d, P.r)
    <3>1. PICK ring \in Rings, s \in Seq(Frames) :
            /\ tx' = [tx EXCEPT ![d] = ring]
            /\ out' = [out EXCEPT ![d] = @ \o s]
            /\ Contents(ring) \in Seq(Packets)
            /\ p = s \o FramesOf(Contents(ring))
            /\ Driver = {} /\ fp_ring_count(P.r) > 0 => fp_ring_count(ring) < fp_ring_count(P.r)
      BY <1>1, <1>3, <2>1, SendBatch
    <3>2. fp_ring_count(ring) \in Nat
      BY CountContents
    <3>3. Driver = {} /\ fp_ring_count(tx[d]) < Budget => fp_ring_count(ring) < Budget
      BY <1>2, <1>3, <3>1, <3>2
    <3> HIDE DEF p
    <3> QED
      BY <3>1, <3>3 DEF Cat
  <2>2. CASE ~Due(P.r) /\ tx' = [tx EXCEPT ![d] = P.r] /\ UNCHANGED <<out, freed>>
    <3>1. fp_ring_count(P.r) < Budget
      <4>1. fp_ring_count(P.r) \in Nat
        BY <1>3, CountContents
      <4> QED
        BY <1>2, <2>2, <4>1 DEF Due
    <3>2. out[d] \in Seq(Frames) /\ p \in Seq(Frames)
      BY <1>1, <1>3, FramesOfSeq
    <3> HIDE DEF p
    <3>3. <<>> \in Seq(Frames) /\ Cat(out[d], <<>>) = out[d] /\ p = Cat(<<>>, p)
      BY <3>2, CatEmpty
    <3>4. out' = [out EXCEPT ![d] = Cat(@, <<>>)]
      BY <1>1, <2>2, <3>3
    <3> QED
      BY <1>3, <2>2, <3>1, <3>3, <3>4 DEF p
  <2> QED
    BY <1>4, <2>1, <2>2
<1>7. PICK ring \in Rings, s \in Seq(Frames) :
        /\ tx' = [tx EXCEPT ![d] = ring] /\ Contents(ring) \in Seq(Packets)
        /\ out' = [out EXCEPT ![d] = Cat(@, s)]
        /\ p = Cat(s, FramesOf(Contents(ring)))
        /\ Driver = {} /\ fp_ring_count(tx[d]) < Budget => fp_ring_count(ring) < Budget
  BY <1>6
<1> HIDE DEF p
<1>8. LET u == FramesOf(Contents(ring))
      IN  /\ Cat(s, u) = Cat(t, <<hand.frame>>) \/ Cat(s, u) = t
          /\ Driver = {} /\ fp_ring_count(tx[d]) < Budget =>
               Cat(s, u) = Cat(t, <<hand.frame>>) /\ fp_ring_count(ring) < Budget
  BY <1>5, <1>7
<1> QED
  BY <1>1, <1>7, <1>8

(* With a willing driver it moves them along the line, and leaves room for the  *)
(* next packet.                                                                *)
LEMMA LineSend ==
  ASSUME Well, Willing, Room, NEW d \in Devices, fp_nadk_send(d)
  PROVE  Room' /\ \A e \in Devices : Line(e)' = Line(e)
<1>1. /\ d \in Nadk /\ Target(turn) = d /\ turn \in Devices
      /\ hand \in Packets /\ hand' = Null
      /\ UNCHANGED <<test, arrived, queue, rx, dropped>>
      /\ out \in [Devices -> Seq(Frames)] /\ tx \in [Nadk -> Rings]
  BY SendMoves DEF Well, TypeOK
<1>2. PICK ring \in Rings, s \in Seq(Frames) :
        LET t == FramesOf(Contents(tx[d]))
            u == FramesOf(Contents(ring))
        IN  /\ tx' = [tx EXCEPT ![d] = ring] /\ Contents(ring) \in Seq(Packets)
            /\ out' = [out EXCEPT ![d] = Cat(@, s)]
            /\ Cat(s, u) = Cat(t, <<hand.frame>>) \/ Cat(s, u) = t
            /\ Driver = {} /\ fp_ring_count(tx[d]) < Budget =>
                 Cat(s, u) = Cat(t, <<hand.frame>>) /\ fp_ring_count(ring) < Budget
  BY SendMoves
<1>3. /\ Cat(s, FramesOf(Contents(ring))) = Cat(FramesOf(Contents(tx[d])), <<hand.frame>>)
      /\ fp_ring_count(ring) < Budget
  BY <1>1, <1>2 DEF Room, Willing
<1>4. Room'
  <2>1. \A e \in Nadk : fp_ring_count(tx'[e]) < Budget
    BY <1>1, <1>2, <1>3 DEF Room
  <2> QED
    BY <2>1, ContentsPrime DEF Room
<1>5. ASSUME NEW e \in Devices
      PROVE  Line(e)' = Line(e)
  <2> DEFINE o == out[Target(e)]
             t == FramesOf(Contents(tx[Target(e)]))
             f == InHand(e)
             r == FramesOf(Contents(rx[e]))
             q == queue[e]
             u == FramesOf(Contents(ring))
  <2>1. /\ o \in Seq(Frames) /\ t \in Seq(Frames) /\ f \in Seq(Frames)
        /\ r \in Seq(Frames) /\ q \in Seq(Frames) /\ Target(e) \in Nadk
    BY <1>5, Parts
  <2>2. Line(e) = Joined(o, t, f, r, q)
    BY DEF Line, Queued, Joined, Cat
  <2>3. InHand(e)' = <<>>
    BY <1>1 DEF InHand
  <2>4. Line(e)' = Joined(out'[Target(e)], FramesOf(Contents(tx'[Target(e)])), <<>>, r, q)
    BY <1>1, <2>3, LinePrime
  <2>5. CASE e # turn
    <3>1. Target(e) # d /\ Target(e) \in Devices
      BY <1>1, <1>5, <2>5, Targets
    <3>2. out'[Target(e)] = o /\ tx'[Target(e)] = tx[Target(e)]
      BY <1>1, <1>2, <2>1, <3>1
    <3>3. f = <<>>
      BY <2>5 DEF InHand
    <3> QED
      BY <2>2, <2>4, <3>2, <3>3
  <2>6. CASE e = turn
    <3>1. Target(e) = d
      BY <1>1, <2>6
    <3>2. out'[Target(e)] = Cat(o, s) /\ tx'[Target(e)] = ring
      BY <1>1, <1>2, <3>1
    <3>3. f = <<hand.frame>>
      BY <1>1, <2>6, Sizes DEF InHand
    <3>4. Cat(t, f) = Cat(s, u)
      BY <1>3, <3>1, <3>3
    <3>5. u \in Seq(Frames) /\ s \in Seq(Frames)
      BY <1>2, FramesOfSeq
    <3> HIDE DEF o, t, f, r, q, u
    <3>6. Joined(Cat(o, s), u, <<>>, r, q) = Joined(o, t, f, r, q)
      <4> DEFINE x == Cat(r, q)
      <4>1. x \in Seq(Frames)
        BY <2>1, CatAssoc
      <4> HIDE DEF x
      <4>2. Cat(<<>>, x) = x
        BY <4>1, CatEmpty
      <4>3. Cat(t, Cat(f, x)) = Cat(s, Cat(u, x))
        BY <2>1, <3>4, <3>5, <4>1, CatAssoc
      <4>4. Cat(o, Cat(s, Cat(u, x))) = Cat(Cat(o, s), Cat(u, x))
        BY <2>1, <3>5, <4>1, CatAssoc
      <4> QED
        BY <4>2, <4>3, <4>4 DEF Joined, x
    <3> QED
      BY <2>2, <2>4, <3>2, <3>6 DEF u
  <2> QED
    BY <2>5, <2>6
<1> QED
  BY <1>4, <1>5

(* The invariant is inductive: a step adds to the end of a line or moves frames *)
(* along it.                                                                   *)
LEMMA IInvNext == IInv /\ [Next]_vars => IInv'
<1> SUFFICES ASSUME IInv, [Next]_vars PROVE IInv'
  OBVIOUS
<1>1. Well /\ Room /\ ForwardedInOrder
  BY DEF IInv
<1>2. Well'
  BY <1>1, WellNext
<1>3. test' = test
  BY DEF Next, Step, Arrive, fp_nadk_recv, fp_nadk_send, fp_udp_recv, fp_udp_send,
         fp_nadk_xloopback, vars
<1>4. Willing' = Willing /\ Ringed' = Ringed
  BY <1>3 DEF Willing, Ringed
<1>5. CASE ~Willing
  BY <1>2, <1>4, <1>5 DEF IInv, Room, ForwardedInOrder
<1>6. ASSUME Willing, tx' = tx
      PROVE  Room'
  <2>1. \A d \in Nadk : fp_ring_count(tx'[d]) < Budget
    BY <1>1, <1>6 DEF Room
  <2> QED
    BY <2>1, ContentsPrime DEF Room
<1>7. CASE Willing
  <2>1. ASSUME Ringed
        PROVE  \A e \in Devices : Line(e) = Arrivals(e)
    BY <1>1, <1>7, <2>1 DEF ForwardedInOrder, Line
  <2>2. ASSUME Room', Ringed => \A e \in Devices : Line(e)' = Arrivals(e)'
        PROVE  IInv'
    BY <1>2, <1>4, <2>2 DEF IInv, ForwardedInOrder, Line
  <2>3. ASSUME NEW d \in Devices, Arrive(d)
        PROVE  IInv'
    <3>1. Room'
      BY <1>6, <1>7, <2>3 DEF Arrive
    <3>2. ASSUME Ringed, NEW e \in Devices
          PROVE  Line(e)' = Arrivals(e)'
      BY <1>1, <1>7, <2>1, <2>3, <3>2, LineArrive
    <3> QED
      BY <2>2, <3>1, <3>2
  <2>4. ASSUME arrived' = arrived, NEW e
        PROVE  Arrivals(e)' = Arrivals(e)
    BY <2>4 DEF Arrivals
  <2>5. ASSUME NEW d \in Devices, fp_nadk_recv(d)
        PROVE  IInv'
    <3>1. Room' /\ arrived' = arrived
      BY <1>6, <1>7, <2>5 DEF fp_nadk_recv
    <3>2. ASSUME Ringed, NEW e \in Devices
          PROVE  Line(e)' = Arrivals(e)'
      <4>1. Line(e)' = Line(e)
        BY <1>1, <1>7, <2>5, <3>2, LineRecv
      <4> QED
        BY <2>1, <2>4, <3>1, <3>2, <4>1
    <3> QED
      BY <2>2, <3>1, <3>2
  <2>6. ASSUME NEW d \in Devices, fp_nadk_send(d)
        PROVE  IInv'
    <3>1. Room' /\ \A e \in Devices : Line(e)' = Line(e)
      BY <1>1, <1>7, <2>6, LineSend
    <3>2. arrived' = arrived
      BY <2>6 DEF fp_nadk_send
    <3>3. ASSUME Ringed, NEW e \in Devices
          PROVE  Line(e)' = Arrivals(e)'
      BY <2>1, <2>4, <3>1, <3>2, <3>3
    <3> QED
      BY <2>2, <3>1, <3>3
  <2>7. ASSUME NEW d \in Devices, fp_udp_recv(d) \/ fp_udp_send(d)
        PROVE  IInv'
    BY <1>7, <2>7 DEF Willing, fp_udp_recv, fp_udp_send
  <2>8. ASSUME NEW d \in Devices, ~Ringed, fp_nadk_xloopback(d, Target(d))
        PROVE  IInv'
    <3>1. Room'
      BY <1>6, <1>7, <2>8 DEF fp_nadk_xloopback
    <3> QED
      BY <2>2, <2>8, <3>1
  <2>9. CASE UNCHANGED vars
    <3>1. Room' /\ arrived' = arrived
      BY <1>6, <1>7, <2>9 DEF vars
    <3>2. ASSUME Ringed, NEW e \in Devices
          PROVE  Line(e)' = Arrivals(e)'
      <4>1. Line(e)' = Line(e)
        BY <2>9 DEF vars, Line, Queued, Target, FramesOf, Contents, Oldest, Steps, Slot,
                    fp_ring_count, InHand
      <4> QED
        BY <2>1, <2>4, <3>1, <3>2, <4>1
    <3> QED
      BY <2>2, <3>1, <3>2
  <2> QED
    BY <2>3, <2>5, <2>6, <2>7, <2>8, <2>9 DEF Next, Step
<1> QED
  BY <1>5, <1>7

(* Between two NADK devices whose driver takes something of every batch, every  *)
(* frame that arrived is on the wire once, in the order of arrival, or in       *)
(* exactly one of the rings and queues on its way: fp_nadk_recv and             *)
(* fp_nadk_send lose, repeat and overtake nothing, whatever the budget, the     *)
(* number of frames and the part of a batch that the driver takes.              *)
THEOREM NadkForwardedInOrder == Spec => []ForwardedInOrder
<1>1. IInv => ForwardedInOrder
  BY DEF IInv
<1> QED
  BY IInvInit, IInvNext, <1>1, PTL DEF Spec
-----------------------------------------------------------------------------
(* Every frame once *)

(* What two sequences put together hold, and when they hold it once.           *)
LEMMA CatHolds ==
  ASSUME NEW S, NEW u \in Seq(S), NEW v \in Seq(S)
  PROVE  /\ Cat(u, v) \in Seq(S)
         /\ ToSet(Cat(u, v)) = ToSet(u) \cup ToSet(v)
         /\ IsInjective(Cat(u, v)) <=>
              IsInjective(u) /\ IsInjective(v) /\ ToSet(u) \cap ToSet(v) = {}
<1> DEFINE w == Cat(u, v)
<1>1. /\ w \in Seq(S) /\ DOMAIN w = 1 .. Len(u) + Len(v)
      /\ Len(u) \in Nat /\ Len(v) \in Nat
      /\ DOMAIN u = 1 .. Len(u) /\ DOMAIN v = 1 .. Len(v)
      /\ \A i \in 1 .. Len(u) + Len(v) : w[i] = IF i <= Len(u) THEN u[i] ELSE v[i - Len(u)]
  BY ConcatProperties DEF Cat
<1> HIDE DEF w
<1>2. \A i \in 1 .. Len(u) : i \in DOMAIN w /\ w[i] = u[i]
  BY <1>1
<1>3. \A i \in 1 .. Len(v) : i + Len(u) \in DOMAIN w /\ w[i + Len(u)] = v[i]
  <2> TAKE i \in 1 .. Len(v)
  <2>1. /\ i + Len(u) \in 1 .. Len(u) + Len(v) /\ ~(i + Len(u) <= Len(u))
        /\ (i + Len(u)) - Len(u) = i
    BY <1>1
  <2> QED
    BY <1>1, <2>1
<1>4. \A k \in DOMAIN w : \/ k \in 1 .. Len(u) /\ w[k] = u[k]
                          \/ \E i \in 1 .. Len(v) : k = i + Len(u) /\ w[k] = v[i]
  <2> TAKE k \in DOMAIN w
  <2>1. CASE k <= Len(u)
    BY <1>1, <2>1
  <2>2. CASE ~(k <= Len(u))
    <3>1. k - Len(u) \in 1 .. Len(v) /\ k = (k - Len(u)) + Len(u) /\ w[k] = v[k - Len(u)]
      BY <1>1, <2>2
    <3> QED
      BY <3>1
  <2> QED
    BY <2>1, <2>2
<1>5. ToSet(w) = ToSet(u) \cup ToSet(v)
  <2>1. /\ ToSet(w) = {w[k] : k \in DOMAIN w}
        /\ ToSet(u) = {u[i] : i \in 1 .. Len(u)} /\ ToSet(v) = {v[i] : i \in 1 .. Len(v)}
    BY <1>1, Zenon DEF ToSet
  <2>2. ASSUME NEW x \in ToSet(w)
        PROVE  x \in ToSet(u) \cup ToSet(v)
    BY <1>4, <2>1
  <2>3. ASSUME NEW x \in ToSet(u) \cup ToSet(v)
        PROVE  x \in ToSet(w)
    BY <1>2, <1>3, <2>1
  <2> QED
    BY <2>2, <2>3
<1>6. ASSUME IsInjective(w)
      PROVE  IsInjective(u) /\ IsInjective(v) /\ ToSet(u) \cap ToSet(v) = {}
  <2>1. IsInjective(u)
    BY <1>1, <1>2, <1>6, Zenon DEF IsInjective
  <2>2. IsInjective(v)
    <3> SUFFICES ASSUME NEW i \in 1 .. Len(v), NEW j \in 1 .. Len(v), v[i] = v[j]
                 PROVE  i = j
      BY <1>1 DEF IsInjective
    <3>1. i + Len(u) = j + Len(u)
      BY <1>3, <1>6 DEF IsInjective
    <3> QED
      BY <1>1, <3>1
  <2>3. ToSet(u) \cap ToSet(v) = {}
    <3> SUFFICES ASSUME NEW i \in 1 .. Len(u), NEW j \in 1 .. Len(v), u[i] = v[j]
                 PROVE  FALSE
      BY <1>1 DEF ToSet
    <3>1. i = j + Len(u)
      BY <1>2, <1>3, <1>6 DEF IsInjective
    <3> QED
      BY <1>1, <3>1
  <2> QED
    BY <2>1, <2>2, <2>3
<1>7. ASSUME IsInjective(u), IsInjective(v), ToSet(u) \cap ToSet(v) = {}
      PROVE  IsInjective(w)
  <2> SUFFICES ASSUME NEW k \in DOMAIN w, NEW m \in DOMAIN w, w[k] = w[m]
               PROVE  k = m
    BY DEF IsInjective
  <2>1. \A i \in 1 .. Len(u), j \in 1 .. Len(v) : u[i] # v[j]
    BY <1>1, <1>7 DEF ToSet
  <2>2. CASE k \in 1 .. Len(u) /\ w[k] = u[k]
    BY <1>1, <1>4, <1>7, <2>1, <2>2 DEF IsInjective
  <2>3. CASE \E i \in 1 .. Len(v) : k = i + Len(u) /\ w[k] = v[i]
    BY <1>1, <1>4, <1>7, <2>1, <2>3 DEF IsInjective
  <2> QED
    BY <1>4, <2>2, <2>3
<1> QED
  BY <1>1, <1>5, <1>6, <1>7 DEF w

(* A sequence of one element.                                                  *)
LEMMA OneHolds ==
  ASSUME NEW S, NEW x \in S
  PROVE  <<x>> \in Seq(S) /\ ToSet(<<x>>) = {x} /\ IsInjective(<<x>>)
<1>1. <<x>> \in Seq(S) /\ DOMAIN <<x>> = {1} /\ <<x>>[1] = x
  OBVIOUS
<1> QED
  BY <1>1 DEF ToSet, IsInjective

(* The empty sequence.                                                         *)
LEMMA NoneHold == ToSet(<<>>) = {} /\ IsInjective(<<>>)
BY DEF ToSet, IsInjective

(* The rings of any device: a UDP device has none, and a loopback uses none.   *)
Sending(d) == IF Ringed /\ d \in Nadk THEN FramesOf(Contents(tx[d])) ELSE <<>>
Receiving(d) == IF Ringed /\ d \in Nadk THEN FramesOf(Contents(rx[d])) ELSE <<>>

(* The frames that d received or has still to receive.                         *)
Track(d) == Joined(out[Target(d)], Sending(Target(d)), InHand(d), Receiving(d), queue[d])

(* A line is a sequence.                                                       *)
LEMMA JoinedSeq ==
  ASSUME NEW S, NEW o \in Seq(S), NEW t \in Seq(S), NEW h \in Seq(S), NEW r \in Seq(S),
         NEW q \in Seq(S)
  PROVE  Joined(o, t, h, r, q) \in Seq(S)
BY CatHolds DEF Joined

(* A line without what it holds in one place.                                  *)
LEMMA Without ==
  ASSUME NEW S, NEW o \in Seq(S), NEW h \in Seq(S), NEW x \in Seq(S)
  PROVE  /\ IsInjective(Cat(o, Cat(h, x))) => /\ IsInjective(Cat(o, x))
                                              /\ ToSet(o) \cap ToSet(h) = {}
                                              /\ (ToSet(o) \cup ToSet(x)) \cap ToSet(h) = {}
         /\ ToSet(Cat(o, Cat(h, x))) = ToSet(Cat(o, x)) \cup ToSet(h)
<1> DEFINE y == Cat(h, x)
<1>1. /\ y \in Seq(S) /\ ToSet(y) = ToSet(h) \cup ToSet(x)
      /\ IsInjective(y) => IsInjective(h) /\ IsInjective(x) /\ ToSet(h) \cap ToSet(x) = {}
  BY CatHolds
<1> HIDE DEF y
<1>2. /\ ToSet(Cat(o, y)) = ToSet(o) \cup ToSet(y)
      /\ IsInjective(Cat(o, y)) => IsInjective(o) /\ IsInjective(y) /\ ToSet(o) \cap ToSet(y) = {}
  BY <1>1, CatHolds
<1>3. /\ ToSet(Cat(o, x)) = ToSet(o) \cup ToSet(x)
      /\ IsInjective(o) /\ IsInjective(x) /\ ToSet(o) \cap ToSet(x) = {} => IsInjective(Cat(o, x))
  BY CatHolds
<1>4. ASSUME IsInjective(Cat(o, y))
      PROVE  IsInjective(Cat(o, x)) /\ ToSet(o) \cap ToSet(h) = {}
             /\ (ToSet(o) \cup ToSet(x)) \cap ToSet(h) = {}
  <2>1. ToSet(o) \cap ToSet(x) = {} /\ ToSet(o) \cap ToSet(h) = {} /\ ToSet(h) \cap ToSet(x) = {}
    BY <1>1, <1>2, <1>4
  <2> QED
    BY <1>1, <1>2, <1>3, <1>4, <2>1
<1> QED
  BY <1>1, <1>2, <1>3, <1>4 DEF y

(* What is in the middle of a line is not at its front.                        *)
LEMMA InTheMiddle ==
  ASSUME NEW S, NEW o \in Seq(S), NEW t \in Seq(S), NEW h \in Seq(S), NEW r \in Seq(S),
         NEW q \in Seq(S), NEW f \in ToSet(h), IsInjective(Joined(o, t, h, r, q))
  PROVE  f \in ToSet(Joined(o, t, h, r, q)) /\ f \notin ToSet(o)
<1> DEFINE x == Cat(r, q)
           ot == Cat(o, t)
<1>1. x \in Seq(S) /\ ot \in Seq(S) /\ ToSet(ot) = ToSet(o) \cup ToSet(t)
  BY CatHolds
<1>2. Joined(o, t, h, r, q) = Cat(ot, Cat(h, x))
  <2>1. Cat(h, x) \in Seq(S)
    BY <1>1, CatHolds
  <2> QED
    BY <2>1, CatAssoc DEF Joined
<1> HIDE DEF x, ot
<1>3. /\ ToSet(ot) \cap ToSet(h) = {}
      /\ ToSet(h) \subseteq ToSet(Cat(ot, Cat(h, x)))
  BY <1>1, <1>2, Without
<1> QED
  BY <1>1, <1>2, <1>3

(* Moving frames along a line, and losing one, leaves a line that holds no more. *)
LEMMA MovedHolds ==
  ASSUME NEW S, NEW o \in Seq(S), NEW t \in Seq(S), NEW h \in Seq(S), NEW r \in Seq(S),
         NEW q \in Seq(S), NEW s \in Seq(S), NEW u \in Seq(S),
         Cat(s, u) = Cat(t, h) \/ Cat(s, u) = t,
         IsInjective(Joined(o, t, h, r, q))
  PROVE  /\ IsInjective(Joined(Cat(o, s), u, <<>>, r, q))
         /\ ToSet(Joined(Cat(o, s), u, <<>>, r, q)) \subseteq ToSet(Joined(o, t, h, r, q))
<1> DEFINE x == Cat(r, q)
           ot == Cat(o, t)
           new == Joined(Cat(o, s), u, <<>>, r, q)
<1>1. x \in Seq(S) /\ ot \in Seq(S)
  BY CatHolds
<1>2. Joined(o, t, h, r, q) = Cat(ot, Cat(h, x))
  <2>1. Cat(h, x) \in Seq(S)
    BY <1>1, CatHolds
  <2> QED
    BY <2>1, CatAssoc DEF Joined
<1>3. new = Cat(o, Cat(Cat(s, u), x))
  <2>1. Cat(<<>>, x) = x
    BY <1>1, CatEmpty
  <2>2. Cat(u, x) \in Seq(S) /\ Cat(Cat(s, u), x) = Cat(s, Cat(u, x))
    BY <1>1, CatAssoc
  <2>3. Cat(Cat(o, s), Cat(u, x)) = Cat(o, Cat(s, Cat(u, x)))
    BY <2>2, CatAssoc
  <2> QED
    BY <2>1, <2>2, <2>3 DEF Joined
<1> HIDE DEF x, new
<1>4. CASE Cat(s, u) = Cat(t, h)
  <2>1. Cat(Cat(t, h), x) = Cat(t, Cat(h, x)) /\ Cat(h, x) \in Seq(S)
    BY <1>1, CatAssoc
  <2>2. new = Cat(ot, Cat(h, x))
    BY <1>3, <1>4, <2>1, CatAssoc
  <2> QED
    BY <1>2, <2>2 DEF new
<1>5. CASE Cat(s, u) = t
  <2>1. new = Cat(ot, x)
    BY <1>1, <1>3, <1>5, CatAssoc
  <2> HIDE DEF ot
  <2>2. IsInjective(new) /\ ToSet(new) \subseteq ToSet(Joined(o, t, h, r, q))
    BY <1>1, <1>2, <2>1, Without
  <2> QED
    BY <2>2 DEF new
<1> QED
  BY <1>4, <1>5

(* A loopback leaves the hand empty.                                           *)
EmptyHanded == ~Ringed => hand = Null

(* A frame on the track of d arrived, and it arrived on d or, when d is a UDP   *)
(* device that received what it had sent itself, is on the wire of d.          *)
Travelled(d, f) ==
  /\ f.n <= arrived[f.dev]
  /\ f.dev = d \/ (d \in Udp /\ f \in ToSet(out[d]))

(* A track holds a frame once.                                                 *)
Once ==
  \A d \in Devices : IsInjective(Track(d)) /\ \A f \in ToSet(Track(d)) : Travelled(d, f)

OInv == Well /\ EmptyHanded /\ Once

(* The parts of a track are sequences of frames.                               *)
LEMMA TrackParts ==
  ASSUME Well, NEW d \in Devices
  PROVE  /\ Target(d) \in Devices
         /\ out[Target(d)] \in Seq(Frames) /\ Sending(Target(d)) \in Seq(Frames)
         /\ InHand(d) \in Seq(Frames) /\ Receiving(d) \in Seq(Frames)
         /\ queue[d] \in Seq(Frames)
<1>1. Target(d) \in Devices /\ <<>> \in Seq(Frames)
  BY Targets
<1>2. \A e \in Nadk : Contents(tx[e]) \in Seq(Packets) /\ Contents(rx[e]) \in Seq(Packets)
  BY DEF Well, PacketsStored
<1>3. Sending(Target(d)) \in Seq(Frames)
  BY <1>1, <1>2, FramesOfSeq DEF Sending
<1>4. Receiving(d) \in Seq(Frames)
  BY <1>1, <1>2, FramesOfSeq DEF Receiving
<1>5. InHand(d) \in Seq(Frames)
  <2>1. hand # Null => hand.frame \in Frames
    BY FramesOfOne DEF Well, TypeOK
  <2> QED
    BY <2>1 DEF InHand
<1> QED
  BY <1>1, <1>3, <1>4, <1>5 DEF Well, TypeOK

(* The track after a step.                                                     *)
LEMMA TrackPrime ==
  ASSUME UNCHANGED test, NEW d
  PROVE  /\ Target(d)' = Target(d) /\ Ringed' = Ringed
         /\ Sending(d)' = (IF Ringed /\ d \in Nadk THEN FramesOf(Contents(tx'[d])) ELSE <<>>)
         /\ Receiving(d)' = (IF Ringed /\ d \in Nadk THEN FramesOf(Contents(rx'[d])) ELSE <<>>)
         /\ Track(d)' = Joined(out'[Target(d)], Sending(Target(d))', InHand(d)', Receiving(d)',
                               queue'[d])
<1>1. Target(d)' = Target(d) /\ Ringed' = Ringed
  BY DEF Target, Ringed
<1>2. \A e : /\ FramesOf(Contents(rx[e]))' = FramesOf(Contents(rx'[e]))
             /\ FramesOf(Contents(tx[e]))' = FramesOf(Contents(tx'[e]))
  BY DEF FramesOf, Contents, Oldest, fp_ring_count, Steps, Slot
<1>3. \A e :
        /\ Sending(e)' = (IF Ringed /\ e \in Nadk THEN FramesOf(Contents(tx'[e])) ELSE <<>>)
        /\ Receiving(e)' = (IF Ringed /\ e \in Nadk THEN FramesOf(Contents(rx'[e])) ELSE <<>>)
  BY <1>1, <1>2 DEF Sending, Receiving, Nadk
<1>4. Track(d)' = Joined(out'[Target(d)], Sending(Target(d))', InHand(d)', Receiving(d)',
                         queue'[d])
  BY <1>1 DEF Track, Joined, Cat
<1> QED
  BY <1>1, <1>3, <1>4

(* What is said of one track. *)
TrackOK(d) == IsInjective(Track(d)) /\ \A f \in ToSet(Track(d)) : Travelled(d, f)

(* A track that gains nothing stays in order, whatever else arrives or is sent. *)
LEMMA TrackKept ==
  ASSUME Well, Well', NEW d \in Devices, TrackOK(d),
         \A e \in Devices : arrived[e] <= arrived'[e] /\ ToSet(out[e]) \subseteq ToSet(out'[e]),
         IsInjective(Track(d)'), ToSet(Track(d)') \subseteq ToSet(Track(d))
  PROVE  TrackOK(d)'
<1>1. /\ IsInjective(Track(d))' = IsInjective(Track(d)')
      /\ ToSet(Track(d))' = ToSet(Track(d)')
      /\ \A e : ToSet(out[e])' = ToSet(out'[e])
  BY DEF IsInjective, ToSet
<1>2. ToSet(Track(d)) \subseteq Frames
  <2>1. Track(d) \in Seq(Frames)
    BY TrackParts, JoinedSeq DEF Track
  <2> QED
    BY <2>1 DEF ToSet
<1>3. \A f \in Frames : f.dev \in Devices /\ f.n \in Nat
  BY NadkAssumption DEF Frames
<1>4. \A e \in Devices : arrived[e] \in Nat /\ arrived'[e] \in Nat
  BY NadkAssumption DEF Well, TypeOK
<1>5. ASSUME NEW f \in ToSet(Track(d))
      PROVE  Travelled(d, f)'
  <2>1. Travelled(d, f) /\ f.dev \in Devices /\ f.n \in Nat
    BY <1>2, <1>3, <1>5 DEF TrackOK
  <2>2. f.n <= arrived'[f.dev]
    BY <1>4, <2>1 DEF Travelled
  <2> QED
    BY <1>1, <2>1, <2>2 DEF Travelled
<1> QED
  BY <1>1, <1>5 DEF TrackOK

(* A track that gains a new frame at its end stays in order.                   *)
LEMMA TrackExtended ==
  ASSUME Well, Well', NEW d \in Devices, TrackOK(d),
         \A e \in Devices : arrived[e] <= arrived'[e] /\ ToSet(out[e]) \subseteq ToSet(out'[e]),
         NEW f \in Frames, f \notin ToSet(Track(d)), Travelled(d, f)',
         Track(d)' = Cat(Track(d), <<f>>)
  PROVE  TrackOK(d)'
<1> DEFINE T == Track(d)
           U == Track(d)'
           y == <<f>>
<1>1. T \in Seq(Frames)
  BY TrackParts, JoinedSeq DEF Track
<1>2. y \in Seq(Frames) /\ ToSet(y) = {f} /\ IsInjective(y)
  BY OneHolds
<1>3. U = Cat(T, y) /\ IsInjective(T) /\ f \notin ToSet(T)
  BY DEF TrackOK
<1>4. /\ IsInjective(Track(d))' = IsInjective(U) /\ ToSet(Track(d))' = ToSet(U)
      /\ \A e : ToSet(out[e])' = ToSet(out'[e])
  BY DEF IsInjective, ToSet
<1>5. ToSet(T) \subseteq Frames
  BY <1>1 DEF ToSet
<1>6. \A e \in Devices : arrived[e] \in Nat /\ arrived'[e] \in Nat
  BY NadkAssumption DEF Well, TypeOK
<1>7. ASSUME NEW g \in ToSet(T)
      PROVE  Travelled(d, g)'
  <2>1. Travelled(d, g) /\ g.dev \in Devices /\ g.n \in Nat
    BY <1>5, <1>7 DEF TrackOK, Frames
  <2>2. g.n <= arrived'[g.dev]
    BY <1>6, <2>1 DEF Travelled
  <2> QED
    BY <1>4, <2>1, <2>2 DEF Travelled
<1> HIDE DEF T, U, y
<1>8. IsInjective(U) /\ ToSet(U) = ToSet(T) \cup {f}
  BY <1>1, <1>2, <1>3, CatHolds
<1> QED
  BY <1>4, <1>7, <1>8 DEF TrackOK

(* A frame from outside is new on its track.                                   *)
LEMMA OnceArrive ==
  ASSUME Well, Well', NEW d \in Devices, Arrive(d), NEW e \in Devices, TrackOK(e)
  PROVE  TrackOK(e)'
<1> DEFINE o == out[Target(e)]
           t == Sending(Target(e))
           h == InHand(e)
           r == Receiving(e)
           q == queue[e]
<1>0. PICK x : x = [dev |-> d, n |-> arrived[d] + 1]
  OBVIOUS
<1>1. /\ arrived' = [arrived EXCEPT ![d] = arrived[d] + 1]
      /\ queue' = [queue EXCEPT ![d] = Append(queue[d], x)]
      /\ UNCHANGED <<test, rx, tx, turn, hand, out, dropped, freed>>
      /\ arrived[d] \in Nat /\ arrived[d] < MaxFrames /\ MaxFrames \in Nat
      /\ arrived \in [Devices -> 0 .. MaxFrames] /\ queue \in [Devices -> Seq(Frames)]
  BY <1>0, NadkAssumption DEF Arrive, Well, TypeOK
<1>2. x \in Frames
  BY <1>0, <1>1 DEF Frames
<1>3. /\ o \in Seq(Frames) /\ t \in Seq(Frames) /\ h \in Seq(Frames)
      /\ r \in Seq(Frames) /\ q \in Seq(Frames)
  BY TrackParts
<1>4. /\ Target(e)' = Target(e)
      /\ Track(e)' = Joined(out'[Target(e)], Sending(Target(e))', InHand(e)', Receiving(e)',
                            queue'[e])
  BY <1>1, TrackPrime
<1>5. InHand(e)' = h /\ Receiving(e)' = r /\ Sending(Target(e))' = t
  BY <1>1, <1>4, TrackPrime DEF InHand, Receiving, Sending
<1>6. Track(e)' = Joined(o, t, h, r, queue'[e]) /\ Track(e) = Joined(o, t, h, r, q)
  BY <1>1, <1>4, <1>5 DEF Track
<1>7. \A c \in Devices : arrived[c] <= arrived'[c] /\ ToSet(out[c]) \subseteq ToSet(out'[c])
  BY <1>1
<1>8. CASE e # d
  <2>1. Track(e)' = Track(e)
    BY <1>1, <1>6, <1>8
  <2> QED
    BY <1>7, <2>1, TrackKept DEF TrackOK
<1>9. CASE e = d
  <2>1. Track(e)' = Cat(Track(e), <<x>>)
    <3> DEFINE y == <<x>>
    <3>1. y \in Seq(Frames)
      BY <1>2
    <3>2. queue'[e] = Cat(q, y)
      BY <1>1, <1>2, <1>3, <1>9 DEF Cat, q
    <3> HIDE DEF y, o, t, h, r, q
    <3>3. Joined(o, t, h, r, Cat(q, y)) = Cat(Joined(o, t, h, r, q), y)
      BY <1>3, <3>1, AppendToLine
    <3> QED
      BY <1>6, <3>2, <3>3 DEF y
  <2>2. x \notin ToSet(Track(e))
    <3> SUFFICES ASSUME x \in ToSet(Track(e)) PROVE FALSE
      OBVIOUS
    <3>1. x.n <= arrived[x.dev]
      BY DEF TrackOK, Travelled
    <3> QED
      BY <1>0, <1>1, <3>1
  <2>3. Travelled(e, x)'
    BY <1>0, <1>1, <1>9 DEF Travelled
  <2> QED
    BY <1>2, <1>7, <2>1, <2>2, <2>3, TrackExtended
<1> QED
  BY <1>8, <1>9

(* Receiving on a NADK device keeps every track as it is.                      *)
LEMMA OnceRecv ==
  ASSUME Well, Well', NEW d \in Devices, fp_nadk_recv(d), NEW e \in Devices, TrackOK(e)
  PROVE  TrackOK(e)'
<1> DEFINE o == out[Target(e)]
           t == Sending(Target(e))
           r == Receiving(e)
           q == queue[e]
<1>1. /\ UNCHANGED <<test, arrived, tx, out>> /\ d \in Nadk
      /\ InHand(e) = <<>> /\ (e # d => InHand(e)' = <<>>) /\ Ringed
  BY RecvMoves DEF fp_nadk_recv
<1>2. PICK ring \in Rings, v \in Seq(Frames) :
        /\ rx' = [rx EXCEPT ![d] = ring] /\ queue' = [queue EXCEPT ![d] = v]
        /\ FramesOf(Contents(ring)) \in Seq(Frames) /\ InHand(d)' \in Seq(Frames)
        /\ Cat(InHand(d)', Cat(FramesOf(Contents(ring)), v))
             = Cat(FramesOf(Contents(rx[d])), queue[d])
  BY RecvMoves
<1>3. /\ o \in Seq(Frames) /\ t \in Seq(Frames) /\ r \in Seq(Frames) /\ q \in Seq(Frames)
      /\ rx \in [Nadk -> Rings] /\ queue \in [Devices -> Seq(Frames)]
  BY TrackParts DEF Well, TypeOK
<1>4. Track(e) = Joined(o, t, <<>>, r, q)
  BY <1>1 DEF Track
<1>5. /\ Target(e)' = Target(e)
      /\ Track(e)' = Joined(out'[Target(e)], Sending(Target(e))', InHand(e)', Receiving(e)',
                            queue'[e])
      /\ Receiving(e)' = (IF Ringed /\ e \in Nadk THEN FramesOf(Contents(rx'[e])) ELSE <<>>)
  BY <1>1, TrackPrime
<1>6. Sending(Target(e))' = t
  BY <1>1, <1>5, TrackPrime DEF Sending
<1>7. Track(e)' = Joined(o, t, InHand(e)', Receiving(e)', queue'[e])
  BY <1>1, <1>5, <1>6
<1>8. Track(e)' = Track(e)
  <2>1. CASE e # d
    <3>1. queue'[e] = q /\ Receiving(e)' = r
      BY <1>2, <1>3, <1>5, <2>1 DEF Receiving
    <3> QED
      BY <1>1, <1>4, <1>7, <2>1, <3>1
  <2>2. CASE e = d
    <3> DEFINE f == InHand(e)'
               u == Receiving(e)'
    <3>1. queue'[e] = v /\ u = FramesOf(Contents(ring)) /\ r = FramesOf(Contents(rx[d]))
      BY <1>1, <1>2, <1>3, <1>5, <2>2 DEF Receiving
    <3>2. Cat(f, Cat(u, v)) = Cat(r, q)
      BY <1>2, <2>2, <3>1
    <3>3. Track(e)' = Joined(o, t, f, u, v)
      BY <1>7, <3>1
    <3> HIDE DEF o, t, r, q, u, f
    <3>4. Cat(<<>>, Cat(r, q)) = Cat(r, q)
      BY <1>3, CatAssoc, CatEmpty
    <3>5. Joined(o, t, f, u, v) = Joined(o, t, <<>>, r, q)
      BY <3>2, <3>4 DEF Joined
    <3> QED
      BY <1>4, <3>3, <3>5
  <2> QED
    BY <2>1, <2>2
<1>9. \A c \in Devices : arrived[c] <= arrived'[c] /\ ToSet(out[c]) \subseteq ToSet(out'[c])
  BY <1>1, NadkAssumption DEF Well, TypeOK
<1> QED
  BY <1>8, <1>9, TrackKept DEF TrackOK

(* Sending on a NADK device moves frames along the track, or loses the one in   *)
(* hand when the ring is full.                                                 *)
LEMMA OnceSend ==
  ASSUME Well, Well', EmptyHanded, NEW d \in Devices, fp_nadk_send(d), NEW e \in Devices,
         TrackOK(e)
  PROVE  TrackOK(e)'
<1> DEFINE o == out[Target(e)]
           t == Sending(Target(e))
           h == InHand(e)
           r == Receiving(e)
           q == queue[e]
<1>1. /\ d \in Nadk /\ Target(turn) = d /\ turn \in Devices
      /\ hand \in Packets /\ hand' = Null
      /\ UNCHANGED <<test, arrived, queue, rx, dropped>>
      /\ out \in [Devices -> Seq(Frames)] /\ tx \in [Nadk -> Rings] /\ Ringed
  BY SendMoves, Sizes DEF Well, TypeOK, EmptyHanded
<1>2. PICK ring \in Rings, s \in Seq(Frames) :
        LET a == FramesOf(Contents(tx[d]))
            u == FramesOf(Contents(ring))
        IN  /\ tx' = [tx EXCEPT ![d] = ring] /\ Contents(ring) \in Seq(Packets)
            /\ out' = [out EXCEPT ![d] = Cat(@, s)]
            /\ Cat(s, u) = Cat(a, <<hand.frame>>) \/ Cat(s, u) = a
            /\ Driver = {} /\ fp_ring_count(tx[d]) < Budget =>
                 Cat(s, u) = Cat(a, <<hand.frame>>) /\ fp_ring_count(ring) < Budget
  BY SendMoves
<1> DEFINE u == FramesOf(Contents(ring))
<1>3. /\ o \in Seq(Frames) /\ t \in Seq(Frames) /\ h \in Seq(Frames)
      /\ r \in Seq(Frames) /\ q \in Seq(Frames) /\ Target(e) \in Devices
  BY TrackParts
<1>4. /\ Target(e)' = Target(e)
      /\ Track(e)' = Joined(out'[Target(e)], Sending(Target(e))', InHand(e)', Receiving(e)',
                            queue'[e])
      /\ Sending(Target(e))' = (IF Ringed /\ Target(e) \in Nadk
                                THEN FramesOf(Contents(tx'[Target(e)])) ELSE <<>>)
  BY <1>1, TrackPrime
<1>5. InHand(e)' = <<>> /\ Receiving(e)' = r
  BY <1>1, TrackPrime DEF InHand, Receiving
<1>6. Track(e)' = Joined(out'[Target(e)], Sending(Target(e))', <<>>, r, q)
  BY <1>1, <1>4, <1>5
<1>7. Track(e) = Joined(o, t, h, r, q)
  BY DEF Track
<1>8. u \in Seq(Frames) /\ s \in Seq(Frames)
  BY <1>2, FramesOfSeq
<1>9. \A c \in Devices : arrived[c] <= arrived'[c] /\ ToSet(out[c]) \subseteq ToSet(out'[c])
  <2> TAKE c \in Devices
  <2>1. out[c] \in Seq(Frames) /\ (out'[c] = out[c] \/ out'[c] = Cat(out[c], s))
    BY <1>1, <1>2
  <2>2. ToSet(Cat(out[c], s)) = ToSet(out[c]) \cup ToSet(s)
    BY <1>8, <2>1, CatHolds
  <2> QED
    BY <1>1, <2>1, <2>2, NadkAssumption DEF Well, TypeOK
<1>10. CASE e # turn
  <2>1. Target(e) # d
    BY <1>1, <1>10, Targets
  <2>2. out'[Target(e)] = o /\ Sending(Target(e))' = t
    BY <1>1, <1>2, <1>3, <1>4, <2>1 DEF Sending
  <2>3. h = <<>>
    BY <1>10 DEF InHand
  <2>4. Track(e)' = Track(e)
    BY <1>6, <1>7, <2>2, <2>3
  <2> QED
    BY <1>9, <2>4, TrackKept DEF TrackOK
<1>11. CASE e = turn
  <2>1. Target(e) = d
    BY <1>1, <1>11
  <2>2. out'[Target(e)] = Cat(o, s) /\ Sending(Target(e))' = u
    BY <1>1, <1>2, <1>4, <2>1
  <2>3. h = <<hand.frame>> /\ t = FramesOf(Contents(tx[d]))
    BY <1>1, <1>11, <2>1, Sizes DEF InHand, Sending
  <2>4. Cat(s, u) = Cat(t, h) \/ Cat(s, u) = t
    BY <1>2, <2>3
  <2>5. IsInjective(Joined(o, t, h, r, q))
    BY <1>7 DEF TrackOK
  <2>6. Track(e)' = Joined(Cat(o, s), u, <<>>, r, q)
    BY <1>6, <2>2
  <2> HIDE DEF o, t, h, r, q, u
  <2>7. /\ IsInjective(Joined(Cat(o, s), u, <<>>, r, q))
        /\ ToSet(Joined(Cat(o, s), u, <<>>, r, q)) \subseteq ToSet(Joined(o, t, h, r, q))
    BY <1>3, <1>8, <2>4, <2>5, MovedHolds, Zenon
  <2>8. IsInjective(Track(e)') /\ ToSet(Track(e)') \subseteq ToSet(Track(e))
    BY <1>7, <2>6, <2>7 DEF o, t, h, r, q
  <2> QED
    BY <1>9, <2>8, TrackKept
<1> QED
  BY <1>10, <1>11

(* A UDP device that has no packet gives the turn to the other one.            *)
LEMMA OnceUdpNone ==
  ASSUME Well, Well', NEW d \in Devices, fp_udp_recv(d), hand' = hand, queue' = queue,
         NEW e \in Devices, TrackOK(e)
  PROVE  TrackOK(e)'
<1>1. hand = Null /\ UNCHANGED <<test, arrived, rx, tx, out, queue, hand>>
  BY DEF fp_udp_recv
<1>2. InHand(e) = <<>> /\ InHand(e)' = <<>>
  BY <1>1 DEF InHand
<1>3. /\ Target(e)' = Target(e)
      /\ Track(e)' = Joined(out'[Target(e)], Sending(Target(e))', InHand(e)', Receiving(e)',
                            queue'[e])
  BY <1>1, TrackPrime
<1>4. Receiving(e)' = Receiving(e) /\ Sending(Target(e))' = Sending(Target(e))
  BY <1>1, <1>3, TrackPrime DEF Receiving, Sending
<1>5. Track(e)' = Track(e)
  BY <1>1, <1>2, <1>3, <1>4 DEF Track
<1>6. \A c \in Devices : arrived[c] <= arrived'[c] /\ ToSet(out[c]) \subseteq ToSet(out'[c])
  BY <1>1, NadkAssumption DEF Well, TypeOK
<1> QED
  BY <1>5, <1>6, TrackKept DEF TrackOK

(* Receiving on a UDP device takes the frame into the hand.                    *)
LEMMA OnceUdpRecv ==
  ASSUME Well, Well', NEW d \in Devices, fp_udp_recv(d), ~(hand' = hand /\ queue' = queue),
         NEW e \in Devices, TrackOK(e)
  PROVE  TrackOK(e)'
<1> DEFINE o == out[Target(e)]
           t == Sending(Target(e))
           r == Receiving(e)
           q == queue[e]
           pkt == fp_packet_create(Head(queue[d]), "alloc")
<1>1. /\ turn = d /\ hand = Null /\ d \in Udp /\ d \notin Nadk /\ queue[d] # <<>>
      /\ queue' = [queue EXCEPT ![d] = Tail(@)] /\ hand' = pkt
      /\ UNCHANGED <<test, arrived, rx, tx, turn, out, dropped>>
      /\ queue \in [Devices -> Seq(Frames)]
  BY DEF fp_udp_recv, Nadk, Well, TypeOK
<1>2. Head(queue[d]) \in Frames /\ Tail(queue[d]) \in Seq(Frames)
      /\ queue[d] = <<Head(queue[d])>> \o Tail(queue[d])
  BY <1>1, HeadTailProperties
<1>3. pkt \in Packets /\ pkt # Null /\ pkt.frame = Head(queue[d])
  BY <1>2, Sizes DEF fp_packet_create, Packets
<1> HIDE DEF pkt
<1>4. /\ o \in Seq(Frames) /\ t \in Seq(Frames) /\ r \in Seq(Frames) /\ q \in Seq(Frames)
  BY TrackParts
<1>5. InHand(e) = <<>>
  BY <1>1 DEF InHand
<1>6. Track(e) = Joined(o, t, <<>>, r, q)
  BY <1>5 DEF Track
<1>7. /\ Target(e)' = Target(e)
      /\ Track(e)' = Joined(out'[Target(e)], Sending(Target(e))', InHand(e)', Receiving(e)',
                            queue'[e])
  BY <1>1, TrackPrime
<1>8. Receiving(e)' = r /\ Sending(Target(e))' = t
  BY <1>1, <1>7, TrackPrime DEF Receiving, Sending
<1>9. Track(e)' = Joined(o, t, InHand(e)', r, queue'[e])
  BY <1>1, <1>7, <1>8
<1>10. Track(e)' = Track(e)
  <2>1. CASE e # d
    <3>1. InHand(e)' = <<>> /\ queue'[e] = q
      BY <1>1, <2>1 DEF InHand
    <3> QED
      BY <1>6, <1>9, <3>1
  <2>2. CASE e = d
    <3> DEFINE f == InHand(e)'
               v == Tail(queue[d])
    <3>1. f = <<Head(queue[d])>> /\ queue'[e] = v /\ r = <<>>
      BY <1>1, <1>3, <2>2 DEF InHand, Receiving
    <3>2. f \in Seq(Frames) /\ v \in Seq(Frames) /\ q = Cat(f, v)
      BY <1>2, <2>2, <3>1 DEF Cat
    <3>3. Track(e)' = Joined(o, t, f, r, v)
      BY <1>9, <3>1
    <3> HIDE DEF o, t, r, q, f, v
    <3>4. Cat(r, v) = v /\ Cat(r, q) = q /\ Cat(<<>>, q) = q
      BY <1>4, <3>1, <3>2, CatEmpty
    <3>5. Joined(o, t, f, r, v) = Joined(o, t, <<>>, r, q)
      BY <3>2, <3>4 DEF Joined
    <3> QED
      BY <1>6, <3>3, <3>5
  <2> QED
    BY <2>1, <2>2
<1>11. \A c \in Devices : arrived[c] <= arrived'[c] /\ ToSet(out[c]) \subseteq ToSet(out'[c])
  BY <1>1, NadkAssumption DEF Well, TypeOK
<1> QED
  BY <1>10, <1>11, TrackKept DEF TrackOK

(* With at most one UDP device, the frame that it sends has not been on its wire; *)
(* the frame comes back to its own queue.                                      *)
LEMMA OnceUdpSend ==
  ASSUME Nadk # {}, Well, Well', EmptyHanded, Once, NEW d \in Devices, fp_udp_send(d),
         NEW e \in Devices
  PROVE  TrackOK(e)'
<1> DEFINE o == out[Target(e)]
           t == Sending(Target(e))
           h == InHand(e)
           r == Receiving(e)
           q == queue[e]
<1>1. /\ Target(turn) = d /\ hand \in Packets /\ hand # Null /\ hand.frame \in Frames
      /\ d \in Udp /\ turn \in Devices /\ hand' = Null
      /\ UNCHANGED <<test, arrived, rx, tx>>
      /\ out \in [Devices -> Seq(Frames)] /\ queue \in [Devices -> Seq(Frames)]
      /\ \/ /\ out' = [out EXCEPT ![d] = Append(@, hand.frame)]
            /\ queue' = [queue EXCEPT ![d] = Append(@, hand.frame)]
         \/ UNCHANGED <<out, queue>>
  BY FramesOfOne DEF fp_udp_send, Well, TypeOK
<1>2. PICK f : f = hand.frame
  OBVIOUS
<1>3. f \in Frames /\ <<f>> \in Seq(Frames) /\ ToSet(<<f>>) = {f}
  BY <1>1, <1>2, OneHolds
<1>4. turn # d /\ turn \notin Udp
  <2>1. Udp # {} /\ Ringed
    BY <1>1 DEF EmptyHanded
  <2>2. Target(turn) = Other(turn)
    BY <1>1, <2>1, NadkAssumption DEF Target, Well, TypeOK
  <2>3. turn # d
    BY <1>1, <2>2, Targets
  <2>4. PICK n \in Devices : n \notin Udp
    BY DEF Nadk
  <2>5. n = turn
    BY <1>1, <2>3, <2>4, Targets
  <2> QED
    BY <2>3, <2>4, <2>5
<1>5. \A c \in Devices : c = d \/ c = turn
  BY <1>1, <1>4, Targets
<1>6. \A c \in Devices : TrackOK(c)
  BY DEF Once, TrackOK
<1>7. \A c \in Devices : arrived[c] <= arrived'[c] /\ ToSet(out[c]) \subseteq ToSet(out'[c])
  <2> TAKE c \in Devices
  <2>0. arrived[c] <= arrived'[c]
    BY <1>1, NadkAssumption DEF Well, TypeOK
  <2>1. out[c] \in Seq(Frames) /\ (out'[c] = out[c] \/ out'[c] = Append(out[c], f))
    BY <1>1, <1>2
  <2>2. Append(out[c], f) = Cat(out[c], <<f>>)
    BY <1>3, <2>1 DEF Cat
  <2>3. ToSet(Cat(out[c], <<f>>)) = ToSet(out[c]) \cup {f}
    BY <1>3, <2>1, CatHolds
  <2> QED
    BY <2>0, <2>1, <2>2, <2>3
<1>8. /\ o \in Seq(Frames) /\ t \in Seq(Frames) /\ h \in Seq(Frames)
      /\ r \in Seq(Frames) /\ q \in Seq(Frames) /\ Target(e) \in Devices
  BY TrackParts
<1>9. Track(e) = Joined(o, t, h, r, q)
  BY DEF Track
<1>10. /\ Target(e)' = Target(e)
       /\ Track(e)' = Joined(out'[Target(e)], Sending(Target(e))', InHand(e)', Receiving(e)',
                             queue'[e])
  BY <1>1, TrackPrime
<1>11. InHand(e)' = <<>> /\ Receiving(e)' = r /\ Sending(Target(e))' = t
  BY <1>1, <1>10, TrackPrime DEF InHand, Receiving, Sending
<1>12. Track(e)' = Joined(out'[Target(e)], t, <<>>, r, queue'[e])
  BY <1>1, <1>10, <1>11
<1>13. CASE e = turn
  <2>1. Target(e) = d /\ queue'[e] = q /\ h = <<f>> /\ t = <<>>
    BY <1>1, <1>2, <1>4, <1>13 DEF InHand, Sending, Nadk
  <2>2. PICK s : s \in {<<>>, <<f>>} /\ out'[d] = Cat(out[d], s)
    <3>1. out[d] \in Seq(Frames) /\ Cat(out[d], <<>>) = out[d]
      BY <1>1, CatEmpty
    <3>2. Append(out[d], f) = Cat(out[d], <<f>>)
      BY <1>3, <3>1 DEF Cat
    <3>3. out'[d] = out[d] \/ out'[d] = Append(out[d], f)
      BY <1>1, <1>2
    <3> QED
      BY <3>1, <3>2, <3>3
  <2>3. Track(e)' = Joined(Cat(o, s), t, <<>>, r, q)
    BY <1>12, <2>1, <2>2
  <2>4. s \in Seq(Frames) /\ (Cat(s, t) = Cat(t, h) \/ Cat(s, t) = t)
    <3> DEFINE z == <<>>
               y == <<f>>
    <3>1. z \in Seq(Frames) /\ y \in Seq(Frames)
      BY <1>3
    <3>2. Cat(z, y) = y /\ Cat(y, z) = y /\ Cat(z, z) = z
      BY <3>1, CatEmpty
    <3>3. s \in {z, y} /\ h = y /\ t = z
      BY <2>1, <2>2
    <3> HIDE DEF z, y, t, h
    <3> QED
      BY <3>1, <3>2, <3>3
  <2>5. IsInjective(Joined(o, t, h, r, q))
    BY <1>6, <1>9 DEF TrackOK
  <2> HIDE DEF o, t, h, r, q
  <2>6. /\ IsInjective(Joined(Cat(o, s), t, <<>>, r, q))
        /\ ToSet(Joined(Cat(o, s), t, <<>>, r, q)) \subseteq ToSet(Joined(o, t, h, r, q))
    BY <1>8, <2>4, <2>5, MovedHolds
  <2> QED
    BY <1>6, <1>7, <1>9, <2>3, <2>6, TrackKept
<1>14. CASE e # turn
  <2>1. e = d /\ Target(e) # d /\ h = <<>>
    BY <1>1, <1>4, <1>5, <1>14, Targets DEF InHand
  <2>2. out'[Target(e)] = o
    BY <1>1, <1>8, <2>1
  <2>3. CASE queue' = queue
    <3>1. Track(e)' = Track(e)
      BY <1>9, <1>12, <2>1, <2>2, <2>3
    <3> QED
      BY <1>6, <1>7, <3>1, TrackKept DEF TrackOK
  <2>4. CASE /\ out' = [out EXCEPT ![d] = Append(@, hand.frame)]
             /\ queue' = [queue EXCEPT ![d] = Append(@, hand.frame)]
    <3> DEFINE y == <<f>>
               z == <<>>
    <3>1. y \in Seq(Frames) /\ z \in Seq(Frames) /\ f \in ToSet(y)
      BY <1>3
    <3>2. queue'[e] = Cat(q, y)
      <4>1. queue'[e] = Append(q, f)
        BY <1>1, <1>2, <2>1, <2>4
      <4> QED
        BY <1>3, <1>8, <4>1 DEF Cat
    <3>3. Track(e)' = Cat(Track(e), y)
      <4>1. /\ Track(e)' = Joined(o, t, z, r, Cat(q, y))
            /\ Track(e) = Joined(o, t, z, r, q)
        BY <1>9, <1>12, <2>1, <2>2, <3>2
      <4> HIDE DEF o, t, h, r, q, y, z
      <4> QED
        BY <1>8, <3>1, <4>1, AppendToLine
    <3>4. f \in ToSet(Track(turn)) /\ f \notin ToSet(out[d])
      <4> DEFINE a == out[d]
                 b == Sending(d)
                 x == Receiving(turn)
                 w == queue[turn]
      <4>1. a \in Seq(Frames) /\ b \in Seq(Frames) /\ x \in Seq(Frames) /\ w \in Seq(Frames)
        BY <1>1, TrackParts
      <4>2. Track(turn) = Joined(a, b, y, x, w)
        BY <1>1, <1>2 DEF Track, InHand
      <4>3. IsInjective(Joined(a, b, y, x, w))
        BY <1>1, <1>6, <4>2 DEF TrackOK
      <4> HIDE DEF a, b, x, w, y
      <4>4. f \in ToSet(Joined(a, b, y, x, w)) /\ f \notin ToSet(a)
        BY <3>1, <4>1, <4>3, InTheMiddle
      <4> QED
        BY <4>2, <4>4 DEF a
    <3>5. f.n <= arrived[f.dev] /\ f.dev = turn
      BY <1>1, <1>4, <1>6, <3>4 DEF TrackOK, Travelled
    <3>6. f \notin ToSet(Track(e))
      BY <1>4, <1>6, <2>1, <3>4, <3>5 DEF TrackOK, Travelled
    <3>7. Travelled(e, f)'
      <4>1. f \in ToSet(out'[d])
        <5>1. out[d] \in Seq(Frames) /\ out'[d] = Append(out[d], f)
          BY <1>1, <1>2, <2>4
        <5>2. out'[d] = Cat(out[d], y)
          BY <1>3, <5>1 DEF Cat
        <5> HIDE DEF y
        <5> QED
          BY <3>1, <5>1, <5>2, CatHolds
      <4>2. \A c : ToSet(out[c])' = ToSet(out'[c])
        BY DEF ToSet
      <4> QED
        BY <1>1, <2>1, <3>5, <4>1, <4>2 DEF Travelled
    <3> QED
      BY <1>3, <1>6, <1>7, <3>3, <3>6, <3>7, TrackExtended
  <2> QED
    BY <1>1, <2>3, <2>4
<1> QED
  BY <1>13, <1>14

(* A loopback takes some frames from the queue, sends the first of them and      *)
(* frees the others.                                                           *)
LEMMA LoopbackMoves ==
  ASSUME Well, NEW d \in Devices, fp_nadk_xloopback(d, Target(d))
  PROVE  /\ UNCHANGED <<test, arrived, rx, tx, hand, freed>>
         /\ \E a \in Seq(Frames), b \in Seq(Frames), c \in Seq(Frames) :
              /\ queue[d] = Cat(a, Cat(b, c))
              /\ queue' = [queue EXCEPT ![d] = c]
              /\ out' = [out EXCEPT ![Target(d)] = Cat(@, a)]
              /\ dropped' = dropped \cup ToSet(b)
<1>1. /\ d \in Nadk /\ queue[d] \in Seq(Frames) /\ rx[d] \in Rings
      /\ UNCHANGED <<test, arrived, rx, tx, hand, freed>>
  BY DEF Well, TypeOK, fp_nadk_xloopback
<1>2. PICK received \in nadk_receive(d) : \E sent \in nadk_send(received) :
        LET pkt_buf == SubSeq(queue[d], 1, received) IN
          /\ queue' = [queue EXCEPT ![d] = SubSeq(@, received + 1, Len(@))]
          /\ out' = [out EXCEPT ![Target(d)] = @ \o SubSeq(pkt_buf, 1, sent)]
          /\ dropped' = dropped \cup Unsent(pkt_buf, sent)
  BY DEF fp_nadk_xloopback
<1> DEFINE pkt_buf == SubSeq(queue[d], 1, received)
           c == SubSeq(queue[d], received + 1, Len(queue[d]))
<1>3. PICK sent \in nadk_send(received) :
        /\ queue' = [queue EXCEPT ![d] = c]
        /\ out' = [out EXCEPT ![Target(d)] = @ \o SubSeq(pkt_buf, 1, sent)]
        /\ dropped' = dropped \cup Unsent(pkt_buf, sent)
  BY <1>2
<1> DEFINE a == SubSeq(pkt_buf, 1, sent)
           b == SubSeq(pkt_buf, sent + 1, Len(pkt_buf))
<1>4. received \in 0 .. Len(queue[d])
  BY <1>1, ReceiveBounds
<1>5. /\ pkt_buf \in Seq(Frames) /\ Len(pkt_buf) = received /\ c \in Seq(Frames)
      /\ queue[d] = Cat(pkt_buf, c)
  BY <1>1, <1>4, FirstAndRest DEF Cat
<1>6. sent \in 0 .. Len(pkt_buf)
  <2>1. sent \in nadk_send(received)
    BY <1>3
  <2> QED
    BY <1>4, <1>5, <2>1 DEF nadk_send, Min2
<1> HIDE DEF pkt_buf, c
<1>7. a \in Seq(Frames) /\ b \in Seq(Frames) /\ pkt_buf = Cat(a, b) /\ Len(a) = sent
  BY <1>5, <1>6, FirstAndRest DEF Cat
<1>8. Unsent(pkt_buf, sent) = ToSet(b)
  <2>1. Len(pkt_buf) \in Nat /\ sent \in Nat /\ sent <= Len(pkt_buf)
    BY <1>5, <1>6
  <2>2. /\ DOMAIN b = 1 .. Len(pkt_buf) - sent
        /\ \A i \in 1 .. Len(pkt_buf) - sent : b[i] = pkt_buf[sent + i]
    BY <1>5, <2>1
  <2> HIDE DEF b
  <2>3. \A i \in sent + 1 .. Len(pkt_buf) : \E j \in DOMAIN b : pkt_buf[i] = b[j]
    <3> TAKE i \in sent + 1 .. Len(pkt_buf)
    <3>1. i - sent \in 1 .. Len(pkt_buf) - sent /\ sent + (i - sent) = i
      BY <2>1
    <3> QED
      BY <2>2, <3>1
  <2>4. \A j \in DOMAIN b : \E i \in sent + 1 .. Len(pkt_buf) : pkt_buf[i] = b[j]
    <3> TAKE j \in DOMAIN b
    <3>1. sent + j \in sent + 1 .. Len(pkt_buf)
      BY <2>1, <2>2
    <3> QED
      BY <2>2, <3>1
  <2> QED
    BY <2>3, <2>4 DEF Unsent, ToSet
<1> HIDE DEF a, b
<1>9. queue[d] = Cat(a, Cat(b, c))
  BY <1>5, <1>7, CatAssoc
<1>10. out' = [out EXCEPT ![Target(d)] = Cat(@, a)]
  BY <1>3 DEF Cat, a
<1> QED
  BY <1>1, <1>3, <1>5, <1>7, <1>8, <1>9, <1>10

(* A loopback moves frames along the track, or frees them.                     *)
LEMMA OnceLoopback ==
  ASSUME Well, Well', EmptyHanded, ~Ringed, NEW d \in Devices,
         fp_nadk_xloopback(d, Target(d)), NEW e \in Devices, TrackOK(e)
  PROVE  TrackOK(e)'
<1> DEFINE o == out[Target(e)]
           q == queue[e]
<1>1. /\ UNCHANGED <<test, arrived, rx, tx, hand, freed>> /\ hand = Null
      /\ out \in [Devices -> Seq(Frames)] /\ queue \in [Devices -> Seq(Frames)]
  BY LoopbackMoves DEF EmptyHanded, Well, TypeOK
<1>2. PICK a \in Seq(Frames), b \in Seq(Frames), c \in Seq(Frames) :
        /\ queue[d] = Cat(a, Cat(b, c))
        /\ queue' = [queue EXCEPT ![d] = c]
        /\ out' = [out EXCEPT ![Target(d)] = Cat(@, a)]
        /\ dropped' = dropped \cup ToSet(b)
  BY LoopbackMoves
<1>3. o \in Seq(Frames) /\ q \in Seq(Frames) /\ Target(e) \in Devices /\ Target(d) \in Devices
  BY TrackParts
<1>4. ASSUME NEW u \in Seq(Frames), NEW v \in Seq(Frames)
      PROVE  Joined(u, <<>>, <<>>, <<>>, v) = Cat(u, v)
  BY CatEmpty DEF Joined
<1>5. /\ InHand(e) = <<>> /\ Sending(Target(e)) = <<>> /\ Receiving(e) = <<>>
      /\ InHand(e)' = <<>> /\ Sending(Target(e))' = <<>> /\ Receiving(e)' = <<>>
  <2>1. Ringed' = Ringed
    BY <1>1 DEF Ringed
  <2> QED
    BY <1>1, <2>1 DEF InHand, Sending, Receiving
<1>6. Track(e) = Cat(o, q)
  BY <1>3, <1>4, <1>5 DEF Track
<1>7. out'[Target(e)] \in Seq(Frames) /\ queue'[e] \in Seq(Frames)
  BY <1>3 DEF Well, TypeOK
<1>8. Track(e)' = Cat(out'[Target(e)], queue'[e])
  <2>1. /\ Target(e)' = Target(e)
        /\ Track(e)' = Joined(out'[Target(e)], Sending(Target(e))', InHand(e)', Receiving(e)',
                              queue'[e])
    BY <1>1, TrackPrime
  <2> QED
    BY <1>4, <1>5, <1>7, <2>1
<1>9. \A x \in Devices : arrived[x] <= arrived'[x] /\ ToSet(out[x]) \subseteq ToSet(out'[x])
  <2> TAKE x \in Devices
  <2>1. arrived[x] <= arrived'[x]
    BY <1>1, NadkAssumption DEF Well, TypeOK
  <2>2. out[x] \in Seq(Frames) /\ (out'[x] = out[x] \/ out'[x] = Cat(out[x], a))
    BY <1>1, <1>2
  <2>3. ToSet(Cat(out[x], a)) = ToSet(out[x]) \cup ToSet(a)
    BY <1>2, <2>2, CatHolds
  <2> QED
    BY <2>1, <2>2, <2>3
<1>10. CASE e # d
  <2>1. Target(e) # Target(d)
    BY <1>10, Targets
  <2>2. out'[Target(e)] = o /\ queue'[e] = q
    BY <1>1, <1>2, <1>3, <1>10, <2>1
  <2> QED
    BY <1>6, <1>8, <1>9, <2>2, TrackKept DEF TrackOK
<1>11. CASE e = d
  <2> DEFINE oa == Cat(o, a)
             bc == Cat(b, c)
  <2>1. out'[Target(e)] = oa /\ queue'[e] = c /\ q = Cat(a, bc)
    BY <1>1, <1>2, <1>3, <1>11
  <2>2. oa \in Seq(Frames) /\ bc \in Seq(Frames)
    BY <1>3, CatHolds
  <2> HIDE DEF o, q, bc
  <2>3. Track(e) = Cat(oa, bc)
    <3>1. Cat(Cat(o, a), bc) = Cat(o, Cat(a, bc))
      BY <1>3, <2>2, CatAssoc
    <3> QED
      BY <1>6, <2>1, <3>1
  <2>4. Track(e)' = Cat(oa, c)
    BY <1>8, <2>1
  <2> HIDE DEF oa
  <2>5. IsInjective(Cat(oa, c)) /\ ToSet(Cat(oa, c)) \subseteq ToSet(Cat(oa, bc))
    <3>1. IsInjective(Cat(oa, bc))
      BY <2>3 DEF TrackOK
    <3> QED
      BY <2>2, <3>1, Without DEF bc
  <2> QED
    BY <1>9, <2>3, <2>4, <2>5, TrackKept
<1> QED
  BY <1>10, <1>11

(* At the start every track is empty.                                          *)
LEMMA OInvInit == Init => OInv
<1> SUFFICES ASSUME Init PROVE OInv
  OBVIOUS
<1>1. Well /\ EmptyHanded
  BY WellInit DEF Init, EmptyHanded
<1>2. ASSUME NEW d \in Devices
      PROVE  Track(d) = <<>>
  <2>1. Target(d) \in Devices
    BY Targets
  <2>2. \A e \in Nadk : FramesOf(Contents(tx[e])) = <<>> /\ FramesOf(Contents(rx[e])) = <<>>
    <3>1. \A e \in Nadk : tx[e] = fp_ring_new /\ rx[e] = fp_ring_new
      BY DEF Init
    <3>2. FramesOf(Contents(fp_ring_new)) = <<>>
      BY NewRing, FramesOfNone, Zenon
    <3> QED
      BY <3>1, <3>2, Zenon
  <2>3. /\ out[Target(d)] = <<>> /\ queue[d] = <<>> /\ InHand(d) = <<>>
        /\ Sending(Target(d)) = <<>> /\ Receiving(d) = <<>>
    BY <2>1, <2>2 DEF Init, InHand, Sending, Receiving
  <2>4. Cat(<<>>, <<>>) = <<>>
    BY DEF Cat
  <2> QED
    BY <2>3, <2>4, Zenon DEF Track, Joined
<1>3. Once
  BY <1>2, NoneHold DEF Once
<1> QED
  BY <1>1, <1>3 DEF OInv

(* With at most one UDP device no step puts a frame twice on a track.          *)
LEMMA OInvNext ==
  ASSUME Nadk # {}, OInv, [Next]_vars
  PROVE  OInv'
<1>1. Well /\ EmptyHanded /\ Once /\ \A d \in Devices : TrackOK(d)
  BY DEF OInv, Once, TrackOK
<1>2. Well'
  BY <1>1, WellNext
<1>3. UNCHANGED test /\ Ringed' = Ringed
  <2>1. UNCHANGED test
    BY DEF Next, Step, Arrive, fp_nadk_recv, fp_nadk_send, fp_udp_recv, fp_udp_send,
           fp_nadk_xloopback, vars
  <2> QED
    BY <2>1 DEF Ringed
<1>4. EmptyHanded'
  <2>1. hand' = hand \/ hand' = Null \/ Ringed
    BY DEF Next, Step, Arrive, fp_nadk_recv, fp_nadk_send, fp_udp_recv, fp_udp_send,
           fp_nadk_xloopback, vars
  <2> QED
    BY <1>1, <1>3, <2>1 DEF EmptyHanded
<1>5. ASSUME NEW e \in Devices
      PROVE  TrackOK(e)'
  <2>1. ASSUME NEW d \in Devices, Arrive(d) PROVE TrackOK(e)'
    BY <1>1, <1>2, <1>5, <2>1, OnceArrive
  <2>2. ASSUME NEW d \in Devices, fp_nadk_recv(d) PROVE TrackOK(e)'
    BY <1>1, <1>2, <1>5, <2>2, OnceRecv
  <2>3. ASSUME NEW d \in Devices, fp_nadk_send(d) PROVE TrackOK(e)'
    BY <1>1, <1>2, <1>5, <2>3, OnceSend
  <2>4. ASSUME NEW d \in Devices, fp_udp_recv(d) PROVE TrackOK(e)'
    BY <1>1, <1>2, <1>5, <2>4, OnceUdpRecv, OnceUdpNone
  <2>5. ASSUME NEW d \in Devices, fp_udp_send(d) PROVE TrackOK(e)'
    BY <1>1, <1>2, <1>5, <2>5, OnceUdpSend
  <2>6. ASSUME NEW d \in Devices, ~Ringed, fp_nadk_xloopback(d, Target(d)) PROVE TrackOK(e)'
    BY <1>1, <1>2, <1>5, <2>6, OnceLoopback
  <2>7. CASE UNCHANGED vars
    <3>1. /\ UNCHANGED <<arrived, out, queue, rx, tx, turn, hand>>
      BY <2>7 DEF vars
    <3>2. Track(e)' = Track(e)
      <4>1. /\ Target(e)' = Target(e) /\ InHand(e)' = InHand(e)
            /\ Sending(Target(e))' = Sending(Target(e)) /\ Receiving(e)' = Receiving(e)
        <5>1. Target(e)' = Target(e)
          BY <1>3, TrackPrime
        <5> QED
          BY <1>3, <3>1, <5>1, TrackPrime DEF InHand, Sending, Receiving
      <4>2. Track(e)' = Joined(out'[Target(e)], Sending(Target(e))', InHand(e)', Receiving(e)',
                               queue'[e])
        BY <1>3, TrackPrime
      <4> QED
        BY <3>1, <4>1, <4>2 DEF Track
    <3>3. \A c \in Devices : arrived[c] <= arrived'[c] /\ ToSet(out[c]) \subseteq ToSet(out'[c])
      BY <1>1, <3>1, NadkAssumption DEF Well, TypeOK
    <3> QED
      BY <1>1, <1>2, <1>5, <3>2, <3>3, TrackKept DEF TrackOK
  <2> QED
    BY <2>1, <2>2, <2>3, <2>4, <2>5, <2>6, <2>7 DEF Next, Step
<1>6. Once'
  BY <1>5 DEF Once, TrackOK
<1> QED
  BY <1>2, <1>4, <1>6 DEF OInv

(* What is on the wire of a device is on the track of another, or on its own.  *)
LEMMA OInvSentOnce == OInv => SentOnce
<1> SUFFICES ASSUME OInv, NEW d \in Devices PROVE IsInjective(out[d])
  BY DEF SentOnce
<1>1. PICK e \in Devices : Target(e) = d
  <2>1. Other(d) \in Devices /\ Target(d) \in Devices /\ Target(Other(d)) \in Devices
        /\ Target(Other(d)) # Target(d)
    BY Targets
  <2>2. \A x \in Devices : x = d \/ x = Other(d)
    BY Targets
  <2> QED
    BY <2>1, <2>2
<1> DEFINE x == Cat(Sending(d), Cat(InHand(e), Cat(Receiving(e), queue[e])))
<1>2. out[d] \in Seq(Frames) /\ x \in Seq(Frames)
  BY <1>1, TrackParts, CatHolds DEF OInv
<1>3. IsInjective(Cat(out[d], x))
  BY <1>1 DEF OInv, Once, Track, Joined
<1> HIDE DEF x
<1> QED
  BY <1>2, <1>3, CatHolds

(* While at most one of the devices is a UDP socket, no device puts a frame on   *)
(* the wire twice, whatever part of a batch the driver takes, wherever the loop  *)
(* over a batch stops for want of a buffer, and whether or not a ring is full    *)
(* (port_nadk.c:446-702, port_udp.c).  Two UDP sockets that send to themselves   *)
(* would pass the same frame to and fro.                                       *)
THEOREM NadkSentOnce ==
  ASSUME Nadk # {}
  PROVE  Spec => []SentOnce
<1>1. OInv /\ [Next]_vars => OInv'
  BY OInvNext
<1> QED
  BY OInvInit, <1>1, OInvSentOnce, PTL DEF Spec

-----------------------------------------------------------------------------
(* What a loopback sends or frees *)

(* Two sequences of frames put together are in order when each is and the first *)
(* holds the earlier frames.                                                   *)
LEMMA CatInOrder ==
  ASSUME NEW u \in Seq(Frames), NEW v \in Seq(Frames)
  PROVE  InOrder(Cat(u, v)) <=>
           InOrder(u) /\ InOrder(v) /\ \A x \in ToSet(u), y \in ToSet(v) : x.n < y.n
<1> DEFINE w == Cat(u, v)
<1>1. /\ DOMAIN w = 1 .. Len(u) + Len(v)
      /\ Len(u) \in Nat /\ Len(v) \in Nat
      /\ DOMAIN u = 1 .. Len(u) /\ DOMAIN v = 1 .. Len(v)
      /\ \A i \in 1 .. Len(u) + Len(v) : w[i] = IF i <= Len(u) THEN u[i] ELSE v[i - Len(u)]
  BY ConcatProperties DEF Cat
<1> HIDE DEF w
<1>2. \A i \in 1 .. Len(u) : i \in DOMAIN w /\ w[i] = u[i]
  BY <1>1
<1>3. \A i \in 1 .. Len(v) : i + Len(u) \in DOMAIN w /\ w[i + Len(u)] = v[i]
  <2> TAKE i \in 1 .. Len(v)
  <2>1. /\ i + Len(u) \in 1 .. Len(u) + Len(v) /\ ~(i + Len(u) <= Len(u))
        /\ (i + Len(u)) - Len(u) = i
    BY <1>1
  <2> QED
    BY <1>1, <2>1
<1>4. \A k \in DOMAIN w : \/ k \in 1 .. Len(u) /\ w[k] = u[k]
                          \/ \E i \in 1 .. Len(v) : k = i + Len(u) /\ w[k] = v[i]
  <2> TAKE k \in DOMAIN w
  <2>1. CASE k <= Len(u)
    BY <1>1, <2>1
  <2>2. CASE ~(k <= Len(u))
    <3>1. k - Len(u) \in 1 .. Len(v) /\ k = (k - Len(u)) + Len(u) /\ w[k] = v[k - Len(u)]
      BY <1>1, <2>2
    <3> QED
      BY <3>1
  <2> QED
    BY <2>1, <2>2
<1>5. ASSUME InOrder(w)
      PROVE  InOrder(u) /\ InOrder(v) /\ \A x \in ToSet(u), y \in ToSet(v) : x.n < y.n
  <2>1. InOrder(u)
    BY <1>1, <1>2, <1>5 DEF InOrder
  <2>2. InOrder(v)
    <3> SUFFICES ASSUME NEW i \in 1 .. Len(v), NEW j \in 1 .. Len(v), i < j
                 PROVE  v[i].n < v[j].n
      BY <1>1 DEF InOrder
    <3>1. i + Len(u) < j + Len(u)
      BY <1>1
    <3> QED
      BY <1>3, <1>5, <3>1 DEF InOrder
  <2>3. \A x \in ToSet(u), y \in ToSet(v) : x.n < y.n
    <3> SUFFICES ASSUME NEW i \in 1 .. Len(u), NEW j \in 1 .. Len(v)
                 PROVE  u[i].n < v[j].n
      BY <1>1 DEF ToSet
    <3>1. i < j + Len(u)
      BY <1>1
    <3> QED
      BY <1>2, <1>3, <1>5, <3>1 DEF InOrder
  <2> QED
    BY <2>1, <2>2, <2>3
<1>6. ASSUME InOrder(u), InOrder(v), \A x \in ToSet(u), y \in ToSet(v) : x.n < y.n
      PROVE  InOrder(w)
  <2> SUFFICES ASSUME NEW k \in DOMAIN w, NEW m \in DOMAIN w, k < m
               PROVE  w[k].n < w[m].n
    BY DEF InOrder
  <2>1. \A i \in 1 .. Len(u), j \in 1 .. Len(v) : u[i].n < v[j].n
    BY <1>1, <1>6 DEF ToSet
  <2>2. CASE m \in 1 .. Len(u)
    <3>1. k \in 1 .. Len(u)
      BY <1>1, <2>2
    <3> QED
      BY <1>1, <1>2, <1>6, <2>2, <3>1 DEF InOrder
  <2>3. CASE \E j \in 1 .. Len(v) : m = j + Len(u) /\ w[m] = v[j]
    <3>1. PICK j \in 1 .. Len(v) : m = j + Len(u) /\ w[m] = v[j]
      BY <2>3
    <3>2. CASE k \in 1 .. Len(u) /\ w[k] = u[k]
      BY <2>1, <3>1, <3>2
    <3>3. CASE \E i \in 1 .. Len(v) : k = i + Len(u) /\ w[k] = v[i]
      <4>1. PICK i \in 1 .. Len(v) : k = i + Len(u) /\ w[k] = v[i]
        BY <3>3
      <4>2. i < j
        BY <1>1, <3>1, <4>1
      <4> QED
        BY <1>1, <1>6, <3>1, <4>1, <4>2 DEF InOrder
    <3> QED
      BY <1>4, <3>2, <3>3
  <2> QED
    BY <1>4, <2>2, <2>3
<1> QED
  BY <1>5, <1>6 DEF w

(* Frames may leave the middle of a sequence that is in order.                 *)
LEMMA WithoutInOrder ==
  ASSUME NEW o \in Seq(Frames), NEW b \in Seq(Frames), NEW c \in Seq(Frames),
         InOrder(Cat(o, Cat(b, c)))
  PROVE  /\ InOrder(Cat(o, c))
         /\ ToSet(Cat(o, Cat(b, c))) = ToSet(Cat(o, c)) \cup ToSet(b)
         /\ ToSet(Cat(o, c)) \cap ToSet(b) = {}
<1> DEFINE x == Cat(b, c)
<1>1. x \in Seq(Frames) /\ ToSet(x) = ToSet(b) \cup ToSet(c)
  BY CatHolds
<1>2. InOrder(x) => InOrder(c) /\ \A f \in ToSet(b), g \in ToSet(c) : f.n < g.n
  BY CatInOrder
<1> HIDE DEF x
<1>3. InOrder(o) /\ InOrder(x) /\ \A f \in ToSet(o), g \in ToSet(x) : f.n < g.n
  BY <1>1, CatInOrder DEF x
<1>4. InOrder(Cat(o, c))
  BY <1>1, <1>2, <1>3, CatInOrder
<1>5. ToSet(Cat(o, c)) = ToSet(o) \cup ToSet(c)
  BY CatHolds
<1>6. \A f \in ToSet(b) : f.n \in Nat
  <2>1. \A i \in DOMAIN b : b[i] \in Frames
    OBVIOUS
  <2>2. \A f \in Frames : f.n \in Nat
    BY NadkAssumption DEF Frames
  <2> QED
    BY <2>1, <2>2 DEF ToSet
<1>7. (ToSet(o) \cup ToSet(c)) \cap ToSet(b) = {}
  BY <1>1, <1>2, <1>3, <1>6
<1> QED
  BY <1>4, <1>5, <1>7, Without DEF x

(* What a loopback still has and what it sent, for the frames of one device.   *)
Kept(d) == Cat(out[Target(d)], queue[d])

KeptOK(d) == InOrder(Kept(d)) /\ ToSet(Kept(d)) = ToSet(Arrivals(d)) \ dropped

(* No frame is freed before it arrives.                                        *)
FreedArrived == \A f \in dropped : f.n <= arrived[f.dev]

LInv == Well /\ EmptyHanded /\ FreedArrived /\ (~Ringed => \A d \in Devices : KeptOK(d))

(* The first k frames of a device.                                             *)
LEMMA FirstFrames ==
  ASSUME NEW d, NEW k \in Nat
  PROVE  ToSet([i \in 1 .. k |-> [dev |-> d, n |-> i]])
           = {f \in [dev : {d}, n : Nat] : f.n \in 1 .. k}
<1> DEFINE s == [i \in 1 .. k |-> [dev |-> d, n |-> i]]
           F == {f \in [dev : {d}, n : Nat] : f.n \in 1 .. k}
<1>1. DOMAIN s = 1 .. k /\ \A i \in 1 .. k : s[i] = [dev |-> d, n |-> i]
  OBVIOUS
<1> HIDE DEF s
<1>2. \A i \in 1 .. k : s[i] \in F
  BY <1>1
<1>3. \A f \in F : f = s[f.n] /\ f.n \in DOMAIN s
  BY <1>1
<1> HIDE DEF F
<1>4. ToSet(s) = F
  BY <1>1, <1>2, <1>3 DEF ToSet
<1> QED
  BY <1>4 DEF s, F

(* The frames that arrived on a device, before and after a step.               *)
LEMMA Arrived ==
  ASSUME Well, Well', NEW d \in Devices
  PROVE  /\ ToSet(Arrivals(d)) = {f \in [dev : {d}, n : Nat] : f.n \in 1 .. arrived[d]}
         /\ ToSet(Arrivals(d))' = {f \in [dev : {d}, n : Nat] : f.n \in 1 .. arrived'[d]}
<1>1. arrived[d] \in Nat /\ arrived'[d] \in Nat
  BY NadkAssumption DEF Well, TypeOK
<1>2. ToSet(Arrivals(d)) = {f \in [dev : {d}, n : Nat] : f.n \in 1 .. arrived[d]}
  BY <1>1, FirstFrames DEF Arrivals
<1>3. ToSet(Arrivals(d))' = ToSet([i \in 1 .. arrived'[d] |-> [dev |-> d, n |-> i]])
  BY DEF Arrivals, ToSet
<1> QED
  BY <1>1, <1>2, <1>3, FirstFrames

(* The state after a step.                                                     *)
LEMMA KeptPrime ==
  ASSUME UNCHANGED test, NEW d \in Devices
  PROVE  /\ KeptOK(d)' <=>
              /\ InOrder(Cat(out'[Target(d)], queue'[d]))
              /\ ToSet(Cat(out'[Target(d)], queue'[d])) = ToSet(Arrivals(d))' \ dropped'
         /\ Ringed' = Ringed
<1>1. Target(d)' = Target(d) /\ Ringed' = Ringed
  BY DEF Target, Ringed
<1> QED
  BY <1>1 DEF KeptOK, Kept, Cat, InOrder, ToSet

(* A frame from outside goes to the end.                                       *)
LEMMA KeptArrive ==
  ASSUME Well, Well', FreedArrived, NEW d \in Devices, Arrive(d), NEW e \in Devices, KeptOK(e)
  PROVE  KeptOK(e)'
<1>1. PICK x : x = [dev |-> d, n |-> arrived[d] + 1]
  OBVIOUS
<1>2. /\ arrived' = [arrived EXCEPT ![d] = arrived[d] + 1]
      /\ queue' = [queue EXCEPT ![d] = Append(queue[d], x)]
      /\ UNCHANGED <<test, out, dropped>>
      /\ arrived[d] \in Nat /\ arrived[d] < MaxFrames /\ MaxFrames \in Nat
      /\ arrived \in [Devices -> 0 .. MaxFrames] /\ queue \in [Devices -> Seq(Frames)]
  BY <1>1, NadkAssumption DEF Arrive, Well, TypeOK
<1>3. x \in Frames
  BY <1>1, <1>2 DEF Frames
<1> DEFINE o == out[Target(e)]
           q == queue[e]
           A == ToSet(Arrivals(e))
<1>4. o \in Seq(Frames) /\ q \in Seq(Frames)
  BY TrackParts
<1>5. /\ A = {f \in [dev : {e}, n : Nat] : f.n \in 1 .. arrived[e]}
      /\ A' = {f \in [dev : {e}, n : Nat] : f.n \in 1 .. arrived'[e]}
  BY Arrived
<1>6. InOrder(Cat(o, q)) /\ ToSet(Cat(o, q)) = A \ dropped
  BY DEF KeptOK, Kept
<1>7. CASE e # d
  <2>1. queue'[e] = q /\ A' = A
    BY <1>2, <1>5, <1>7
  <2> QED
    BY <1>2, <1>6, <2>1, KeptPrime
<1>8. CASE e = d
  <2> DEFINE y == <<x>>
             k == Cat(o, q)
  <2>1. y \in Seq(Frames) /\ ToSet(y) = {x} /\ InOrder(y)
    BY <1>3, OneHolds DEF InOrder
  <2>2. queue'[e] = Cat(q, y)
    BY <1>2, <1>3, <1>4, <1>8 DEF Cat
  <2>3. A' = A \cup {x}
    BY <1>1, <1>2, <1>5, <1>8
  <2>4. x \notin dropped
    BY <1>1, <1>2 DEF FreedArrived
  <2>5. k \in Seq(Frames) /\ InOrder(k) /\ ToSet(k) = A \ dropped
    BY <1>4, <1>6, CatHolds
  <2>6. \A f \in ToSet(k) : f.n < x.n
    BY <1>1, <1>2, <1>5, <1>8, <2>5
  <2> HIDE DEF o, q, A, y
  <2>7. Cat(o, Cat(q, y)) = Cat(k, y)
    BY <1>4, <2>1, CatAssoc
  <2> HIDE DEF k
  <2>8. InOrder(Cat(k, y)) /\ ToSet(Cat(k, y)) = ToSet(k) \cup {x}
    BY <2>1, <2>5, <2>6, CatInOrder, CatHolds
  <2>9. ToSet(Cat(k, y)) = A' \ dropped'
    BY <1>2, <2>3, <2>4, <2>5, <2>8
  <2> QED
    BY <1>2, <2>2, <2>7, <2>8, <2>9, KeptPrime DEF o, A
<1> QED
  BY <1>7, <1>8

(* A loopback moves frames to the wire or frees them.                          *)
LEMMA KeptLoopback ==
  ASSUME Well, Well', NEW d \in Devices, fp_nadk_xloopback(d, Target(d)),
         \A e \in Devices : KeptOK(e)
  PROVE  (\A e \in Devices : KeptOK(e)') /\ (FreedArrived => FreedArrived')
<1>1. /\ UNCHANGED <<test, arrived>>
      /\ out \in [Devices -> Seq(Frames)] /\ queue \in [Devices -> Seq(Frames)]
  BY LoopbackMoves DEF Well, TypeOK
<1>2. PICK a \in Seq(Frames), b \in Seq(Frames), c \in Seq(Frames) :
        /\ queue[d] = Cat(a, Cat(b, c))
        /\ queue' = [queue EXCEPT ![d] = c]
        /\ out' = [out EXCEPT ![Target(d)] = Cat(@, a)]
        /\ dropped' = dropped \cup ToSet(b)
  BY LoopbackMoves
<1> DEFINE o == out[Target(d)]
           oa == Cat(o, a)
           bc == Cat(b, c)
<1>3. o \in Seq(Frames) /\ Target(d) \in Devices
  BY TrackParts
<1>4. oa \in Seq(Frames) /\ bc \in Seq(Frames)
  BY <1>3, CatHolds
<1>5. \A e \in Devices : ToSet(Arrivals(e))' = ToSet(Arrivals(e))
  BY <1>1 DEF ToSet, Arrivals
<1>6. Kept(d) = Cat(oa, bc)
  <2>1. queue[d] = Cat(a, bc)
    BY <1>2
  <2>2. Kept(d) = Cat(o, queue[d])
    BY DEF Kept
  <2> HIDE DEF o, bc
  <2>3. Cat(Cat(o, a), bc) = Cat(o, Cat(a, bc))
    BY <1>3, <1>4, CatAssoc
  <2> QED
    BY <2>1, <2>2, <2>3
<1> HIDE DEF oa
<1>7. /\ InOrder(Cat(oa, c)) /\ ToSet(Cat(oa, bc)) = ToSet(Cat(oa, c)) \cup ToSet(b)
      /\ ToSet(Cat(oa, c)) \cap ToSet(b) = {}
  <2>1. InOrder(Cat(oa, Cat(b, c)))
    BY <1>6 DEF KeptOK
  <2> QED
    BY <1>4, <2>1, WithoutInOrder
<1>8. ToSet(Cat(oa, bc)) = ToSet(Arrivals(d)) \ dropped
  BY <1>6 DEF KeptOK
<1> HIDE DEF bc
<1>9. ToSet(b) \subseteq ToSet(Arrivals(d))
  BY <1>7, <1>8
<1>10. ASSUME NEW e \in Devices
       PROVE  KeptOK(e)'
  <2>1. CASE e = d
    <3>1. out'[Target(e)] = oa /\ queue'[e] = c
      BY <1>1, <1>2, <1>3, <2>1 DEF oa
    <3>2. ToSet(Cat(oa, c)) = ToSet(Arrivals(d)) \ (dropped \cup ToSet(b))
      BY <1>7, <1>8
    <3> QED
      BY <1>1, <1>2, <1>5, <1>7, <2>1, <3>1, <3>2, KeptPrime
  <2>2. CASE e # d
    <3>1. Target(e) # Target(d) /\ Target(e) \in Devices
      BY <2>2, Targets
    <3>2. out'[Target(e)] = out[Target(e)] /\ queue'[e] = queue[e]
      BY <1>1, <1>2, <1>3, <2>2, <3>1
    <3>3. ToSet(Arrivals(e)) \cap ToSet(b) = {}
      <4>1. ToSet(Arrivals(d)) \subseteq [dev : {d}, n : Nat]
        BY Arrived
      <4>2. ToSet(Arrivals(e)) \subseteq [dev : {e}, n : Nat]
        BY Arrived
      <4> QED
        BY <1>9, <2>2, <4>1, <4>2
    <3>4. InOrder(Cat(out[Target(e)], queue[e]))
          /\ ToSet(Cat(out[Target(e)], queue[e])) = ToSet(Arrivals(e)) \ dropped
      BY DEF KeptOK, Kept
    <3>5. ToSet(Arrivals(e)) \ dropped = ToSet(Arrivals(e)) \ dropped'
      BY <1>2, <3>3
    <3> QED
      BY <1>1, <1>5, <3>2, <3>4, <3>5, KeptPrime
  <2> QED
    BY <2>1, <2>2
<1>11. \A f \in ToSet(b) : f.n <= arrived[f.dev]
  <2> SUFFICES ASSUME NEW f \in ToSet(b) PROVE f.n <= arrived[f.dev]
    OBVIOUS
  <2>1. f \in [dev : {d}, n : Nat] /\ f.n \in 1 .. arrived[d]
    BY <1>9, Arrived
  <2> QED
    BY <2>1
<1> QED
  BY <1>1, <1>2, <1>10, <1>11 DEF FreedArrived

(* At the start nothing has arrived.                                           *)
LEMMA LInvInit == Init => LInv
<1> SUFFICES ASSUME Init PROVE LInv
  OBVIOUS
<1>1. Well /\ EmptyHanded /\ FreedArrived
  BY WellInit DEF Init, EmptyHanded, FreedArrived
<1>2. ASSUME NEW d \in Devices
      PROVE  KeptOK(d)
  <2>1. out[Target(d)] = <<>> /\ queue[d] = <<>> /\ arrived[d] = 0 /\ dropped = {}
    BY Targets DEF Init
  <2>2. Kept(d) = <<>> /\ Arrivals(d) = <<>>
    BY <2>1 DEF Kept, Cat, Arrivals
  <2> QED
    BY <2>2, NoneHold DEF KeptOK, InOrder
<1> QED
  BY <1>1, <1>2 DEF LInv

(* No step of a loopback loses a frame or sends one that it freed.             *)
LEMMA LInvNext ==
  ASSUME LInv, [Next]_vars
  PROVE  LInv'
<1>1. Well /\ EmptyHanded /\ FreedArrived /\ (~Ringed => \A d \in Devices : KeptOK(d))
  BY DEF LInv
<1>2. Well'
  BY <1>1, WellNext
<1>3. UNCHANGED test /\ Ringed' = Ringed
  <2>1. UNCHANGED test
    BY DEF Next, Step, Arrive, fp_nadk_recv, fp_nadk_send, fp_udp_recv, fp_udp_send,
           fp_nadk_xloopback, vars
  <2> QED
    BY <2>1 DEF Ringed
<1>4. EmptyHanded'
  <2>1. hand' = hand \/ hand' = Null \/ Ringed
    BY DEF Next, Step, Arrive, fp_nadk_recv, fp_nadk_send, fp_udp_recv, fp_udp_send,
           fp_nadk_xloopback, vars
  <2> QED
    BY <1>1, <1>3, <2>1 DEF EmptyHanded
<1>5. FreedArrived' /\ (~Ringed => \A d \in Devices : KeptOK(d)')
  <2>1. ASSUME NEW d \in Devices, Arrive(d)
        PROVE  FreedArrived' /\ (~Ringed => \A e \in Devices : KeptOK(e)')
    <3>1. ASSUME NEW f \in dropped
          PROVE  f.n <= arrived'[f.dev]
      <4>1. /\ f.n \in Nat /\ f.dev \in Devices /\ f.n <= arrived[f.dev]
            /\ arrived[f.dev] \in Nat /\ arrived[d] \in Nat
        BY <1>1, <3>1, NadkAssumption DEF FreedArrived, Well, TypeOK, Frames
      <4>2. arrived' = [arrived EXCEPT ![d] = @ + 1] /\ arrived \in [Devices -> 0 .. MaxFrames]
        BY <1>1, <2>1 DEF Arrive, Well, TypeOK
      <4>3. arrived'[f.dev] = arrived[f.dev] \/ arrived'[f.dev] = arrived[f.dev] + 1
        BY <4>1, <4>2
      <4> QED
        BY <4>1, <4>3
    <3>2. FreedArrived'
      BY <2>1, <3>1 DEF Arrive, FreedArrived
    <3> QED
      BY <1>1, <1>2, <2>1, <3>2, KeptArrive
  <2>2. ASSUME Ringed, dropped' = dropped, arrived' = arrived
        PROVE  FreedArrived' /\ (~Ringed => \A e \in Devices : KeptOK(e)')
    BY <1>1, <2>2 DEF FreedArrived
  <2>3. ASSUME NEW d \in Devices, fp_nadk_recv(d)
        PROVE  FreedArrived' /\ (~Ringed => \A e \in Devices : KeptOK(e)')
    BY <2>2, <2>3 DEF fp_nadk_recv
  <2>4. ASSUME NEW d \in Devices, fp_nadk_send(d)
        PROVE  FreedArrived' /\ (~Ringed => \A e \in Devices : KeptOK(e)')
    BY <1>1, <2>2, <2>4 DEF fp_nadk_send, EmptyHanded
  <2>5. ASSUME NEW d \in Devices, fp_udp_recv(d)
        PROVE  FreedArrived' /\ (~Ringed => \A e \in Devices : KeptOK(e)')
    BY <2>2, <2>5 DEF fp_udp_recv
  <2>6. ASSUME NEW d \in Devices, fp_udp_send(d)
        PROVE  FreedArrived' /\ (~Ringed => \A e \in Devices : KeptOK(e)')
    BY <1>1, <2>2, <2>6 DEF fp_udp_send, EmptyHanded
  <2>7. ASSUME NEW d \in Devices, ~Ringed, fp_nadk_xloopback(d, Target(d))
        PROVE  FreedArrived' /\ (~Ringed => \A e \in Devices : KeptOK(e)')
    BY <1>1, <1>2, <2>7, KeptLoopback
  <2>8. CASE UNCHANGED vars
    <3>1. \A e \in Devices : Target(e)' = Target(e) /\ ToSet(Arrivals(e))' = ToSet(Arrivals(e))
      BY <2>8 DEF vars, Target, Arrivals, ToSet
    <3>2. ~Ringed => \A e \in Devices : KeptOK(e)'
      BY <1>1, <1>3, <2>8, <3>1, KeptPrime DEF vars, KeptOK, Kept
    <3> QED
      BY <1>1, <2>8, <3>2 DEF vars, FreedArrived
  <2> QED
    BY <2>1, <2>3, <2>4, <2>5, <2>6, <2>7, <2>8 DEF Next, Step
<1> QED
  BY <1>2, <1>3, <1>4, <1>5 DEF LInv

(* Whatever part of a batch the driver takes, a loopback sends the frames of a   *)
(* device in the order of arrival and each frame that arrived is sent, still in  *)
(* the queue of the driver, or freed, and only one of these: fp_nadk_loopback    *)
(* and fp_nadk_xloopback neither leak a buffer nor free one that was sent        *)
(* (port_nadk.c:645-702).                                                      *)
THEOREM NadkSentOrFreed == Spec => []SentOrFreed
<1>1. LInv /\ [Next]_vars => LInv'
  BY LInvNext
<1>2. LInv => SentOrFreed
  BY DEF LInv, KeptOK, Kept, Cat, SentOrFreed
<1> QED
  BY LInvInit, <1>1, <1>2, PTL DEF Spec

=============================================================================
