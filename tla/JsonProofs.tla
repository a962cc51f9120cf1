----------------------------- MODULE JsonProofs -----------------------------
(***************************************************************************)
(* Proofs about the allocators and about programs that read JSON: for      *)
(* every size of header, object and block that AllocatorAssumption allows, *)
(* any number of objects, and every text.                                  *)
(*                                                                         *)
(* The offset is a multiple of the size of an object, and so is the place  *)
(* of every object behind the header of its block.  The objects of the     *)
(* last block lie below the offset, but for the first one of a new block,  *)
(* which lies where the block before was left: no other comes that far.    *)
(*                                                                         *)
(* What is parsed at a position is parsed from what is parsed behind it,   *)
(* and that is what the proofs about the parser follow, from the end of    *)
(* the text to its beginning.  A text without the spaces between its parts *)
(* is followed along with it, to tell where a text ends too soon.          *)
(***************************************************************************)
EXTENDS JsonDocument, FiniteSetTheorems, NaturalsInduction, SequenceTheorems, TLAPS

-----------------------------------------------------------------------------
(* The allocator *)


Top == alloc.size - Block   \* where the objects of a block should end

OnGrid(n) == \E k \in Nat : n = Block + k * Rep

OffsetOnGrid ==
  /\ OnGrid(Block + alloc.offset)
  /\ Block + alloc.offset < Top
  /\ alloc.blocks = 0 => alloc.offset = 0

Placed(o) ==
  /\ o.block \in 1 .. alloc.blocks
  /\ OnGrid(o.first) /\ o.last = o.first + Rep
  /\ o.first < Top
  /\ o.block = 1 => o.last <= Top

Below(o) == o.block = alloc.blocks => (o.last <= Block + alloc.offset \/ Top <= o.last)

IInv ==
  /\ TypeOK
  /\ OffsetOnGrid
  /\ \A o \in objects : Placed(o) /\ Below(o)
  /\ ObjectsDisjoint

-----------------------------------------------------------------------------

(* Between two multiples of a number lies the number. *)
LEMMA NextMultiple ==
  ASSUME NEW k \in Nat, NEW m \in Nat, NEW n \in Nat \ {0}, k * n < m * n
  PROVE  k * n + n <= m * n
<1>1. k + 1 <= m
  <2>1. SUFFICES ASSUME m <= k PROVE FALSE
    OBVIOUS
  <2>2. PICK j \in Nat : k = m + j
    BY <2>1, k - m \in Nat, k = m + (k - m)
  <2>3. k * n = m * n + j * n /\ j * n \in Nat
    BY <2>2
  <2>. QED BY <2>3
<1>2. PICK i \in Nat : m = (k + 1) + i
  BY <1>1, m - (k + 1) \in Nat, m = (k + 1) + (m - (k + 1))
<1>3. m * n = (k * n + n) + i * n /\ i * n \in Nat
  BY <1>2
<1>4. k * n \in Nat
  OBVIOUS
<1>. QED BY <1>3, <1>4

(* The positions of objects: the next one is an object further on.            *)
LEMMA Grid ==
  /\ OnGrid(Block)
  /\ \A n : OnGrid(n) => n \in Nat /\ Block <= n /\ OnGrid(n + Rep)
  /\ \A n, o : OnGrid(n) /\ OnGrid(o) /\ n < o => n + Rep <= o
<1>. Block \in Nat /\ Rep \in Nat \ {0}
  BY AllocatorAssumption DEF AllocatorAssumption
<1>1. OnGrid(Block)
  <2>1. Block = Block + 0 * Rep
    OBVIOUS
  <2>. QED BY <2>1 DEF OnGrid
<1>2. ASSUME NEW n, OnGrid(n) PROVE n \in Nat /\ Block <= n /\ OnGrid(n + Rep)
  <2>1. PICK k \in Nat : n = Block + k * Rep
    BY <1>2 DEF OnGrid
  <2>2. k * Rep \in Nat /\ (k + 1) * Rep = k * Rep + Rep
    OBVIOUS
  <2>3. n + Rep = Block + (k + 1) * Rep
    BY <2>1, <2>2
  <2>. QED BY <2>1, <2>2, <2>3 DEF OnGrid
<1>3. ASSUME NEW n, NEW o, OnGrid(n), OnGrid(o), n < o PROVE n + Rep <= o
  <2>1. PICK k \in Nat : n = Block + k * Rep
    BY <1>3 DEF OnGrid
  <2>2. PICK m \in Nat : o = Block + m * Rep
    BY <1>3 DEF OnGrid
  <2>3. k * Rep \in Nat /\ m * Rep \in Nat
    OBVIOUS
  <2>4. k * Rep < m * Rep
    BY <1>3, <2>1, <2>2, <2>3
  <2>5. k * Rep + Rep <= m * Rep
    BY <2>4, NextMultiple
  <2>. QED BY <2>1, <2>2, <2>3, <2>5
<1>. QED BY <1>1, <1>2, <1>3

LEMMA InitInv == Init => IInv
<1>. SUFFICES ASSUME Init PROVE IInv
  OBVIOUS
<1>1. PICK n \in Sizes : alloc = [size |-> n, offset |-> 0, blocks |-> 0]
  BY DEF Init, Sequential_allocator
<1>2. objects = {}
  BY DEF Init
<1>3. TypeOK
  BY <1>1, <1>2, AllocatorAssumption DEF TypeOK, AllocatorAssumption
<1>4. OffsetOnGrid
  <2>1. Block + alloc.offset = Block /\ n > 2 * Block + Rep /\ n \in Nat
    BY <1>1, AllocatorAssumption DEF AllocatorAssumption
  <2>2. Block + alloc.offset < Top
    BY <1>1, <2>1, AllocatorAssumption DEF Top, AllocatorAssumption
  <2>. QED BY <1>1, <2>1, <2>2, Grid DEF OffsetOnGrid
<1>. QED BY <1>2, <1>3, <1>4 DEF IInv, ObjectsDisjoint

-----------------------------------------------------------------------------
(* What a call does: it goes on in the block, or begins a new one. *)

LEMMA Facts ==
  ASSUME IInv
  PROVE  /\ Block \in Nat \ {0} /\ Rep \in Nat \ {0} /\ MaxBlocks \in Nat
         /\ alloc.size \in Nat /\ alloc.size \in Sizes /\ alloc.size > 2 * Block + Rep
         /\ alloc.offset \in Nat /\ alloc.blocks \in 0 .. MaxBlocks
         /\ alloc = [size |-> alloc.size, offset |-> alloc.offset, blocks |-> alloc.blocks]
BY AllocatorAssumption DEF IInv, TypeOK, AllocatorAssumption

LEMMA Stays ==
  ASSUME IInv, Allocate, ~Exceeds(alloc, Rep)
  PROVE  /\ alloc' = [size |-> alloc.size, offset |-> alloc.offset + Rep, blocks |-> alloc.blocks]
         /\ alloc.blocks > 0
         /\ objects' = objects \cup {[block |-> alloc.blocks, first |-> Block + alloc.offset,
                                      last |-> Block + alloc.offset + Rep]}
         /\ Block + alloc.offset + Rep < Top
<1>1. alloc.blocks > 0 /\ Block + alloc.offset + Rep < Top
  BY Facts DEF Exceeds, Top
<1>2. Grown(alloc, Rep) = alloc
  BY DEF Grown
<1>3. alloc' = [size |-> alloc.size, offset |-> alloc.offset + Rep, blocks |-> alloc.blocks]
  <2>1. alloc' = [alloc EXCEPT !.offset = @ + Rep]
    BY <1>2 DEF Allocate, Bumped
  <2>. QED BY <2>1, Facts
<1>. QED BY <1>1, <1>2, <1>3 DEF Allocate, Object, Position

LEMMA Moves ==
  ASSUME IInv, Allocate, Exceeds(alloc, Rep)
  PROVE  /\ alloc' = [size |-> alloc.size, offset |-> Rep, blocks |-> alloc.blocks + 1]
         /\ objects' = objects \cup {[block |-> alloc.blocks + 1, first |-> Block + alloc.offset,
                                      last |-> Block + alloc.offset + Rep]}
         /\ alloc.blocks + 1 <= MaxBlocks
         /\ alloc.blocks = 0 \/ Top <= Block + alloc.offset + Rep
<1>1. Grown(alloc, Rep) = [size |-> alloc.size, offset |-> 0, blocks |-> alloc.blocks + 1]
  BY Facts DEF Grown, allocate_block
<1>2. alloc' = [size |-> alloc.size, offset |-> Rep, blocks |-> alloc.blocks + 1]
  <2>1. alloc' = [Grown(alloc, Rep) EXCEPT !.offset = @ + Rep]
    BY DEF Allocate, Bumped
  <2>. QED BY <1>1, <2>1, Facts
<1>3. Grown(alloc, Rep).blocks = alloc.blocks + 1
  BY <1>1
<1>4. alloc.blocks = 0 \/ Top <= Block + alloc.offset + Rep
  BY Facts DEF Exceeds, Top
<1>. QED BY <1>2, <1>3, <1>4 DEF Allocate, Object, Position

-----------------------------------------------------------------------------
(* Every call preserves the invariant. *)

(* A new object that lies apart from the others of its block. *)
LEMMA Extended ==
  ASSUME IInv, NEW o, objects' = objects \cup {o},
         \A p \in objects : Apart(o, p) /\ Apart(p, o)
  PROVE  ObjectsDisjoint'
BY DEF IInv, ObjectsDisjoint, Apart

(* What is known of the objects handed out. *)
LEMMA Known ==
  ASSUME IInv, NEW p \in objects
  PROVE  /\ p.block \in Nat /\ p.first \in Nat /\ p.last \in Nat
         /\ p.block \in 1 .. alloc.blocks
         /\ OnGrid(p.first) /\ p.last = p.first + Rep /\ p.first < Top
         /\ p.block = 1 => p.last <= Top
         /\ p.block = alloc.blocks => (p.last <= Block + alloc.offset \/ Top <= p.last)
BY DEF IInv, TypeOK, Placed, Below

LEMMA StaysInv ==
  ASSUME IInv, Allocate, ~Exceeds(alloc, Rep)
  PROVE  IInv'
<1>. DEFINE o == [block |-> alloc.blocks, first |-> Block + alloc.offset,
                  last |-> Block + alloc.offset + Rep]
<1>1. /\ alloc' = [size |-> alloc.size, offset |-> alloc.offset + Rep, blocks |-> alloc.blocks]
      /\ objects' = objects \cup {o}
      /\ alloc.blocks > 0 /\ Block + alloc.offset + Rep < Top
  BY Stays
<1>2. /\ alloc'.size = alloc.size /\ alloc'.offset = alloc.offset + Rep
      /\ alloc'.blocks = alloc.blocks /\ Top' = Top
      /\ o.block = alloc.blocks /\ o.first = Block + alloc.offset
      /\ o.last = Block + alloc.offset + Rep
  BY <1>1 DEF Top
<1>3. OnGrid(Block + alloc.offset) /\ OnGrid(Block + alloc.offset + Rep)
  BY Grid DEF IInv, OffsetOnGrid
<1>4. TypeOK'
  <2>1. o \in [block : 1 .. MaxBlocks, first : Nat, last : Nat]
    BY <1>1, Facts
  <2>2. alloc' \in [size : Sizes, offset : Nat, blocks : 0 .. MaxBlocks]
    BY <1>1, Facts
  <2>. QED BY <1>1, <2>1, <2>2 DEF IInv, TypeOK
<1>5. OffsetOnGrid'
  <2>1. Block + alloc'.offset = Block + alloc.offset + Rep
    BY <1>2, Facts
  <2>. QED BY <1>1, <1>2, <1>3, <2>1 DEF OffsetOnGrid, OnGrid
<1> HIDE DEF o
<1>6. \A p \in objects' : (Placed(p) /\ Below(p))'
  <2>. SUFFICES ASSUME NEW p \in objects' PROVE Placed(p)' /\ Below(p)'
    OBVIOUS
  <2>1. CASE p \in objects
    <3>1. Placed(p)'
      BY <1>2, <2>1, Known DEF Placed, OnGrid
    <3>2. Below(p)'
      BY <1>2, <2>1, Known, Facts DEF Below
    <3>. QED BY <3>1, <3>2
  <2>2. CASE p = o
    <3>1. Placed(p)'
      BY <1>1, <1>2, <1>3, <2>2, Facts DEF Placed, OnGrid, Top
    <3>2. Below(p)'
      BY <1>2, <2>2, Facts DEF Below
    <3>. QED BY <3>1, <3>2
  <2>. QED BY <1>1, <2>1, <2>2
<1>7. ObjectsDisjoint'
  <2>1. ASSUME NEW p \in objects PROVE Apart(o, p) /\ Apart(p, o)
    <3>1. CASE p.block # alloc.blocks \/ p.last <= Block + alloc.offset
      BY <1>2, <3>1 DEF Apart
    <3>2. CASE Top <= p.last
      <4>1. Block + alloc.offset < p.first
        BY <1>1, <2>1, <3>2, Known, Facts DEF Top
      <4>2. Block + alloc.offset + Rep <= p.first
        BY <1>3, <2>1, <4>1, Known, Grid
      <4>. QED BY <1>2, <4>2 DEF Apart
    <3>. QED BY <2>1, <3>1, <3>2, Known
  <2>. QED BY <1>1, <2>1, Extended
<1>. QED BY <1>4, <1>5, <1>6, <1>7 DEF IInv

LEMMA MovesInv ==
  ASSUME IInv, Allocate, Exceeds(alloc, Rep)
  PROVE  IInv'
<1>. DEFINE o == [block |-> alloc.blocks + 1, first |-> Block + alloc.offset,
                  last |-> Block + alloc.offset + Rep]
<1>1. /\ alloc' = [size |-> alloc.size, offset |-> Rep, blocks |-> alloc.blocks + 1]
      /\ objects' = objects \cup {o}
      /\ alloc.blocks + 1 <= MaxBlocks
      /\ alloc.blocks = 0 \/ Top <= Block + alloc.offset + Rep
  BY Moves
<1>2. /\ alloc'.size = alloc.size /\ alloc'.offset = Rep
      /\ alloc'.blocks = alloc.blocks + 1 /\ Top' = Top
      /\ o.block = alloc.blocks + 1 /\ o.first = Block + alloc.offset
      /\ o.last = Block + alloc.offset + Rep
  BY <1>1 DEF Top
<1>3. /\ OnGrid(Block + alloc.offset) /\ Block + alloc.offset < Top
      /\ alloc.blocks = 0 => alloc.offset = 0
  BY DEF IInv, OffsetOnGrid
<1>4. TypeOK'
  <2>1. o \in [block : 1 .. MaxBlocks, first : Nat, last : Nat]
    BY <1>1, Facts
  <2>2. alloc' \in [size : Sizes, offset : Nat, blocks : 0 .. MaxBlocks]
    BY <1>1, Facts
  <2>. QED BY <1>1, <2>1, <2>2 DEF IInv, TypeOK
<1>5. OffsetOnGrid'
  <2>1. OnGrid(Block + Rep)
    BY Grid
  <2>2. Block + Rep < Top /\ alloc.blocks + 1 # 0
    BY Facts DEF Top
  <2>. QED BY <1>2, <2>1, <2>2 DEF OffsetOnGrid, OnGrid
<1> HIDE DEF o
<1>6. \A p \in objects' : (Placed(p) /\ Below(p))'
  <2>. SUFFICES ASSUME NEW p \in objects' PROVE Placed(p)' /\ Below(p)'
    OBVIOUS
  <2>1. CASE p \in objects
    <3>1. p.block \in 1 .. alloc'.blocks /\ p.block # alloc'.blocks
      BY <1>2, <2>1, Known, Facts
    <3>. QED BY <1>2, <2>1, <3>1, Known DEF Placed, Below, OnGrid
  <2>2. CASE p = o
    <3>1. p.block \in 1 .. alloc'.blocks
      BY <1>2, <2>2, Facts
    <3>2. p.block = 1 => p.last <= Top
      BY <1>2, <1>3, <2>2, Facts DEF Top
    <3>3. p.last <= Block + alloc'.offset \/ Top <= p.last
      BY <1>1, <1>2, <1>3, <2>2, Facts
    <3>. QED BY <1>2, <1>3, <2>2, <3>1, <3>2, <3>3 DEF Placed, Below, OnGrid
  <2>. QED BY <1>1, <2>1, <2>2
<1>7. ObjectsDisjoint'
  <2>1. \A p \in objects : Apart(o, p) /\ Apart(p, o)
    BY <1>2, Known, Facts DEF Apart
  <2>. QED BY <1>1, <2>1, Extended
<1>. QED BY <1>4, <1>5, <1>6, <1>7 DEF IInv

LEMMA InductiveInvariant == Spec => []IInv
<1>1. IInv /\ [Next]_vars => IInv'
  <2>. SUFFICES ASSUME IInv, [Next]_vars PROVE IInv'
    OBVIOUS
  <2>1. CASE Next
    BY <2>1, StaysInv, MovesInv DEF Next
  <2>2. CASE UNCHANGED vars
    BY <2>2 DEF vars, IInv, TypeOK, OffsetOnGrid, OnGrid, Placed, Below, Top, ObjectsDisjoint, Apart
  <2>. QED BY <2>1, <2>2
<1>. QED BY InitInv, <1>1, PTL DEF Spec

-----------------------------------------------------------------------------

(* For any sizes of header, object and block, and any number of blocks, the    *)
(* allocator and what it handed out are well formed (memory.cpp:40-81).        *)
THEOREM AllocatorTypeCorrect == Spec => []TypeOK
<1>1. IInv => TypeOK
  BY DEF IInv
<1>. QED BY InductiveInvariant, <1>1, PTL

(* An object lies behind the header of its block and before another header at  *)
(* its end, in the first block and in every block that objects fill.  In a     *)
(* further block of another size the first object, whose position was computed *)
(* for the block before, ends less than an object later (memory.cpp:44-58).    *)
THEOREM AllocatorInsideBlock == Spec => []InsideBlock
<1>1. IInv => InsideBlock
  <2>. SUFFICES ASSUME IInv, NEW o \in objects
                PROVE  /\ Block <= o.first
                       /\ o.last <= alloc.size - Block
                            + (IF o.block = 1 \/ Filled(alloc.size) THEN 0 ELSE Rep - 1)
    BY DEF InsideBlock
  <2>1. Block <= o.first
    BY Known, Grid
  <2>2. CASE o.block = 1
    BY <2>1, <2>2, Known, Facts DEF Top
  <2>3. CASE Filled(alloc.size)
    <3>1. PICK m \in 0 .. alloc.size : alloc.size = 2 * Block + m * Rep
      BY <2>3 DEF Filled
    <3>2. m \in Nat /\ m * Rep \in Nat
      BY Facts
    <3>3. Top = Block + m * Rep
      BY <3>1, <3>2, Facts DEF Top
    <3>4. OnGrid(Top)
      BY <3>2, <3>3 DEF OnGrid
    <3>5. o.first + Rep <= Top
      BY <3>4, Known, Grid
    <3>. QED BY <2>1, <2>3, <3>5, Known, Facts DEF Top
  <2>4. CASE ~(o.block = 1 \/ Filled(alloc.size))
    BY <2>1, <2>4, Known, Facts DEF Top
  <2>. QED BY <2>2, <2>3, <2>4
<1>. QED BY InductiveInvariant, <1>1, PTL

(* No two objects share memory (memory.cpp:44-58).                             *)
THEOREM AllocatorObjectsDisjoint == Spec => []ObjectsDisjoint
<1>1. IInv => ObjectsDisjoint
  BY DEF IInv
<1>. QED BY InductiveInvariant, <1>1, PTL

-----------------------------------------------------------------------------
(* Scanning *)

(* The provers do not know that these are members of STRING.                  *)
Characters == STRING \cup {QuoteMark, ",", ":", "[", "]", "{", "}"}
Texts == Seq(Characters)

LEMMA Least ==
  ASSUME NEW S, S \subseteq Nat, S # {}
  PROVE  \E x \in S : \A y \in S : x <= y
<1> DEFINE Less == {ss \in Nat \X Nat : ss[1] < ss[2]}
<1>1. OpToRel(<, Nat) = Less
  BY Zenon DEF OpToRel
<1>2. IsWellFoundedOn(Less, Nat)
  BY <1>1, NatLessThanWellFounded, Zenon
<1> HIDE DEF Less
<1>3. PICK x \in S : \A y \in S : <<y, x>> \notin Less
  BY <1>2, WFMin, Zenon
<1>4. \A y \in S : x <= y
  <2> SUFFICES ASSUME NEW y \in S, ~(x <= y)
               PROVE  FALSE
    OBVIOUS
  <2>1. x \in Nat /\ y \in Nat /\ y < x
    BY SMT
  <2>2. <<y, x>> \in Less
    BY <2>1, SMT DEF Less
  <2> QED  BY <1>3, <2>2
<1> QED  BY <1>4

LEMMA TextIs ==
  ASSUME NEW s \in Texts
  PROVE  Len(s) \in Nat /\ DOMAIN s = 1 .. Len(s)
BY LenProperties DEF Texts

(* A scan stops at the first character that is not of the class, or behind the *)
(* text.                                                                       *)
LEMMA AfterIs ==
  ASSUME NEW s \in Texts, NEW i \in 1 .. Len(s) + 1, NEW C
  PROVE  /\ After(s, i, C) \in i .. Len(s) + 1
         /\ After(s, i, C) = Len(s) + 1 \/ s[After(s, i, C)] \notin C
         /\ \A k \in i .. After(s, i, C) - 1 : s[k] \in C
<1> DEFINE n == Len(s)
           Stop == {j \in i .. n + 1 : j = n + 1 \/ s[j] \notin C}
<1>1. n \in Nat
  BY TextIs
<1> HIDE DEF n
<1>2. Stop \subseteq Nat /\ Stop # {}
  <2>1. i \in 1 .. n + 1
    BY DEF n
  <2>2. n + 1 \in Stop
    BY <1>1, <2>1
  <2> QED  BY <1>1, <2>1, <2>2
<1>3. PICK x \in Stop : \A y \in Stop : x <= y
  <2> HIDE DEF Stop
  <2> QED  BY <1>2, Least
<1>4. /\ x \in i .. n + 1 /\ (x = n + 1 \/ s[x] \notin C)
      /\ \A k \in i .. x - 1 : s[k] \in C
  <2>1. i \in 1 .. n + 1
    BY DEF n
  <2> SUFFICES ASSUME NEW k \in i .. x - 1, s[k] \notin C
               PROVE  FALSE
    OBVIOUS
  <2>2. k \in Stop /\ ~(x <= k)
    BY <1>1, <2>1
  <2> QED  BY <1>3, <2>2
<1>5. \E j \in i .. n + 1 : (j = n + 1 \/ s[j] \notin C) /\ \A k \in i .. j - 1 : s[k] \in C
  BY <1>4
<1>6. After(s, i, C) = CHOOSE j \in i .. n + 1 :
                         (j = n + 1 \/ s[j] \notin C) /\ \A k \in i .. j - 1 : s[k] \in C
  BY Zenon DEF After, n
<1> QED  BY <1>5, <1>6, Zenon DEF n

LEMMA EatSpace ==
  ASSUME NEW s \in Texts, NEW i \in 1 .. Len(s) + 1
  PROVE  /\ eat_space(s, i) \in i .. Len(s) + 1
         /\ eat_space(s, i) = Len(s) + 1 \/ s[eat_space(s, i)] \notin Space
         /\ \A k \in i .. eat_space(s, i) - 1 : s[k] \in Space
BY AfterIs, Zenon DEF eat_space

-----------------------------------------------------------------------------
(* The end of a string *)

QuoteStep(s, f, j) ==
  IF j > Len(s) \/ s[j] = QuoteMark THEN j ELSE f[IF s[j] = "\\" THEN j + 2 ELSE j + 1]

(* A function that scans from the last d positions. *)
ScansLast(f, s, i, d) ==
  \A j \in i .. Len(s) + 2 : Len(s) + 2 - j < d => f[j] = QuoteStep(s, f, j)

LEMMA QuoteScans ==
  ASSUME NEW s \in Texts, NEW i \in 1 .. Len(s) + 2, NEW d \in Nat
  PROVE  \E f : ScansLast(f, s, i, d)
<1> DEFINE n == Len(s)
           Bad == {e \in Nat : ~ \E f : ScansLast(f, s, i, e)}
<1> SUFFICES ASSUME Bad # {}
             PROVE  FALSE
  BY Zenon
<1>0. n \in Nat
  BY TextIs
<1>1. PICK e \in Bad : \A l \in Bad : e <= l
  <2>1. Bad \subseteq Nat
    OBVIOUS
  <2> HIDE DEF Bad
  <2> QED  BY <2>1, Least
<1>2. e # 0
  <2>1. ScansLast(<<>>, s, i, 0)
    BY <1>0 DEF ScansLast
  <2> QED  BY <2>1, Zenon
<1>3. e \in Nat /\ e - 1 \in Nat /\ e - 1 \notin Bad
  BY <1>1, <1>2
<1>4. PICK q : ScansLast(q, s, i, e - 1)
  BY <1>3
<1> DEFINE f == [j \in i .. n + 2 |-> IF n + 2 - j < e - 1 THEN q[j] ELSE QuoteStep(s, q, j)]
<1>5. \A j \in i .. n + 2 : n + 2 - j < e => QuoteStep(s, f, j) = QuoteStep(s, q, j)
  <2> SUFFICES ASSUME NEW j \in i .. n + 2, n + 2 - j < e, ~(j > n \/ s[j] = QuoteMark)
               PROVE  QuoteStep(s, f, j) = QuoteStep(s, q, j)
    BY DEF QuoteStep
  <2> DEFINE k == IF s[j] = "\\" THEN j + 2 ELSE j + 1
  <2>1. k \in i .. n + 2 /\ n + 2 - k < e - 1
    BY <1>0, <1>3
  <2>2. f[k] = q[k]
    BY <2>1
  <2> HIDE DEF f
  <2>3. QuoteStep(s, f, j) = f[k] /\ QuoteStep(s, q, j) = q[k]
    BY Zenon DEF QuoteStep
  <2> QED  BY <2>2, <2>3
<1>6. \A j \in i .. n + 2 : n + 2 - j < e => f[j] = QuoteStep(s, q, j)
  BY <1>4 DEF ScansLast
<1>7. ScansLast(f, s, i, e)
  <2> HIDE DEF f
  <2> QED  BY <1>5, <1>6 DEF ScansLast
<1> QED  BY <1>3, <1>7, Zenon

LEMMA QuoteFunction ==
  ASSUME NEW s \in Texts, NEW i \in 1 .. Len(s) + 2
  PROVE  \E f : (\A j \in i .. Len(s) + 2 : f[j] = QuoteStep(s, f, j)) /\ Quote(s, i) = f[i]
<1> DEFINE n == Len(s)
           D == i .. n + 2
           Scan(f) == f = [j \in D |-> QuoteStep(s, f, j)]
           F == CHOOSE f : Scan(f)
<1>0. n \in Nat /\ i \in 1 .. n + 2
  BY TextIs
<1>1. \E f : Scan(f)
  <2>1. PICK q : ScansLast(q, s, i, n + 2)
    BY <1>0, QuoteScans
  <2>2. \A j \in D : q[j] = QuoteStep(s, q, j)
    BY <1>0, <2>1 DEF ScansLast
  <2> DEFINE f == [j \in D |-> q[j]]
  <2>3. \A j \in D : QuoteStep(s, f, j) = QuoteStep(s, q, j)
    <3> SUFFICES ASSUME NEW j \in D, ~(j > n \/ s[j] = QuoteMark)
                 PROVE  QuoteStep(s, f, j) = QuoteStep(s, q, j)
      BY DEF QuoteStep
    <3> DEFINE k == IF s[j] = "\\" THEN j + 2 ELSE j + 1
    <3>1. k \in D
      BY <1>0
    <3>2. f[k] = q[k]
      BY <3>1
    <3> HIDE DEF f
    <3> QED  BY <3>2 DEF QuoteStep
  <2>4. Scan(f)
    BY <2>2, <2>3
  <2> QED  BY <2>4
<1>2. Scan(F)
  BY <1>1, Zenon
<1>3. Quote(s, i) = F[i]
  BY Zenon DEF Quote, QuoteStep
<1> HIDE DEF F
<1>4. \A j \in D : F[j] = QuoteStep(s, F, j)
  BY <1>2
<1> QED  BY <1>3, <1>4, Zenon

(* The scan ends at a quote, or behind the text: at most one further, if a     *)
(* backslash is the last character.                                            *)
LEMMA QuoteIs ==
  ASSUME NEW s \in Texts, NEW i \in 1 .. Len(s) + 2
  PROVE  Quote(s, i) \in i .. Len(s) + 2
<1> DEFINE n == Len(s)
           D == i .. n + 2
<1>0. n \in Nat /\ i \in 1 .. n + 2
  BY TextIs
<1>1. PICK F : (\A j \in D : F[j] = QuoteStep(s, F, j)) /\ Quote(s, i) = F[i]
  BY QuoteFunction, Zenon
<1>3. Quote(s, i) = F[i]
  BY <1>1
<1>4. \A j \in D : F[j] = QuoteStep(s, F, j)
  BY <1>1
<1> DEFINE Bad == {d \in Nat : \E j \in D : n + 2 - j = d /\ F[j] \notin j .. n + 2}
<1>5. Bad = {}
  <2> SUFFICES ASSUME Bad # {}
               PROVE  FALSE
    OBVIOUS
  <2>1. PICK d \in Bad : \A l \in Bad : d <= l
    <3>1. Bad \subseteq Nat
      OBVIOUS
    <3> HIDE DEF Bad
    <3> QED  BY <3>1, Least
  <2>2. PICK j \in D : n + 2 - j = d /\ F[j] \notin j .. n + 2
    OBVIOUS
  <2>3. j <= n /\ F[j] = F[IF s[j] = "\\" THEN j + 2 ELSE j + 1]
    BY <1>0, <1>4, <2>2 DEF QuoteStep
  <2> DEFINE k == IF s[j] = "\\" THEN j + 2 ELSE j + 1
  <2>4. k \in D /\ n + 2 - k \in Nat /\ ~(d <= n + 2 - k) /\ k >= j
    BY <1>0, <2>2, <2>3
  <2>5. n + 2 - k \notin Bad
    BY <2>1, <2>4
  <2>6. F[k] \in k .. n + 2
    BY <2>4, <2>5
  <2> QED  BY <1>0, <2>2, <2>3, <2>4, <2>6
<1>6. i \in D /\ n + 2 - i \in Nat
  BY <1>0
<1>7. F[i] \in i .. n + 2
  BY <1>5, <1>6
<1> QED  BY <1>3, <1>7

-----------------------------------------------------------------------------
(* What a parse returns *)

IsSequence(x) == \E S : x \in Seq(S)

(* A parse from position i that ends well moves on, by at least the nodes it   *)
(* allocates; one that fails has allocated no more than was left, and e.       *)
Bounded(r, s, i, e) ==
  /\ r = [state |-> r.state, value |-> r.value, at |-> r.at, nodes |-> r.nodes]
  /\ r.nodes \in Nat
  /\ r.state = "ok" => r.at \in i + 1 .. Len(s) + 1 /\ r.nodes <= r.at - i
  /\ r.state # "ok" => r.nodes <= Len(s) + 1 - i + e

RightValue(r, s, i) ==
  Bounded(r, s, i, 0) /\ (r.state = "ok" /\ r.value.kind = "object" => IsSequence(r.value.elements))
RightList(r, s, i) == Bounded(r, s, i, 1) /\ (r.state = "ok" => IsSequence(r.value))

LEMMA ParsedRight ==
  ASSUME NEW s \in Texts, NEW i \in Nat, NEW v, NEW at \in i + 1 .. Len(s) + 1, NEW n \in Nat,
         n <= at - i, NEW e \in Nat
  PROVE  /\ Bounded(Parsed(v, at, n), s, i, e)
         /\ Parsed(v, at, n).state = "ok" /\ Parsed(v, at, n).value = v /\ Parsed(v, at, n).at = at
BY DEF Parsed, Bounded

LEMMA FailedRight ==
  ASSUME NEW s \in Texts, NEW i \in Nat, NEW q \in {"error", "overrun"}, NEW at, NEW n \in Nat,
         NEW e \in Nat, n <= Len(s) + 1 - i + e
  PROVE  Bounded(Failed(q, at, n), s, i, e) /\ Failed(q, at, n).state # "ok"
BY DEF Failed, Bounded

(* A character that is there is at a place in the text.                        *)
LEMMA CharIs ==
  ASSUME NEW s \in Texts, NEW i \in Nat
  PROVE  Char(s, i) # NUL => i <= Len(s) /\ Char(s, i) = s[i]
BY Zenon DEF Char

LEMMA Marks ==
  /\ QuoteMark # NUL /\ "," # NUL /\ "]" # NUL /\ "}" # NUL /\ ":" # NUL /\ "[" # NUL /\ "{" # NUL
  /\ "-" # NUL /\ "1" # NUL
BY Zenon DEF QuoteMark, NUL

LEMMA TerminalRight ==
  ASSUME NEW s \in Texts, NEW i \in Nat, NEW kind \in {"identifier", "number", "string"}, NEW a, NEW b,
         NEW at \in i + 1 .. Len(s) + 1
  PROVE  RightValue(Parsed(Terminal(kind, s, a, b), at, 1), s, i)
<1> DEFINE v == Terminal(kind, s, a, b)
           r == Parsed(v, at, 1)
<1>1. Bounded(r, s, i, 0) /\ r.value = v
  <2> HIDE DEF v
  <2>1. 1 <= at - i
    BY TextIs
  <2> QED  BY <2>1, ParsedRight
<1>2. v.kind = kind /\ kind # "object"
  BY DEF Terminal
<1> HIDE DEF v, r
<1>3. RightValue(r, s, i)
  BY <1>1, <1>2 DEF RightValue
<1> QED  BY <1>3 DEF r, v

LEMMA IdentifierRight ==
  ASSUME NEW s \in Texts, NEW i \in 1 .. Len(s) + 1
  PROVE  RightValue(parse_identifier(s, i), s, i)
<1> DEFINE j == After(s, i + 1, isident)
<1>0. Len(s) \in Nat
  BY TextIs
<1>1. CASE i > Len(s)
  <2>1. parse_identifier(s, i) = Failed("overrun", i, 0)
    BY <1>1, Zenon DEF parse_identifier
  <2>2. Bounded(Failed("overrun", i, 0), s, i, 0) /\ Failed("overrun", i, 0).state # "ok"
    BY <1>0, FailedRight
  <2> QED  BY <2>1, <2>2, Zenon DEF RightValue
<1>2. CASE ~(i > Len(s))
  <2>1. i + 1 \in 1 .. Len(s) + 1
    BY <1>0, <1>2
  <2>2. j \in i + 1 .. Len(s) + 1
    BY <2>1, AfterIs, Zenon
  <2>3. parse_identifier(s, i) = Parsed(Terminal("identifier", s, i, j), j, 1)
    BY <1>2, Zenon DEF parse_identifier
  <2> HIDE DEF j
  <2>4. RightValue(Parsed(Terminal("identifier", s, i, j), j, 1), s, i)
    BY <2>2, TerminalRight
  <2> QED  BY <2>3, <2>4
<1> QED  BY <1>1, <1>2

LEMMA NumberRight ==
  ASSUME NEW s \in Texts, NEW i \in 1 .. Len(s)
  PROVE  RightValue(parse_number(s, i), s, i)
<1> DEFINE j == After(s, i + 1, isnum)
<1>0. Len(s) \in Nat
  BY TextIs
<1>1. i + 1 \in 1 .. Len(s) + 1
  BY <1>0
<1>2. j \in i + 1 .. Len(s) + 1
  BY <1>1, AfterIs, Zenon
<1>3. parse_number(s, i) = Parsed(Terminal("number", s, i, j), j, 1)
  BY Zenon DEF parse_number
<1> HIDE DEF j
<1>4. RightValue(Parsed(Terminal("number", s, i, j), j, 1), s, i)
  BY <1>2, TerminalRight
<1> QED  BY <1>3, <1>4

(* A string takes its two quotes along.                                        *)
LEMMA StringRight ==
  ASSUME NEW s \in Texts, NEW i \in 1 .. Len(s)
  PROVE  LET r == parse_string(s, i)
         IN  /\ RightValue(r, s, i)
             /\ r.state = "ok" => r.at \in i + 2 .. Len(s) + 1 /\ r.nodes = 1
             /\ r.state # "ok" => r.nodes = 0
<1> DEFINE j == Quote(s, i + 1)
           r == parse_string(s, i)
           v == Terminal("string", s, i + 1, j)
<1>0. Len(s) \in Nat
  BY TextIs
<1>1. j \in i + 1 .. Len(s) + 2
  <2>1. i + 1 \in 1 .. Len(s) + 2
    BY <1>0
  <2> QED  BY <2>1, QuoteIs, Zenon
<1>2. r = IF j <= Len(s) THEN Parsed(v, j + 1, 1)
          ELSE Failed(IF j = Len(s) + 1 THEN "error" ELSE "overrun", j, 0)
  BY Zenon DEF parse_string
<1> HIDE DEF j, r
<1>3. CASE j <= Len(s)
  <2>1. r = Parsed(v, j + 1, 1)
    BY <1>2, <1>3
  <2>2. j + 1 \in i + 2 .. Len(s) + 1 /\ j + 1 \in i + 1 .. Len(s) + 1
    BY <1>0, <1>1, <1>3
  <2>3. RightValue(Parsed(v, j + 1, 1), s, i)
    BY <2>2, TerminalRight
  <2>4. Parsed(v, j + 1, 1).state = "ok" /\ Parsed(v, j + 1, 1).at = j + 1
        /\ Parsed(v, j + 1, 1).nodes = 1
    BY DEF Parsed
  <2> HIDE DEF v
  <2>5. RightValue(r, s, i) /\ r.state = "ok" /\ r.at \in i + 2 .. Len(s) + 1 /\ r.nodes = 1
    BY <2>1, <2>2, <2>3, <2>4, Zenon
  <2> QED  BY <2>5, Zenon DEF r
<1>4. CASE ~(j <= Len(s))
  <2>1. PICK q \in {"error", "overrun"} : r = Failed(q, j, 0)
    BY <1>2, <1>4, Zenon
  <2>2. Bounded(r, s, i, 0) /\ r.state # "ok"
    BY <1>0, <2>1, FailedRight
  <2>3. r.nodes = 0
    BY <2>1 DEF Failed
  <2>4. RightValue(r, s, i)
    BY <2>2, Zenon DEF RightValue
  <2> QED  BY <2>2, <2>3, <2>4, Zenon DEF r
<1> QED  BY <1>3, <1>4

(* A key is a string, and is followed by spaces.                               *)
LEMMA KeyRight ==
  ASSUME NEW s \in Texts, NEW i \in 1 .. Len(s) + 1
  PROVE  LET r == parse_key(s, i)
         IN  /\ Bounded(r, s, i, 0)
             /\ r.state = "ok" => r.at \in i + 2 .. Len(s) + 1 /\ r.nodes = 1
             /\ r.state # "ok" => r.nodes = 0
<1> DEFINE j == eat_space(s, i)
           k == parse_string(s, j)
           r == parse_key(s, i)
<1>0. Len(s) \in Nat
  BY TextIs
<1>1. j \in i .. Len(s) + 1
  BY EatSpace, Zenon
<1>2. r = IF Char(s, j) # QuoteMark THEN Failed("error", j, 0)
          ELSE IF k.state # "ok" THEN k ELSE [k EXCEPT !.at = eat_space(s, @)]
  BY Zenon DEF parse_key
<1> HIDE DEF j, r
<1>3. CASE Char(s, j) # QuoteMark
  <2>1. r = Failed("error", j, 0)
    BY <1>2, <1>3, Zenon
  <2>2. Bounded(r, s, i, 0) /\ r.state # "ok"
    BY <1>0, <2>1, FailedRight
  <2>3. r.nodes = 0
    BY <2>1 DEF Failed
  <2> QED  BY <2>2, <2>3, Zenon DEF r
<1>4. CASE Char(s, j) = QuoteMark
  <2>1. j \in Nat
    BY <1>0, <1>1
  <2>2. j <= Len(s)
    BY <1>4, <2>1, CharIs, Marks, Zenon
  <2>3. j \in 1 .. Len(s)
    BY <1>0, <1>1, <2>2
  <2>4. /\ Bounded(k, s, j, 0)
        /\ k.state = "ok" => k.at \in j + 2 .. Len(s) + 1 /\ k.nodes = 1
        /\ k.state # "ok" => k.nodes = 0
    BY <2>3, StringRight DEF RightValue
  <2> HIDE DEF k
  <2>5. CASE k.state # "ok"
    <3>1. r = k
      BY <1>2, <1>4, <2>5, Zenon
    <3>2. Bounded(r, s, i, 0)
      BY <1>0, <1>1, <2>4, <2>5, <3>1 DEF Bounded
    <3> QED  BY <2>4, <2>5, <3>1, <3>2, Zenon DEF r
  <2>6. CASE k.state = "ok"
    <3>1. r = [k EXCEPT !.at = eat_space(s, k.at)]
      BY <1>2, <1>4, <2>6, Zenon
    <3>2. k.at \in 1 .. Len(s) + 1
      BY <1>0, <1>1, <2>4, <2>6
    <3>3. eat_space(s, k.at) \in k.at .. Len(s) + 1
      BY <3>2, EatSpace, Zenon
    <3>4. eat_space(s, k.at) \in i + 2 .. Len(s) + 1
      BY <1>0, <1>1, <2>4, <2>6, <3>3
    <3>5. r = [state |-> "ok", value |-> k.value, at |-> eat_space(s, k.at), nodes |-> 1]
      BY <2>4, <2>6, <3>1 DEF Bounded
    <3>6. Bounded(r, s, i, 0) /\ r.state = "ok" /\ r.at \in i + 2 .. Len(s) + 1 /\ r.nodes = 1
      BY <1>0, <1>1, <3>4, <3>5 DEF Bounded
    <3> QED  BY <3>6, Zenon DEF r
  <2> QED  BY <2>5, <2>6
<1> QED  BY <1>3, <1>4

(* What fails behind i, with m more nodes. *)
LEMMA FailedBehind ==
  ASSUME NEW s \in Texts, NEW i \in Nat, NEW j \in Nat, NEW m \in Nat, NEW d \in Nat, NEW e \in Nat,
         NEW r, Bounded(r, s, j, d), r.state # "ok", i + m + d <= j + e
  PROVE  Bounded([r EXCEPT !.nodes = r.nodes + m], s, i, e) /\ [r EXCEPT !.nodes = r.nodes + m].state # "ok"
<1> DEFINE n == Len(s)
           q == r.state
           v == r.value
           a == r.at
           w == r.nodes
           x == [state |-> q, value |-> v, at |-> a, nodes |-> w + m]
<1>0. n \in Nat
  BY TextIs
<1>1. w \in Nat /\ w <= n + 1 - j + d
  BY DEF Bounded
<1>7. q # "ok" /\ r.nodes = w /\ r = [state |-> q, value |-> v, at |-> a, nodes |-> w]
  BY Zenon DEF Bounded
<1> HIDE DEF q, v, a, w, n
<1>2. [r EXCEPT !.nodes = r.nodes + m] = x
  BY <1>7
<1>3. x.state = q /\ x.value = v /\ x.at = a /\ x.nodes = w + m
  OBVIOUS
<1>4. x = [state |-> x.state, value |-> x.value, at |-> x.at, nodes |-> x.nodes]
  OBVIOUS
<1> HIDE DEF x
<1>5. w + m \in Nat /\ w + m <= n + 1 - i + e
  BY <1>0, <1>1
<1>6. Bounded(x, s, i, e)
  BY <1>3, <1>4, <1>5, <1>7, Zenon DEF Bounded, n
<1> QED  BY <1>2, <1>3, <1>6, <1>7, Zenon

(* What is right of the positions behind i. *)
ValuesBehind(p, s, i) == \A k \in i + 1 .. Len(s) + 1 : RightValue(p["value"][k], s, k)
ListsBehind(p, s, i) ==
  \A what \in {"items", "pairs"}, k \in i + 1 .. Len(s) + 1 : RightList(p[what][k], s, k)

(* A pair is a node for itself, one for the key and those of its value, and    *)
(* takes the quotes of the key and the colon along.                            *)
LEMMA PairRight ==
  ASSUME NEW s \in Texts, NEW i \in 1 .. Len(s) + 1, NEW p, ValuesBehind(p, s, i)
  PROVE  Bounded(parse_pair(p, s, i), s, i, 0)
<1> DEFINE k == parse_key(s, i)
           v == p["value"][k.at + 1]
           r == parse_pair(p, s, i)
           pair == [key |-> k.value, value |-> v.value]
<1>0. Len(s) \in Nat
  BY TextIs
<1>1. /\ Bounded(k, s, i, 0)
      /\ k.state = "ok" => k.at \in i + 2 .. Len(s) + 1 /\ k.nodes = 1
      /\ k.state # "ok" => k.nodes = 0
  BY KeyRight
<1>2. r = IF k.state # "ok" THEN k
          ELSE IF Char(s, k.at) # ":" THEN Failed("error", k.at, k.nodes)
          ELSE IF v.state # "ok" THEN [v EXCEPT !.nodes = @ + k.nodes]
          ELSE Parsed(pair, v.at, k.nodes + v.nodes + 1)
  BY Zenon DEF parse_pair
<1> HIDE DEF k, r, pair
<1>3. CASE k.state # "ok"
  BY <1>1, <1>2, <1>3, Zenon DEF r
<1>4. CASE k.state = "ok" /\ Char(s, k.at) # ":"
  <2>1. r = Failed("error", k.at, 1)
    BY <1>1, <1>2, <1>4, Zenon
  <2>2. Bounded(r, s, i, 0)
    BY <1>0, <1>1, <1>4, <2>1, FailedRight
  <2> QED  BY <2>2 DEF r
<1>5. CASE k.state = "ok" /\ Char(s, k.at) = ":"
  <2>1. k.at \in i + 2 .. Len(s) + 1 /\ k.at \in Nat /\ k.nodes = 1
    BY <1>0, <1>1, <1>5
  <2>2. k.at <= Len(s)
    BY <1>5, <2>1, CharIs, Marks, Zenon
  <2>3. k.at + 1 \in i + 1 .. Len(s) + 1
    BY <1>0, <2>1, <2>2
  <2>4. Bounded(v, s, k.at + 1, 0)
    BY <2>3, Zenon DEF ValuesBehind, RightValue
  <2> HIDE DEF v
  <2>5. CASE v.state # "ok"
    <3>1. r = [v EXCEPT !.nodes = v.nodes + 1]
      BY <1>2, <1>5, <2>1, <2>5, Zenon
    <3>2. k.at + 1 \in Nat /\ i + 1 + 0 <= (k.at + 1) + 0 /\ i \in Nat /\ 0 \in Nat /\ 1 \in Nat
      BY <1>0, <2>1
    <3>3. Bounded(r, s, i, 0)
      BY <2>4, <2>5, <3>1, <3>2, FailedBehind, Zenon
    <3> QED  BY <3>3 DEF r
  <2>6. CASE v.state = "ok"
    <3>1. r = Parsed(pair, v.at, 1 + v.nodes + 1)
      BY <1>2, <1>5, <2>1, <2>6, Zenon
    <3>2. /\ v.at \in i + 1 .. Len(s) + 1 /\ 1 + v.nodes + 1 \in Nat
          /\ 1 + v.nodes + 1 <= v.at - i
      <4> DEFINE a == k.at
                 b == v.at
                 m == v.nodes
      <4>1. b \in (a + 1) + 1 .. Len(s) + 1 /\ m \in Nat /\ m <= b - (a + 1)
        BY <2>4, <2>6, Zenon DEF Bounded
      <4>2. a \in i + 2 .. Len(s) + 1
        BY <2>1
      <4> HIDE DEF a, b, m
      <4>3. b \in i + 1 .. Len(s) + 1 /\ 1 + m + 1 \in Nat /\ 1 + m + 1 <= b - i
        BY <1>0, <4>1, <4>2
      <4> QED  BY <4>3, Zenon DEF b, m
    <3>3. Bounded(r, s, i, 0)
      BY <3>1, <3>2, ParsedRight
    <3> QED  BY <3>3 DEF r
  <2> QED  BY <2>5, <2>6
<1> QED  BY <1>3, <1>4, <1>5

LEMMA Prefixed ==
  ASSUME NEW x, NEW y, IsSequence(y)
  PROVE  IsSequence(<<x>> \o y)
<1>1. PICK S : y \in Seq(S)
  BY DEF IsSequence
<1>2. y \in Seq(S \cup {x}) /\ <<x>> \in Seq(S \cup {x})
  BY <1>1, SeqMonotonic
<1>3. <<x>> \o y \in Seq(S \cup {x})
  BY <1>2, ConcatProperties
<1> QED  BY <1>3 DEF IsSequence

LEMMA Single == \A x : IsSequence(<<x>>) /\ IsSequence(<<>>)
<1>1. \A x : <<x>> \in Seq({x}) /\ <<>> \in Seq({x})
  OBVIOUS
<1> QED  BY <1>1, Zenon DEF IsSequence

LEMMA ListParsed ==
  ASSUME NEW s \in Texts, NEW i \in Nat, NEW v, IsSequence(v), NEW at \in i + 1 .. Len(s) + 1,
         NEW n \in Nat, n <= at - i
  PROVE  RightList(Parsed(v, at, n), s, i)
<1>1. Bounded(Parsed(v, at, n), s, i, 1) /\ Parsed(v, at, n).value = v
  BY ParsedRight
<1> QED  BY <1>1, Zenon DEF RightList

LEMMA ListFailed ==
  ASSUME NEW s \in Texts, NEW i \in Nat, NEW at, NEW n \in Nat, n <= Len(s) + 1 - i + 1
  PROVE  RightList(Failed("error", at, n), s, i)
<1>1. Bounded(Failed("error", at, n), s, i, 1) /\ Failed("error", at, n).state # "ok"
  BY FailedRight
<1> QED  BY <1>1, Zenon DEF RightList

(* What comes behind an element that ends at a, after n nodes with its own.    *)
LEMMA RestRight ==
  ASSUME NEW s \in Texts, NEW i \in Nat, NEW a \in Nat, NEW n \in Nat, i + 1 <= a, n <= a - i + 1,
         NEW v, NEW r, RightList(r, s, a + 1)
  PROVE  RightList(IF r.state = "ok" THEN Parsed(<<v>> \o r.value, r.at, n + r.nodes)
                   ELSE [r EXCEPT !.nodes = r.nodes + n], s, i)
<1>0. Len(s) \in Nat
  BY TextIs
<1>1. Bounded(r, s, a + 1, 1)
  BY Zenon DEF RightList
<1>2. CASE r.state = "ok"
  <2> DEFINE b == r.at
             m == r.nodes
             l == Len(s)
  <2>1. m \in Nat /\ b \in a + 2 .. l + 1 /\ m <= b - (a + 1)
    BY <1>1, <1>2 DEF Bounded
  <2>2. IsSequence(<<v>> \o r.value)
    BY <1>2, Prefixed DEF RightList
  <2>3. l \in Nat
    BY <1>0
  <2> HIDE DEF b, m, l
  <2>4. b \in i + 1 .. l + 1 /\ n + m \in Nat /\ n + m <= b - i
    BY <2>1, <2>3
  <2>5. RightList(Parsed(<<v>> \o r.value, b, n + m), s, i)
    BY <2>2, <2>4, ListParsed DEF l
  <2> QED  BY <1>2, <2>5 DEF b, m
<1>3. CASE r.state # "ok"
  <2>1. i + n + 1 <= (a + 1) + 1 /\ a + 1 \in Nat /\ 1 \in Nat
    OBVIOUS
  <2>2. Bounded([r EXCEPT !.nodes = r.nodes + n], s, i, 1) /\ [r EXCEPT !.nodes = r.nodes + n].state # "ok"
    BY <1>1, <1>3, <2>1, FailedBehind, Zenon
  <2> QED  BY <1>3, <2>2, Zenon DEF RightList
<1> QED  BY <1>2, <1>3, Zenon

Ends(bracket) == bracket # NUL /\ bracket # ","

(* Elements are a node each, and as many commas and the bracket.               *)
LEMMA ElementsRight ==
  ASSUME NEW s \in Texts, NEW i \in 1 .. Len(s) + 1, NEW p, NEW rest \in {"items", "pairs"},
         NEW first, Bounded(first, s, i, 0), ListsBehind(p, s, i), NEW bracket, Ends(bracket)
  PROVE  RightList(Elements(p, s, first, rest, bracket), s, i)
<1> DEFINE l == Len(s)
           a == first.at
           n == first.nodes + 1
           r == p[rest][a + 1]
           el == Elements(p, s, first, rest, bracket)
           comma == IF r.state = "ok" THEN Parsed(<<first.value>> \o r.value, r.at, n + r.nodes)
                    ELSE [r EXCEPT !.nodes = r.nodes + n]
           last == Parsed(<<first.value>>, a + 1, n)
           bad == Failed("error", a, n)
<1>0. l \in Nat /\ i \in Nat
  BY TextIs
<1>1. el = IF first.state # "ok" THEN first
           ELSE CASE Char(s, first.at) = ","     -> comma
                  [] Char(s, first.at) = bracket -> last
                  [] OTHER                       -> bad
  BY Zenon DEF Elements
<1> HIDE DEF comma, last, bad, el
<1>2. first.state # "ok" => el = first
  BY <1>1
<1>3. CASE first.state # "ok"
  <2>1. Bounded(first, s, i, 1)
    BY <1>0, <1>3 DEF Bounded
  <2> QED  BY <1>2, <1>3, <2>1, Zenon DEF RightList, el
<1>4. CASE first.state = "ok"
  <2>1. a \in Nat /\ i + 1 <= a /\ a <= l + 1 /\ n \in Nat /\ n <= a - i + 1
    BY <1>0, <1>4 DEF Bounded
  <2>2. Char(s, a) # NUL => a <= l
    BY <2>1, CharIs
  <2>3. a <= l => a + 1 \in i + 1 .. l + 1 /\ n <= (a + 1) - i
    BY <1>0, <2>1
  <2>4. n <= l + 1 - i + 1
    BY <1>0, <2>1
  <2> HIDE DEF a, n
  <2>5. a <= l => RightList(comma, s, i)
    <3> SUFFICES ASSUME a <= l PROVE RightList(comma, s, i)
      OBVIOUS
    <3>1. RightList(r, s, a + 1)
      BY <2>3, Zenon DEF ListsBehind, l
    <3> HIDE DEF r
    <3> QED  BY <1>0, <2>1, <3>1, RestRight DEF comma
  <2>6. a <= l => RightList(last, s, i)
    <3> SUFFICES ASSUME a <= l PROVE RightList(last, s, i)
      OBVIOUS
    <3>1. IsSequence(<<first.value>>)
      BY Single, Zenon
    <3> QED  BY <1>0, <2>1, <2>3, <3>1, ListParsed DEF last, l
  <2>7. RightList(bad, s, i)
    BY <1>0, <2>1, <2>4, ListFailed DEF bad, l
  <2>8. \/ Char(s, a) = "," /\ el = comma
        \/ Char(s, a) = bracket /\ el = last
        \/ el = bad
    BY <1>1, <1>4 DEF a, Ends
  <2>9. Char(s, a) \in {",", bracket} => Char(s, a) # NUL
    BY Marks, Zenon DEF Ends
  <2> QED  BY <2>2, <2>5, <2>6, <2>7, <2>8, <2>9, Zenon DEF el
<1> QED  BY <1>3, <1>4

-----------------------------------------------------------------------------
(* Every part of a text *)

LEMMA Sooner ==
  ASSUME NEW s \in Texts, NEW i \in Nat, NEW j \in Nat, NEW d \in Nat, NEW e \in Nat, i <= j,
         i + d <= j + e, NEW r, Bounded(r, s, j, d)
  PROVE  Bounded(r, s, i, e)
<1> DEFINE l == Len(s)
           a == r.at
           n == r.nodes
<1>0. l \in Nat
  BY TextIs
<1>1. /\ n \in Nat
      /\ r.state = "ok" => a \in j + 1 .. l + 1 /\ n <= a - j
      /\ r.state # "ok" => n <= l + 1 - j + d
  BY DEF Bounded
<1> HIDE DEF l, a, n
<1>2. /\ r.state = "ok" => a \in i + 1 .. l + 1 /\ n <= a - i
      /\ r.state # "ok" => n <= l + 1 - i + e
  BY <1>0, <1>1
<1> QED  BY <1>1, <1>2, Zenon DEF Bounded, l, a, n

(* The bracket before the elements makes up for the node of the last one.      *)
LEMMA WholeRight ==
  ASSUME NEW s \in Texts, NEW i \in Nat, NEW j \in Nat, i + 1 <= j, NEW kind, NEW r, RightList(r, s, j)
  PROVE  RightValue(Whole(kind, r), s, i)
<1>1. Bounded(r, s, i, 0)
  <2>1. Bounded(r, s, j, 1)
    BY Zenon DEF RightList
  <2>2. i <= j /\ i + 1 <= j + 0 /\ 0 \in Nat /\ 1 \in Nat
    OBVIOUS
  <2> QED  BY <2>1, <2>2, Sooner, Zenon
<1>2. CASE r.state # "ok"
  <2>1. Whole(kind, r) = r
    BY <1>2, Zenon DEF Whole
  <2> QED  BY <1>1, <1>2, <2>1, Zenon DEF RightValue
<1>3. CASE r.state = "ok"
  <2> DEFINE a == r.at
             n == r.nodes
             v == [kind |-> kind, elements |-> r.value]
             x == [state |-> "ok", value |-> v, at |-> a, nodes |-> n]
  <2>1. Whole(kind, r) = [r EXCEPT !.value = v]
    BY <1>3, Zenon DEF Whole
  <2> HIDE DEF v
  <2>2. [r EXCEPT !.value = v] = x
    BY <1>1, <1>3 DEF Bounded
  <2>3. x.state = "ok" /\ x.value = v /\ x.at = a /\ x.nodes = n
    OBVIOUS
  <2>4. v.elements = r.value
    BY DEF v
  <2>5. IsSequence(r.value)
    BY <1>3, Zenon DEF RightList
  <2>6. x = [state |-> x.state, value |-> x.value, at |-> x.at, nodes |-> x.nodes]
    OBVIOUS
  <2> HIDE DEF x
  <2>7. Bounded(x, s, i, 0)
    BY <1>1, <1>3, <2>3, <2>6, Zenon DEF Bounded
  <2>8. RightValue(x, s, i)
    BY <2>3, <2>4, <2>5, <2>7, Zenon DEF RightValue
  <2> QED  BY <2>1, <2>2, <2>8, Zenon
<1> QED  BY <1>2, <1>3

(* An empty array or object is a list without nodes. *)
LEMMA EmptyRight ==
  ASSUME NEW s \in Texts, NEW j \in Nat, j <= Len(s)
  PROVE  RightList(Parsed(<<>>, j + 1, 0), s, j)
<1>1. j + 1 \in j + 1 .. Len(s) + 1 /\ 0 \in Nat /\ 0 <= (j + 1) - j
  BY TextIs
<1>2. IsSequence(<<>>)
  BY Single, Zenon
<1> QED  BY <1>1, <1>2, ListParsed, Zenon

LEMMA ArrayRight ==
  ASSUME NEW s \in Texts, NEW i \in 1 .. Len(s), NEW p, ListsBehind(p, s, i)
  PROVE  RightValue(parse_array(p, s, i), s, i)
<1> DEFINE j == eat_space(s, i + 1)
           r == IF Char(s, j) = "]" THEN Parsed(<<>>, j + 1, 0) ELSE p["items"][j]
<1>0. Len(s) \in Nat /\ i \in Nat
  BY TextIs
<1>1. i + 1 \in 1 .. Len(s) + 1
  BY <1>0
<1>2. j \in i + 1 .. Len(s) + 1
  BY <1>1, EatSpace, Zenon
<1>3. parse_array(p, s, i) = Whole("array", r)
  BY Zenon DEF parse_array
<1>4. j \in Nat /\ i + 1 <= j
  BY <1>0, <1>2
<1>5. RightList(r, s, j)
  <2>1. Char(s, j) = "]" => j <= Len(s)
    BY <1>4, CharIs, Marks, Zenon
  <2>2. RightList(p["items"][j], s, j)
    BY <1>2, Zenon DEF ListsBehind
  <2> HIDE DEF j
  <2> QED  BY <1>4, <2>1, <2>2, EmptyRight, Zenon
<1> HIDE DEF j, r
<1> QED  BY <1>0, <1>3, <1>4, <1>5, WholeRight, Zenon

LEMMA ObjectRight ==
  ASSUME NEW s \in Texts, NEW i \in 1 .. Len(s), NEW p, ListsBehind(p, s, i)
  PROVE  RightValue(parse_object(p, s, i), s, i)
<1> DEFINE j == eat_space(s, i + 1)
           r == IF Char(s, j) = "}" THEN Parsed(<<>>, j + 1, 0) ELSE p["pairs"][j]
<1>0. Len(s) \in Nat /\ i \in Nat
  BY TextIs
<1>1. i + 1 \in 1 .. Len(s) + 1
  BY <1>0
<1>2. j \in i + 1 .. Len(s) + 1
  BY <1>1, EatSpace, Zenon
<1>3. parse_object(p, s, i) = Whole("object", r)
  BY Zenon DEF parse_object
<1>4. j \in Nat /\ i + 1 <= j
  BY <1>0, <1>2
<1>5. RightList(r, s, j)
  <2>1. Char(s, j) = "}" => j <= Len(s)
    BY <1>4, CharIs, Marks, Zenon
  <2>2. RightList(p["pairs"][j], s, j)
    BY <1>2, Zenon DEF ListsBehind
  <2> HIDE DEF j
  <2> QED  BY <1>4, <2>1, <2>2, EmptyRight, Zenon
<1> HIDE DEF j, r
<1> QED  BY <1>0, <1>3, <1>4, <1>5, WholeRight, Zenon

LEMMA DispatchedRight ==
  ASSUME NEW s \in Texts, NEW i \in 1 .. Len(s) + 1, NEW p, ListsBehind(p, s, i)
  PROVE  RightValue(Dispatched(p, s, i), s, i)
<1> DEFINE c == Char(s, i)
           num == parse_number(s, i)
           str == parse_string(s, i)
           arr == parse_array(p, s, i)
           obj == parse_object(p, s, i)
           idf == parse_identifier(s, i)
<1>0. Len(s) \in Nat /\ i \in Nat
  BY TextIs
<1>1. c # NUL => i \in 1 .. Len(s)
  BY <1>0, CharIs
<1>2. c # NUL => RightValue(num, s, i) /\ RightValue(str, s, i) /\ RightValue(arr, s, i) /\ RightValue(obj, s, i)
  <2>1. ASSUME i \in 1 .. Len(s) PROVE RightValue(num, s, i)
    BY <2>1, NumberRight, Zenon
  <2>2. ASSUME i \in 1 .. Len(s) PROVE RightValue(str, s, i)
    BY <2>2, StringRight, Zenon
  <2>3. ASSUME i \in 1 .. Len(s) PROVE RightValue(arr, s, i)
    BY <2>3, ArrayRight, Zenon
  <2>4. ASSUME i \in 1 .. Len(s) PROVE RightValue(obj, s, i)
    BY <2>4, ObjectRight, Zenon
  <2> QED  BY <1>1, <2>1, <2>2, <2>3, <2>4, Zenon
<1>3. RightValue(idf, s, i)
  BY IdentifierRight, Zenon
<1>4. Dispatched(p, s, i) =
        CASE c \in {"-", "1"} -> num
          [] c = QuoteMark    -> str
          [] c = "["          -> arr
          [] c = "{"          -> obj
          [] OTHER            -> idf
  BY Zenon DEF Dispatched
<1>5. c \in {"-", "1"} \/ c = QuoteMark \/ c = "[" \/ c = "{" => c # NUL
  BY Marks, Zenon
<1> HIDE DEF c, num, str, arr, obj, idf
<1> QED  BY <1>2, <1>3, <1>4, <1>5

LEMMA SpacedRight ==
  ASSUME NEW s \in Texts, NEW i \in 1 .. Len(s) + 1, NEW p, ListsBehind(p, s, i)
  PROVE  RightValue(Spaced(p, s, i), s, i)
<1> DEFINE l == Len(s)
           j == eat_space(s, i)
           v == Dispatched(p, s, j)
           r == Spaced(p, s, i)
<1>0. l \in Nat /\ i \in Nat
  BY TextIs
<1>1. j \in i .. l + 1
  BY EatSpace, Zenon
<1>2. j \in 1 .. l + 1 /\ j \in Nat /\ i <= j /\ i + 0 <= j + 0 /\ 0 \in Nat
  BY <1>0, <1>1
<1>3. RightValue(v, s, j)
  <2>1. ListsBehind(p, s, j)
    <3>1. \A k \in j + 1 .. Len(s) + 1 : k \in i + 1 .. Len(s) + 1
      BY <1>0, <1>1
    <3> QED  BY <3>1, Zenon DEF ListsBehind
  <2> QED  BY <1>2, <2>1, DispatchedRight, Zenon
<1>4. r = IF v.state = "ok" THEN [v EXCEPT !.at = eat_space(s, v.at)] ELSE v
  BY Zenon DEF Spaced
<1> HIDE DEF j, v
<1>5. Bounded(v, s, i, 0)
  BY <1>0, <1>2, <1>3, Sooner, Zenon DEF RightValue
<1>6. CASE v.state # "ok"
  <2>1. r = v
    BY <1>4, <1>6, Zenon
  <2> QED  BY <1>5, <1>6, <2>1, Zenon DEF RightValue, r
<1>7. CASE v.state = "ok"
  <2> DEFINE a == v.at
             n == v.nodes
             b == eat_space(s, a)
             u == v.value
             x == [state |-> "ok", value |-> u, at |-> b, nodes |-> n]
  <2>1. a \in i + 1 .. l + 1 /\ n \in Nat /\ n <= a - i
    BY <1>5, <1>7 DEF Bounded
  <2>2. a \in 1 .. Len(s) + 1
    BY <1>0, <2>1
  <2>3. b \in a .. l + 1
    BY <2>2, EatSpace, Zenon
  <2>4. r = x
    <3>1. r = [v EXCEPT !.at = b]
      BY <1>4, <1>7, Zenon
    <3> HIDE DEF b
    <3> QED  BY <1>5, <1>7, <3>1 DEF Bounded
  <2> HIDE DEF a, b, n, r
  <2>5. b \in i + 1 .. l + 1 /\ n <= b - i
    BY <1>0, <2>1, <2>3
  <2>6. x.state = "ok" /\ x.value = u /\ x.at = b /\ x.nodes = n
        /\ x = [state |-> x.state, value |-> x.value, at |-> x.at, nodes |-> x.nodes]
    OBVIOUS
  <2>7. u.kind = "object" => IsSequence(u.elements)
    BY <1>3, <1>7, Zenon DEF RightValue
  <2> HIDE DEF x, u
  <2>8. Bounded(x, s, i, 0)
    BY <2>1, <2>5, <2>6, Zenon DEF Bounded
  <2> QED  BY <2>4, <2>6, <2>7, <2>8, Zenon DEF RightValue, r
<1> QED  BY <1>6, <1>7

Kinds == {"value", "items", "pairs"}
Places(s) == 1 .. Len(s) + 1

(* A part is made of parts of lower rank: those that begin later, and the      *)
(* values that lists begin with.                                               *)
Rank(s, what, i) == 2 * (Len(s) + 1 - i) + (IF what = "value" THEN 0 ELSE 1)

RightPart(what, r, s, i) == IF what = "value" THEN RightValue(r, s, i) ELSE RightList(r, s, i)

RightBelow(p, s, d) ==
  \A what \in Kinds, i \in Places(s) : Rank(s, what, i) < d => RightPart(what, p[what][i], s, i)

LEMMA RankIs ==
  ASSUME NEW s \in Texts, NEW what \in Kinds, NEW i \in Places(s)
  PROVE  Rank(s, what, i) \in Nat /\ Rank(s, what, i) < 2 * Len(s) + 2
BY TextIs DEF Rank, Places

LEMMA RanksBehind ==
  ASSUME NEW s \in Texts, NEW i \in Places(s), NEW k \in i + 1 .. Len(s) + 1, NEW what \in Kinds
  PROVE  k \in Places(s) /\ \A w \in Kinds : Rank(s, what, k) < Rank(s, w, i)
BY TextIs DEF Rank, Places

LEMMA RankOfValue ==
  ASSUME NEW s \in Texts, NEW i \in Places(s), NEW what \in {"items", "pairs"}
  PROVE  Rank(s, "value", i) < Rank(s, what, i)
BY TextIs DEF Rank, Places

LEMMA BehindRight ==
  ASSUME NEW s \in Texts, NEW p, NEW what \in Kinds, NEW i \in Places(s), RightBelow(p, s, Rank(s, what, i))
  PROVE  ValuesBehind(p, s, i) /\ ListsBehind(p, s, i)
<1>1. ASSUME NEW w \in Kinds, NEW k \in i + 1 .. Len(s) + 1
      PROVE  RightPart(w, p[w][k], s, k)
  BY RanksBehind, Zenon DEF RightBelow
<1>2. "value" \in Kinds /\ \A w \in {"items", "pairs"} : w \in Kinds /\ w # "value"
  BY DEF Kinds
<1>3. ValuesBehind(p, s, i)
  BY <1>1, <1>2, Zenon DEF ValuesBehind, RightPart
<1>4. ListsBehind(p, s, i)
  BY <1>1, <1>2, Zenon DEF ListsBehind, RightPart
<1> QED  BY <1>3, <1>4

(* The value that the elements of an array begin with, at their own place.     *)
LEMMA FirstRight ==
  ASSUME NEW s \in Texts, NEW p, NEW i \in Places(s), RightBelow(p, s, Rank(s, "items", i))
  PROVE  Bounded(p["value"][i], s, i, 0)
<1>1. "items" \in {"items", "pairs"} /\ "value" \in Kinds
  BY DEF Kinds
<1> QED  BY <1>1, RankOfValue, Zenon DEF RightBelow, RightPart, RightValue

LEMMA PartIs ==
  ASSUME NEW p, NEW s, NEW i
  PROVE  /\ Part(p, s, "value", i) = Spaced(p, s, i)
         /\ Part(p, s, "items", i) = Elements(p, s, p["value"][i], "items", "]")
         /\ Part(p, s, "pairs", i) = Elements(p, s, parse_pair(p, s, i), "pairs", "}")
<1> DEFINE v == Spaced(p, s, i)
           a == Elements(p, s, p["value"][i], "items", "]")
           b == Elements(p, s, parse_pair(p, s, i), "pairs", "}")
<1>1. \A what : Part(p, s, what, i) = CASE what = "value" -> v [] what = "items" -> a [] what = "pairs" -> b
  BY Zenon DEF Part
<1> HIDE DEF v, a, b
<1> QED  BY <1>1 DEF v, a, b

LEMMA PartRight ==
  ASSUME NEW s \in Texts, NEW p, NEW what \in Kinds, NEW i \in Places(s), RightBelow(p, s, Rank(s, what, i))
  PROVE  RightPart(what, Part(p, s, what, i), s, i)
<1>1. ValuesBehind(p, s, i) /\ ListsBehind(p, s, i)
  BY BehindRight, Zenon
<1>2. CASE what = "value"
  <2>1. RightValue(Spaced(p, s, i), s, i)
    BY <1>1, SpacedRight, Zenon DEF Places
  <2>2. Part(p, s, "value", i) = Spaced(p, s, i)
    BY PartIs, Zenon
  <2> QED  BY <1>2, <2>1, <2>2, Zenon DEF RightPart
<1>3. CASE what = "items"
  <2>1. Bounded(p["value"][i], s, i, 0)
    BY <1>3, FirstRight, Zenon
  <2>2. Ends("]") /\ "items" # "value" /\ "items" \in {"items", "pairs"}
    BY Zenon DEF Ends, NUL
  <2>3. RightList(Elements(p, s, p["value"][i], "items", "]"), s, i)
    BY <1>1, <2>1, <2>2, ElementsRight, Zenon DEF Places
  <2>4. Part(p, s, "items", i) = Elements(p, s, p["value"][i], "items", "]")
    BY PartIs, Zenon
  <2> QED  BY <1>3, <2>2, <2>3, <2>4, Zenon DEF RightPart
<1>4. CASE what = "pairs"
  <2>1. Bounded(parse_pair(p, s, i), s, i, 0)
    BY <1>1, PairRight, Zenon DEF Places
  <2>2. Ends("}") /\ "pairs" # "value" /\ "pairs" \in {"items", "pairs"}
    BY Zenon DEF Ends, NUL
  <2>3. RightList(Elements(p, s, parse_pair(p, s, i), "pairs", "}"), s, i)
    BY <1>1, <2>1, <2>2, ElementsRight, Zenon DEF Places
  <2>4. Part(p, s, "pairs", i) = Elements(p, s, parse_pair(p, s, i), "pairs", "}")
    BY PartIs, Zenon
  <2> QED  BY <1>4, <2>2, <2>3, <2>4, Zenon DEF RightPart
<1> QED  BY <1>2, <1>3, <1>4, Zenon DEF Kinds

-----------------------------------------------------------------------------
(* A part depends on parts of lower rank only *)

AgreeBehind(p, q, s, i) == \A what \in Kinds, k \in i + 1 .. Len(s) + 1 : p[what][k] = q[what][k]

LEMMA PairLocal ==
  ASSUME NEW s \in Texts, NEW i \in Places(s), NEW p, NEW q, AgreeBehind(p, q, s, i)
  PROVE  parse_pair(p, s, i) = parse_pair(q, s, i)
<1> DEFINE k == parse_key(s, i)
           a == k.at
           v(f) == f["value"][a + 1]
           fine(w) == IF w.state # "ok" THEN [w EXCEPT !.nodes = @ + k.nodes]
                      ELSE Parsed([key |-> k.value, value |-> w.value], w.at, k.nodes + w.nodes + 1)
           bad == Failed("error", a, k.nodes)
<1>0. Len(s) \in Nat /\ "value" \in Kinds
  BY TextIs DEF Kinds
<1>1. k.state = "ok" => a \in i + 2 .. Len(s) + 1
  BY KeyRight, Zenon DEF Places
<1>2. \A f : parse_pair(f, s, i) = IF k.state # "ok" THEN k
                                   ELSE IF Char(s, a) # ":" THEN bad ELSE fine(v(f))
  BY Zenon DEF parse_pair
<1>3. k.state = "ok" /\ Char(s, a) = ":" => v(p) = v(q)
  <2> SUFFICES ASSUME k.state = "ok", Char(s, a) = ":"
               PROVE  v(p) = v(q)
    OBVIOUS
  <2>1. a \in i + 2 .. Len(s) + 1
    BY <1>1, Zenon
  <2> HIDE DEF k, a
  <2>2. a \in Nat
    BY <1>0, <2>1 DEF Places
  <2>3. a <= Len(s)
    BY <2>2, CharIs, Marks, Zenon
  <2>4. a + 1 \in i + 1 .. Len(s) + 1
    BY <1>0, <2>1, <2>3 DEF Places
  <2> QED  BY <1>0, <2>4, Zenon DEF AgreeBehind
<1> HIDE DEF k, a, v, fine, bad
<1> QED  BY <1>2, <1>3, Zenon

LEMMA ElementsLocal ==
  ASSUME NEW s \in Texts, NEW i \in Places(s), NEW p, NEW q, AgreeBehind(p, q, s, i),
         NEW rest \in Kinds, NEW first, Bounded(first, s, i, 0), NEW bracket
  PROVE  Elements(p, s, first, rest, bracket) = Elements(q, s, first, rest, bracket)
<1> DEFINE a == first.at
           n == first.nodes + 1
           v(f) == f[rest][a + 1]
           comma(w) == IF w.state = "ok" THEN Parsed(<<first.value>> \o w.value, w.at, n + w.nodes)
                       ELSE [w EXCEPT !.nodes = @ + n]
           final == Parsed(<<first.value>>, a + 1, n)
           bad == Failed("error", a, n)
<1>0. Len(s) \in Nat
  BY TextIs
<1>1. \A f : Elements(f, s, first, rest, bracket) =
               IF first.state # "ok" THEN first
               ELSE CASE Char(s, a) = ","     -> comma(v(f))
                      [] Char(s, a) = bracket -> final
                      [] OTHER                -> bad
  BY Zenon DEF Elements
<1>2. first.state = "ok" => a \in Nat /\ (a <= Len(s) => a + 1 \in i + 1 .. Len(s) + 1)
  BY <1>0 DEF Places, Bounded
<1>3. first.state = "ok" /\ Char(s, a) = "," => a + 1 \in i + 1 .. Len(s) + 1
  <2> HIDE DEF a
  <2> QED  BY <1>2, CharIs, Marks, Zenon
<1>4. first.state = "ok" /\ Char(s, a) = "," => v(p) = v(q)
  BY <1>3, Zenon DEF AgreeBehind
<1> HIDE DEF a, v, comma, final, bad
<1> QED  BY <1>1, <1>4

LEMMA ArrayLocal ==
  ASSUME NEW s \in Texts, NEW i \in 1 .. Len(s), NEW p, NEW q, AgreeBehind(p, q, s, i)
  PROVE  parse_array(p, s, i) = parse_array(q, s, i)
<1> DEFINE j == eat_space(s, i + 1)
<1>0. i + 1 \in 1 .. Len(s) + 1 /\ "items" \in Kinds
  BY TextIs DEF Kinds
<1>1. j \in i + 1 .. Len(s) + 1
  BY <1>0, EatSpace, Zenon
<1>2. p["items"][j] = q["items"][j]
  BY <1>0, <1>1, Zenon DEF AgreeBehind
<1> QED  BY <1>2, Zenon DEF parse_array

LEMMA ObjectLocal ==
  ASSUME NEW s \in Texts, NEW i \in 1 .. Len(s), NEW p, NEW q, AgreeBehind(p, q, s, i)
  PROVE  parse_object(p, s, i) = parse_object(q, s, i)
<1> DEFINE j == eat_space(s, i + 1)
<1>0. i + 1 \in 1 .. Len(s) + 1 /\ "pairs" \in Kinds
  BY TextIs DEF Kinds
<1>1. j \in i + 1 .. Len(s) + 1
  BY <1>0, EatSpace, Zenon
<1>2. p["pairs"][j] = q["pairs"][j]
  BY <1>0, <1>1, Zenon DEF AgreeBehind
<1> QED  BY <1>2, Zenon DEF parse_object

LEMMA DispatchedLocal ==
  ASSUME NEW s \in Texts, NEW i \in Places(s), NEW p, NEW q, AgreeBehind(p, q, s, i)
  PROVE  Dispatched(p, s, i) = Dispatched(q, s, i)
<1> DEFINE c == Char(s, i)
           num == parse_number(s, i)
           str == parse_string(s, i)
           arr == parse_array(p, s, i)
           obj == parse_object(p, s, i)
           idf == parse_identifier(s, i)
<1>1. c # NUL => i \in 1 .. Len(s)
  <2>0. i \in Nat
    BY TextIs DEF Places
  <2>1. c # NUL => i <= Len(s)
    BY <2>0, CharIs, Zenon
  <2> HIDE DEF c
  <2> QED  BY <2>1, TextIs DEF Places
<1>2. Dispatched(p, s, i) =
        CASE c \in {"-", "1"} -> num
          [] c = QuoteMark    -> str
          [] c = "["          -> arr
          [] c = "{"          -> obj
          [] OTHER            -> idf
  BY Zenon DEF Dispatched
<1>3. Dispatched(q, s, i) =
        CASE c \in {"-", "1"} -> num
          [] c = QuoteMark    -> str
          [] c = "["          -> parse_array(q, s, i)
          [] c = "{"          -> parse_object(q, s, i)
          [] OTHER            -> idf
  BY Zenon DEF Dispatched
<1>4. CASE c # NUL
  <2>1. parse_array(q, s, i) = arr
    BY <1>1, <1>4, ArrayLocal, Zenon
  <2>2. parse_object(q, s, i) = obj
    BY <1>1, <1>4, ObjectLocal, Zenon
  <2> HIDE DEF c, num, str, arr, obj, idf
  <2> QED  BY <1>2, <1>3, <2>1, <2>2, Zenon
<1>5. CASE c = NUL
  <2>1. c \notin {"-", "1"} /\ c # QuoteMark /\ c # "[" /\ c # "{"
    BY <1>5, Marks, Zenon
  <2> HIDE DEF c, num, str, arr, obj, idf
  <2>2. Dispatched(p, s, i) = idf
    BY <1>2, <2>1
  <2>3. Dispatched(q, s, i) = idf
    BY <1>3, <2>1
  <2> QED  BY <2>2, <2>3, Zenon
<1> QED  BY <1>4, <1>5

LEMMA SpacedLocal ==
  ASSUME NEW s \in Texts, NEW i \in Places(s), NEW p, NEW q, AgreeBehind(p, q, s, i)
  PROVE  Spaced(p, s, i) = Spaced(q, s, i)
<1> DEFINE j == eat_space(s, i)
<1>0. Len(s) \in Nat
  BY TextIs
<1>1. j \in i .. Len(s) + 1
  BY EatSpace, Zenon DEF Places
<1>2. AgreeBehind(p, q, s, j) /\ j \in Places(s)
  <2> HIDE DEF j
  <2>1. j \in Places(s) /\ \A k \in j + 1 .. Len(s) + 1 : k \in i + 1 .. Len(s) + 1
    BY <1>0, <1>1 DEF Places
  <2> QED  BY <2>1, Zenon DEF AgreeBehind
<1>3. Dispatched(p, s, j) = Dispatched(q, s, j)
  BY <1>2, DispatchedLocal, Zenon
<1> QED  BY <1>3, Zenon DEF Spaced

AgreeBelow(p, q, s, d) ==
  \A what \in Kinds, i \in Places(s) : Rank(s, what, i) < d => p[what][i] = q[what][i]

LEMMA PartLocal ==
  ASSUME NEW s \in Texts, NEW what \in Kinds, NEW i \in Places(s), NEW p, NEW q,
         AgreeBelow(p, q, s, Rank(s, what, i)), RightBelow(p, s, Rank(s, what, i))
  PROVE  Part(p, s, what, i) = Part(q, s, what, i)
<1>1. AgreeBehind(p, q, s, i)
  BY RanksBehind, Zenon DEF AgreeBelow, AgreeBehind
<1>2. CASE what = "value"
  <2>1. Spaced(p, s, i) = Spaced(q, s, i)
    BY <1>1, SpacedLocal, Zenon
  <2>2. \A f : Part(f, s, "value", i) = Spaced(f, s, i)
    BY PartIs, Zenon
  <2> QED  BY <1>2, <2>1, <2>2, Zenon
<1>3. CASE what = "items"
  <2>0. "items" \in {"items", "pairs"} /\ "value" \in Kinds /\ "items" \in Kinds
    BY DEF Kinds
  <2>1. p["value"][i] = q["value"][i]
    BY <1>3, <2>0, RankOfValue, Zenon DEF AgreeBelow
  <2>2. Bounded(p["value"][i], s, i, 0)
    BY <1>3, FirstRight, Zenon
  <2> DEFINE first == p["value"][i]
             bracket == "]"
  <2>5. Bounded(first, s, i, 0)
    BY <2>2
  <2> HIDE DEF first, bracket
  <2>3. Elements(p, s, first, "items", bracket) = Elements(q, s, first, "items", bracket)
    BY <1>1, <2>0, <2>5, ElementsLocal
  <2>4. \A f : Part(f, s, "items", i) = Elements(f, s, f["value"][i], "items", "]")
    BY PartIs, Zenon
  <2> QED  BY <1>3, <2>1, <2>3, <2>4, Zenon DEF first, bracket
<1>4. CASE what = "pairs"
  <2>0. "pairs" \in Kinds
    BY DEF Kinds
  <2>1. parse_pair(p, s, i) = parse_pair(q, s, i)
    BY <1>1, PairLocal, Zenon
  <2>2. Bounded(parse_pair(p, s, i), s, i, 0)
    BY BehindRight, PairRight, Zenon DEF Places
  <2> DEFINE first == parse_pair(p, s, i)
             bracket == "}"
  <2>5. Bounded(first, s, i, 0)
    BY <2>2
  <2> HIDE DEF first, bracket
  <2>3. Elements(p, s, first, "pairs", bracket) = Elements(q, s, first, "pairs", bracket)
    BY <1>1, <2>0, <2>5, ElementsLocal
  <2>4. \A f : Part(f, s, "pairs", i) = Elements(f, s, parse_pair(f, s, i), "pairs", "}")
    BY PartIs, Zenon
  <2> QED  BY <1>4, <2>1, <2>3, <2>4, Zenon DEF first, bracket
<1> QED  BY <1>2, <1>3, <1>4, Zenon DEF Kinds

-----------------------------------------------------------------------------
(* The whole text *)

(* A function that parses the parts of rank below d. *)
ParsesBelow(f, s, d) ==
  \A what \in Kinds, i \in Places(s) : Rank(s, what, i) < d => f[what][i] = Part(f, s, what, i)

LEMMA ParsesRight ==
  ASSUME NEW s \in Texts, NEW f, NEW d \in Nat, ParsesBelow(f, s, d)
  PROVE  RightBelow(f, s, d)
<1> DEFINE Wrong(what, i) == Rank(s, what, i) < d /\ ~RightPart(what, f[what][i], s, i)
           Bad == {e \in Nat : \E what \in Kinds, i \in Places(s) : Rank(s, what, i) = e /\ Wrong(what, i)}
<1>1. Bad = {}
  <2> SUFFICES ASSUME Bad # {}
               PROVE  FALSE
    OBVIOUS
  <2>1. PICK e \in Bad : \A l \in Bad : e <= l
    <3>1. Bad \subseteq Nat
      OBVIOUS
    <3> HIDE DEF Bad
    <3> QED  BY <3>1, Least
  <2>2. PICK what \in Kinds, i \in Places(s) : Rank(s, what, i) = e /\ Wrong(what, i)
    BY Zenon
  <2>3. ASSUME NEW w \in Kinds, NEW k \in Places(s), Rank(s, w, k) < e
        PROVE  RightPart(w, f[w][k], s, k)
    <3>1. Rank(s, w, k) \in Nat /\ e \in Nat
      BY RankIs
    <3>2. Rank(s, w, k) \notin Bad
      <4> HIDE DEF Bad
      <4> QED  BY <2>1, <2>3, <3>1
    <3>3. ~Wrong(w, k)
      BY <3>1, <3>2, Zenon
    <3>4. Rank(s, w, k) < d
      <4>1. e < d /\ Rank(s, what, i) \in Nat
        BY <2>2, RankIs, Zenon
      <4> QED  BY <2>3, <3>1, <4>1
    <3> QED  BY <3>3, <3>4, Zenon
  <2>4. RightBelow(f, s, Rank(s, what, i))
    BY <2>2, <2>3, Zenon DEF RightBelow
  <2>5. RightPart(what, Part(f, s, what, i), s, i)
    BY <2>4, PartRight, Zenon
  <2>6. f[what][i] = Part(f, s, what, i)
    BY <2>2, Zenon DEF ParsesBelow
  <2> QED  BY <2>2, <2>5, <2>6, Zenon
<1>2. \A what \in Kinds, i \in Places(s) : Rank(s, what, i) \in Nat
  BY RankIs, Zenon
<1> QED  BY <1>1, <1>2, Zenon DEF RightBelow

LEMMA ParsesExists ==
  ASSUME NEW s \in Texts, NEW d \in Nat
  PROVE  \E f : ParsesBelow(f, s, d)
<1> DEFINE Bad == {e \in Nat : ~ \E f : ParsesBelow(f, s, e)}
<1> SUFFICES ASSUME Bad # {}
             PROVE  FALSE
  BY Zenon
<1>1. PICK e \in Bad : \A l \in Bad : e <= l
  <2>1. Bad \subseteq Nat
    OBVIOUS
  <2> HIDE DEF Bad
  <2> QED  BY <2>1, Least
<1>2. e # 0
  <2>1. \A what \in Kinds, i \in Places(s) : ~(Rank(s, what, i) < 0)
    BY RankIs
  <2>2. ParsesBelow(<<>>, s, 0)
    BY <2>1, Zenon DEF ParsesBelow
  <2> QED  BY <2>2, Zenon
<1>3. e \in Nat /\ e - 1 \in Nat /\ e - 1 \notin Bad
  BY <1>1, <1>2
<1>4. PICK q : ParsesBelow(q, s, e - 1)
  BY <1>3, Zenon
<1>5. RightBelow(q, s, e - 1)
  BY <1>3, <1>4, ParsesRight, Zenon
<1> DEFINE part(what, j) == IF Rank(s, what, j) < e - 1 THEN q[what][j] ELSE Part(q, s, what, j)
           f == [what \in Kinds |-> [j \in Places(s) |-> part(what, j)]]
<1>6. \A what \in Kinds, j \in Places(s) : f[what][j] = part(what, j)
  <2> HIDE DEF part
  <2> QED  OBVIOUS
<1> HIDE DEF f
<1>7. ASSUME NEW what \in Kinds, NEW i \in Places(s), Rank(s, what, i) < e
      PROVE  f[what][i] = Part(f, s, what, i)
  <2> DEFINE r == Rank(s, what, i)
  <2>0. \A w \in Kinds, k \in Places(s) : Rank(s, w, k) < r => Rank(s, w, k) < e - 1
    <3>1. r \in Nat
      BY RankIs, Zenon
    <3>2. r < e
      BY <1>7
    <3> HIDE DEF r
    <3>3. \A w \in Kinds, k \in Places(s) : Rank(s, w, k) \in Nat
      BY RankIs, Zenon
    <3> QED  BY <1>3, <3>1, <3>2, <3>3
  <2>1. AgreeBelow(q, f, s, r)
    BY <1>6, <2>0, Zenon DEF AgreeBelow
  <2>2. RightBelow(q, s, r)
    BY <1>5, <2>0, Zenon DEF RightBelow
  <2>3. Part(q, s, what, i) = Part(f, s, what, i)
    BY <2>1, <2>2, PartLocal, Zenon
  <2>4. r < e - 1 => q[what][i] = Part(q, s, what, i)
    BY <1>4, Zenon DEF ParsesBelow
  <2> QED  BY <1>6, <2>3, <2>4, Zenon
<1>8. ParsesBelow(f, s, e)
  BY <1>7, Zenon DEF ParsesBelow
<1> QED  BY <1>8, Zenon

LEMMA ParseFunction ==
  ASSUME NEW s \in Texts, NEW i \in 1 .. Len(s) + 1
  PROVE  \E p : ParsesBelow(p, s, 2 * Len(s) + 2) /\ parse_value(s, i) = p["value"][i]
<1> DEFINE Fixed(p) == p = [what \in Kinds |-> [j \in Places(s) |-> Part(p, s, what, j)]]
           F == CHOOSE p : Fixed(p)
           d == 2 * Len(s) + 2
<1>0. d \in Nat
  BY TextIs
<1>1. \E p : Fixed(p)
  <2>1. PICK q : ParsesBelow(q, s, d)
    BY <1>0, ParsesExists, Zenon
  <2> DEFINE f == [what \in Kinds |-> [j \in Places(s) |-> q[what][j]]]
  <2>2. \A what \in Kinds, j \in Places(s) : f[what][j] = q[what][j]
    OBVIOUS
  <2>3. RightBelow(q, s, d)
    BY <1>0, <2>1, ParsesRight, Zenon
  <2> HIDE DEF f
  <2>4. ASSUME NEW what \in Kinds, NEW j \in Places(s)
        PROVE  q[what][j] = Part(f, s, what, j)
    <3>1. Rank(s, what, j) < d
      BY RankIs, Zenon
    <3>2. \A w \in Kinds, k \in Places(s) : Rank(s, w, k) < d
      BY RankIs, Zenon
    <3>3. AgreeBelow(q, f, s, Rank(s, what, j)) /\ RightBelow(q, s, Rank(s, what, j))
      BY <2>2, <2>3, <3>2, Zenon DEF AgreeBelow, RightBelow
    <3>4. Part(q, s, what, j) = Part(f, s, what, j)
      BY <3>3, PartLocal, ZenonT(60)
    <3>5. q[what][j] = Part(q, s, what, j)
      BY <2>1, <3>1, Zenon DEF ParsesBelow
    <3> QED  BY <3>4, <3>5, Zenon
  <2>5. Fixed(f)
    BY <2>4 DEF f
  <2> QED  BY <2>5, Zenon
<1>2. Fixed(F)
  BY <1>1, Zenon
<1>3. parse_value(s, i) = F["value"][i]
  BY Zenon DEF parse_value, Kinds, Places
<1> HIDE DEF F
<1>4. \A what \in Kinds, j \in Places(s) : F[what][j] = Part(F, s, what, j)
  BY <1>2
<1>5. ParsesBelow(F, s, d)
  BY <1>4, Zenon DEF ParsesBelow
<1> QED  BY <1>3, <1>5, Zenon

(* A parse of a text anywhere: a value takes characters, and no more nodes     *)
(* than these, and an object is a sequence of pairs.                           *)
LEMMA ParseValueRight ==
  ASSUME NEW s \in Texts, NEW i \in 1 .. Len(s) + 1
  PROVE  RightValue(parse_value(s, i), s, i)
<1> DEFINE d == 2 * Len(s) + 2
<1>0. d \in Nat /\ i \in Places(s) /\ "value" \in Kinds
  BY TextIs DEF Places, Kinds
<1>1. PICK p : ParsesBelow(p, s, d) /\ parse_value(s, i) = p["value"][i]
  BY ParseFunction, Zenon
<1>2. RightBelow(p, s, d)
  BY <1>0, <1>1, ParsesRight, Zenon
<1>3. Rank(s, "value", i) < d
  BY <1>0, RankIs, Zenon
<1>4. RightPart("value", p["value"][i], s, i)
  BY <1>0, <1>2, <1>3, Zenon DEF RightBelow
<1> QED  BY <1>1, <1>4, Zenon DEF RightPart

-----------------------------------------------------------------------------
(* Texts that are put together *)

LEMMA FunctionIsSeq ==
  ASSUME NEW n \in Nat, NEW T, NEW f \in [1 .. n -> T]
  PROVE  f \in Seq(T) /\ Len(f) = n
OBVIOUS

FlattenStep(f, seqs, i) == IF i = 1 THEN seqs[i] ELSE f[i - 1] \o seqs[i]
FlattensUpTo(f, seqs, d) == \A i \in 1 .. Len(seqs) : i <= d => f[i] = FlattenStep(f, seqs, i)

LEMMA FlattenExists ==
  ASSUME NEW S, NEW seqs \in Seq(Seq(S)), NEW d \in Nat
  PROVE  \E f : FlattensUpTo(f, seqs, d)
<1> DEFINE n == Len(seqs)
           Bad == {e \in Nat : ~ \E f : FlattensUpTo(f, seqs, e)}
<1> SUFFICES ASSUME Bad # {}
             PROVE  FALSE
  BY Zenon
<1>0. n \in Nat
  BY LenProperties
<1>1. PICK e \in Bad : \A l \in Bad : e <= l
  <2>1. Bad \subseteq Nat
    OBVIOUS
  <2> HIDE DEF Bad
  <2> QED  BY <2>1, Least
<1>2. e # 0
  <2>1. FlattensUpTo(<<>>, seqs, 0)
    BY <1>0 DEF FlattensUpTo
  <2> QED  BY <2>1, Zenon
<1>3. e \in Nat /\ e - 1 \in Nat /\ e - 1 \notin Bad
  BY <1>1, <1>2
<1>4. PICK q : FlattensUpTo(q, seqs, e - 1)
  BY <1>3, Zenon
<1> DEFINE f == [i \in 1 .. n |-> IF i <= e - 1 THEN q[i] ELSE FlattenStep(q, seqs, i)]
<1>5. \A i \in 1 .. n : i <= e => FlattenStep(f, seqs, i) = FlattenStep(q, seqs, i)
  <2> SUFFICES ASSUME NEW i \in 1 .. n, i <= e, i # 1
               PROVE  f[i - 1] = q[i - 1]
    BY DEF FlattenStep
  <2>1. i - 1 \in 1 .. n /\ i - 1 <= e - 1
    BY <1>0, <1>3
  <2> QED  BY <2>1
<1>6. \A i \in 1 .. n : i <= e => f[i] = FlattenStep(q, seqs, i)
  BY <1>4 DEF FlattensUpTo
<1> HIDE DEF f
<1>7. FlattensUpTo(f, seqs, e)
  BY <1>5, <1>6, Zenon DEF FlattensUpTo
<1> QED  BY <1>3, <1>7, Zenon

LEMMA FlattenIs ==
  ASSUME NEW S, NEW seqs \in Seq(Seq(S))
  PROVE  FlattenSeq(seqs) \in Seq(S)
<1> DEFINE n == Len(seqs)
           Flat(f) == f = [i \in 1 .. n |-> FlattenStep(f, seqs, i)]
           F == CHOOSE f : Flat(f)
<1>0. n \in Nat
  BY LenProperties
<1>1. CASE n = 0
  <2>1. FlattenSeq(seqs) = seqs
    BY <1>1, Zenon DEF FlattenSeq
  <2>2. seqs = <<>>
    BY <1>1, EmptySeq
  <2> QED  BY <2>1, <2>2, EmptySeq
<1>2. CASE n # 0
  <2>1. \E f : Flat(f)
    <3>1. PICK q : FlattensUpTo(q, seqs, n)
      BY <1>0, FlattenExists, Zenon
    <3> DEFINE f == [i \in 1 .. n |-> q[i]]
    <3>2. \A i \in 1 .. n : q[i] = FlattenStep(q, seqs, i)
      BY <1>0, <3>1 DEF FlattensUpTo
    <3>3. \A i \in 1 .. n : FlattenStep(f, seqs, i) = FlattenStep(q, seqs, i)
      <4> SUFFICES ASSUME NEW i \in 1 .. n, i # 1
                   PROVE  f[i - 1] = q[i - 1]
        BY DEF FlattenStep
      <4>1. i - 1 \in 1 .. n
        BY <1>0
      <4> QED  BY <4>1
    <3>4. Flat(f)
      BY <3>2, <3>3
    <3> QED  BY <3>4
  <2>2. Flat(F)
    BY <2>1, Zenon
  <2>3. FlattenSeq(seqs) = F[n]
    BY <1>2, Zenon DEF FlattenSeq, FlattenStep
  <2> HIDE DEF F
  <2>4. \A i \in 1 .. n : F[i] = FlattenStep(F, seqs, i)
    BY <2>2
  <2> DEFINE Bad == {i \in 1 .. n : F[i] \notin Seq(S)}
  <2>5. Bad = {}
    <3> SUFFICES ASSUME Bad # {}
                 PROVE  FALSE
      OBVIOUS
    <3>1. PICK i \in Bad : \A l \in Bad : i <= l
      <4>1. Bad \subseteq Nat
        BY <1>0
      <4> HIDE DEF Bad
      <4> QED  BY <4>1, Least
    <3>2. i \in 1 .. n /\ F[i] \notin Seq(S) /\ seqs[i] \in Seq(S)
      BY ElementOfSeq
    <3>3. i # 1 /\ F[i] = F[i - 1] \o seqs[i]
      BY <2>4, <3>2, Zenon DEF FlattenStep
    <3>4. i - 1 \in 1 .. n /\ ~(i <= i - 1)
      BY <1>0, <3>2, <3>3
    <3>5. F[i - 1] \in Seq(S)
      BY <3>1, <3>4, Zenon
    <3> QED  BY <3>2, <3>3, <3>5, ConcatProperties, Zenon
  <2>6. n \in 1 .. n
    BY <1>0, <1>2
  <2> QED  BY <2>3, <2>5, <2>6, Zenon
<1> QED  BY <1>1, <1>2

LEMMA TextsJoin ==
  ASSUME NEW s \in Texts, NEW u \in Texts
  PROVE  s \o u \in Texts
BY ConcatProperties, Zenon DEF Texts

LEMMA Character ==
  \A c \in {QuoteMark, ",", ":", "[", "]", "{", "}"} : <<c>> \in Texts
<1>1. \A T : \A c \in T : <<c>> \in Seq(T)
  OBVIOUS
<1>2. \A c \in {QuoteMark, ",", ":", "[", "]", "{", "}"} : c \in Characters
  BY Zenon DEF Characters
<1> QED  BY <1>1, <1>2, Zenon DEF Texts

LEMMA JoinedIs ==
  ASSUME NEW texts \in Seq(Texts)
  PROVE  Joined(texts) \in Texts
<1> DEFINE comma == <<",">>
           part(i) == texts[i] \o (IF i = Len(texts) THEN <<>> ELSE comma)
           parts == [i \in DOMAIN texts |-> part(i)]
<1>1. Len(texts) \in Nat /\ DOMAIN texts = 1 .. Len(texts)
  BY LenProperties
<1>2. comma \in Texts /\ <<>> \in Texts
  BY Character, EmptySeq, Zenon DEF Texts
<1>3. Joined(texts) = FlattenSeq(parts)
  BY Zenon DEF Joined
<1> HIDE DEF comma
<1>4. \A i \in 1 .. Len(texts) : part(i) \in Texts
  <2> SUFFICES ASSUME NEW i \in 1 .. Len(texts)
               PROVE  part(i) \in Texts
    OBVIOUS
  <2>1. texts[i] \in Texts
    BY ElementOfSeq, Zenon
  <2> QED  BY <1>2, <2>1, TextsJoin, Zenon
<1> HIDE DEF part
<1>5. parts \in [1 .. Len(texts) -> Texts]
  BY <1>1, <1>4
<1> HIDE DEF parts
<1>6. parts \in Seq(Texts)
  BY <1>1, <1>5, FunctionIsSeq, Zenon
<1> QED  BY <1>3, <1>6, FlattenIs, Zenon DEF Texts

LEMMA StringPrinted ==
  ASSUME NEW s \in Texts
  PROVE  print_string(s) \in Texts
<1>1. <<QuoteMark>> \in Texts
  BY Character, Zenon
<1> QED  BY <1>1, TextsJoin, Zenon DEF print_string

LEMMA ArrayMade ==
  ASSUME NEW list \in Seq(Texts)
  PROVE  make_array(list) \in Texts
<1> DEFINE open == <<"[">>
           close == <<"]">>
<1>1. open \in Texts /\ close \in Texts
  BY Character, Zenon
<1>2. Joined(list) \in Texts
  BY JoinedIs, Zenon
<1>3. make_array(list) = open \o Joined(list) \o close
  BY Zenon DEF make_array
<1> HIDE DEF open, close
<1>4. open \o Joined(list) \in Texts
  BY <1>1, <1>2, TextsJoin, Zenon
<1> QED  BY <1>1, <1>3, <1>4, TextsJoin, Zenon

LEMMA ObjectMade ==
  ASSUME NEW n \in Nat, NEW f \in [1 .. n -> Texts \X Texts]
  PROVE  make_object(f) \in Texts
<1> DEFINE open == <<"{">>
           close == <<"}">>
           colon == <<":">>
           member(i) == print_string(f[i][1]) \o colon \o print_string(f[i][2])
           members == [i \in DOMAIN f |-> member(i)]
<1>1. open \in Texts /\ close \in Texts /\ colon \in Texts
  BY Character, Zenon
<1>2. make_object(f) = open \o Joined(members) \o close
  BY Zenon DEF make_object
<1> HIDE DEF open, close, colon
<1>3. \A i \in 1 .. n : member(i) \in Texts
  <2> SUFFICES ASSUME NEW i \in 1 .. n
               PROVE  member(i) \in Texts
    OBVIOUS
  <2>1. f[i][1] \in Texts /\ f[i][2] \in Texts
    OBVIOUS
  <2> QED  BY <1>1, <2>1, StringPrinted, TextsJoin, Zenon
<1> HIDE DEF member
<1>4. members \in [1 .. n -> Texts]
  BY <1>3
<1> HIDE DEF members
<1>5. Joined(members) \in Texts
  BY <1>4, FunctionIsSeq, JoinedIs, Zenon
<1>6. open \o Joined(members) \in Texts
  BY <1>1, <1>5, TextsJoin, Zenon
<1> QED  BY <1>1, <1>2, <1>6, TextsJoin, Zenon

-----------------------------------------------------------------------------
(* The invariant of a program that reads *)

(* The nodes that were handed out or are still due come from what was read.    *)
ObjectsAreSequences == \A i \in DOMAIN docs : docs[i].kind = "object" => IsSequence(docs[i].elements)

Unread == IF state = "ok" THEN Len(text) ELSE 0

DocumentInv ==
  /\ given \in Texts /\ text \in Texts
  /\ pending \in Nat
  /\ IsFiniteSet(objects)
  /\ Cardinality(objects) + pending <= Len(given) - Unread
  /\ IsSequence(docs) /\ ObjectsAreSequences

LEMMA WiderText ==
  ASSUME NEW s \in Seq(STRING)
  PROVE  s \in Texts
<1>1. STRING \subseteq Characters
  BY Zenon DEF Characters
<1> QED  BY <1>1, SeqMonotonic, Zenon DEF Texts

LEMMA GivenIsText == DocumentInit => given \in Texts
<1> SUFFICES ASSUME DocumentInit
             PROVE  given \in Texts
  OBVIOUS
<1>1. ASSUME NEW n \in 0 .. MaxShort, NEW s \in [1 .. n -> Chars], Start(s)
      PROVE  given \in Texts
  <2>1. n \in Nat
    BY DocumentAssumption DEF DocumentAssumption
  <2>2. s \in Seq(Chars)
    BY <2>1, FunctionIsSeq, Zenon
  <2>3. s \in Seq(STRING)
    BY <2>2, SeqMonotonic, DocumentAssumption, Zenon DEF DocumentAssumption
  <2> QED  BY <1>1, <2>3, WiderText, Zenon DEF Start
<1>2. \A s \in Names \cup Strings \cup Longer : s \in Texts
  BY WiderText, DocumentAssumption, Zenon DEF DocumentAssumption
<1>3. ASSUME NEW s \in Cut(Longer), Start(s)
      PROVE  given \in Texts
  <2>0. PICK u \in Longer : \E n \in 0 .. Len(u) : s = SubSeq(u, 1, n)
    BY <1>3 DEF Cut
  <2>1. PICK n \in 0 .. Len(u) : s = SubSeq(u, 1, n)
    BY <2>0
  <2>2. u \in Texts
    BY <1>2, Zenon
  <2>3. n \in Int /\ 1 \in Int /\ \A i \in 1 .. n : u[i] \in Characters
    BY <2>2, TextIs, ElementOfSeq DEF Texts
  <2>4. SubSeq(u, 1, n) \in Seq(Characters)
    BY <2>3, SubSeqProperties, Zenon
  <2> QED  BY <1>3, <2>1, <2>4, Zenon DEF Start, Texts
<1>4. ASSUME NEW f \in Fields, StartCommand(f)
      PROVE  given \in Texts
  <2>1. PICK n \in 0 .. 2 : f \in [1 .. n -> Names \X Strings]
    BY <1>4 DEF Fields
  <2>2. n \in Nat /\ f \in [1 .. n -> Texts \X Texts]
    <3>1. Names \X Strings \subseteq Texts \X Texts
      BY <1>2
    <3> QED  BY <2>1, <3>1
  <2>3. make_object(f) \in Texts
    BY <2>2, ObjectMade, Zenon
  <2> QED  BY <1>4, <2>3, Zenon DEF StartCommand
<1>5. ASSUME NEW n \in 0 .. 2, NEW list \in [1 .. n -> Strings], Start(make_array(list))
      PROVE  given \in Texts
  <2>1. n \in Nat /\ list \in [1 .. n -> Texts]
    BY <1>2
  <2>2. make_array(list) \in Texts
    BY <2>1, FunctionIsSeq, ArrayMade, Zenon
  <2> QED  BY <1>5, <2>2, Zenon DEF Start
<1>6. \/ \E n \in 0 .. MaxShort : \E s \in [1 .. n -> Chars] : Start(s)
      \/ \E s \in Cut(Longer) : Start(s)
      \/ \E f \in Fields : StartCommand(f)
      \/ \E list \in UNION {[1 .. n -> Strings] : n \in 0 .. 2} : Start(make_array(list))
  BY Zenon DEF DocumentInit
<1>7. ASSUME NEW list \in UNION {[1 .. n -> Strings] : n \in 0 .. 2}, Start(make_array(list))
      PROVE  given \in Texts
  <2>1. PICK n \in 0 .. 2 : list \in [1 .. n -> Strings]
    OBVIOUS
  <2> QED  BY <1>5, <1>7, <2>1, Zenon
<1> QED  BY <1>1, <1>3, <1>4, <1>6, <1>7, Zenon

LEMMA DocumentInitInv == DocumentInit => DocumentInv
<1> SUFFICES ASSUME DocumentInit
             PROVE  DocumentInv
  OBVIOUS
<1>1. given \in Texts /\ text = given
  BY GivenIsText, Zenon DEF DocumentInit, Start, StartCommand
<1>2. docs = <<>> /\ state = "ok" /\ pending = 0 /\ objects = {}
  BY DEF DocumentInit, Init
<1>3. IsFiniteSet(objects) /\ Cardinality(objects) = 0
  BY <1>2, FS_EmptySet, Zenon
<1>4. IsSequence(docs)
  BY <1>2, Single, Zenon
<1>5. ObjectsAreSequences
  <2>1. DOMAIN docs = {}
    BY <1>2
  <2> QED  BY <2>1, Zenon DEF ObjectsAreSequences
<1>6. Len(given) \in Nat
  BY <1>1, TextIs, Zenon
<1>7. Cardinality(objects) + pending <= Len(given) - Unread
  BY <1>1, <1>2, <1>3, <1>6 DEF Unread
<1>8. pending \in Nat
  BY <1>2
<1> QED  BY <1>1, <1>3, <1>4, <1>5, <1>7, <1>8, Zenon DEF DocumentInv

(* What a parse makes of the program. *)
LEMMA ParseIs ==
  ASSUME DocumentInv, parse
  PROVE  /\ RightValue(parse_value(text, 1), text, 1)
         /\ Len(text) \in Nat
<1>1. text \in Texts
  BY Zenon DEF DocumentInv
<1>2. Len(text) \in Nat /\ 1 \in 1 .. Len(text) + 1
  BY <1>1, TextIs
<1> QED  BY <1>1, <1>2, ParseValueRight, Zenon

LEMMA RestOfText ==
  ASSUME NEW s \in Texts, NEW at \in 2 .. Len(s) + 1
  PROVE  SubSeq(s, at, Len(s)) \in Texts /\ Len(SubSeq(s, at, Len(s))) = Len(s) + 1 - at
<1>1. Len(s) \in Nat
  BY TextIs
<1>2. at \in Int /\ Len(s) \in Int /\ \A i \in at .. Len(s) : s[i] \in Characters
  BY <1>1, ElementOfSeq DEF Texts
<1>3. SubSeq(s, at, Len(s)) \in Seq(Characters)
  BY <1>2, SubSeqProperties, ZenonT(60)
<1>4. Len(SubSeq(s, at, Len(s))) = IF at <= Len(s) THEN Len(s) - at + 1 ELSE 0
  BY <1>2, SubSeqProperties, ZenonT(60)
<1> QED  BY <1>1, <1>3, <1>4 DEF Texts

LEMMA AppendIs ==
  ASSUME NEW x, IsSequence(x), NEW y
  PROVE  /\ IsSequence(Append(x, y))
         /\ \A i \in DOMAIN Append(x, y) : Append(x, y)[i] = y \/ (i \in DOMAIN x /\ Append(x, y)[i] = x[i])
<1>1. PICK S : x \in Seq(S)
  BY DEF IsSequence
<1>2. x \in Seq(S \cup {y}) /\ y \in S \cup {y}
  BY <1>1, SeqMonotonic
<1>3. Append(x, y) \in Seq(S \cup {y})
  BY <1>2
<1>4. Len(x) \in Nat /\ DOMAIN x = 1 .. Len(x)
  BY <1>2, LenProperties
<1>5. DOMAIN Append(x, y) = 1 .. Len(x) + 1
  BY <1>2, <1>4
<1>6. \A i \in 1 .. Len(x) + 1 : Append(x, y)[i] = IF i = Len(x) + 1 THEN y ELSE x[i]
  BY <1>2, <1>4
<1>7. \A i \in 1 .. Len(x) + 1 : i = Len(x) + 1 \/ i \in 1 .. Len(x)
  BY <1>4
<1> QED  BY <1>3, <1>4, <1>5, <1>6, <1>7, Zenon DEF IsSequence

LEMMA ParseInv ==
  ASSUME DocumentInv, parse
  PROVE  DocumentInv'
<1> DEFINE v == parse_value(text, 1)
           l == Len(text)
           c == Cardinality(objects)
<1>1. RightValue(v, text, 1) /\ l \in Nat
  BY ParseIs, Zenon
<1>2. /\ state = "ok" /\ pending = 0 /\ state' = v.state /\ pending' = v.nodes
      /\ IF v.state = "ok"
         THEN docs' = Append(docs, v.value) /\ text' = SubSeq(text, v.at, Len(text))
         ELSE UNCHANGED <<docs, text>>
      /\ given' = given /\ objects' = objects
  BY Zenon DEF parse, vars
<1>3. given \in Texts /\ text \in Texts /\ IsFiniteSet(objects) /\ IsSequence(docs) /\ ObjectsAreSequences
  BY Zenon DEF DocumentInv
<1>4. c \in Nat /\ Len(given) \in Nat
  BY <1>3, FS_CardinalityType, TextIs, Zenon
<1>5. c + pending <= Len(given) - Unread
  BY Zenon DEF DocumentInv
<1>6. c <= Len(given) - l
  BY <1>1, <1>2, <1>4, <1>5 DEF Unread
<1> HIDE DEF v
<1>7. CASE v.state = "ok"
  <2>1. v.at \in 2 .. l + 1 /\ v.nodes \in Nat /\ v.nodes <= v.at - 1
    BY <1>1, <1>7 DEF RightValue, Bounded
  <2>2. text' \in Texts /\ Len(text') = l + 1 - v.at
    BY <1>2, <1>3, <1>7, <2>1, RestOfText, Zenon
  <2>3. c + v.nodes <= Len(given) - Len(text')
    <3> DEFINE g == Len(given)
               w == Len(text')
               a == v.at
               m == v.nodes
    <3>1. a \in 2 .. l + 1 /\ m \in Nat /\ m <= a - 1 /\ w = l + 1 - a
      BY <2>1, <2>2
    <3>2. l \in Nat /\ c \in Nat /\ g \in Nat /\ c <= g - l
      BY <1>1, <1>4, <1>6
    <3> HIDE DEF c, l, g, w, a, m
    <3>3. c + m <= g - w
      BY <3>1, <3>2
    <3> QED  BY <3>3 DEF c, g, w, m
  <2>4. Unread' = Len(text')
    BY <1>2, <1>7, Zenon DEF Unread
  <2>5. docs' = Append(docs, v.value)
    BY <1>2, <1>7, Zenon
  <2>6. IsSequence(docs')
    BY <1>3, <2>5, AppendIs, Zenon
  <2>7. ObjectsAreSequences'
    <3> SUFFICES ASSUME NEW i \in DOMAIN docs', docs'[i].kind = "object"
                 PROVE  IsSequence(docs'[i].elements)
      BY Zenon DEF ObjectsAreSequences
    <3>1. docs'[i] = v.value \/ (i \in DOMAIN docs /\ docs'[i] = docs[i])
      BY <1>3, <2>5, AppendIs, Zenon
    <3>2. v.value.kind = "object" => IsSequence(v.value.elements)
      BY <1>1, <1>7, Zenon DEF RightValue
    <3> QED  BY <1>3, <3>1, <3>2, Zenon DEF ObjectsAreSequences
  <2>8. (c + pending <= Len(given) - Unread)'
    BY <1>2, <2>3, <2>4, Zenon
  <2> QED  BY <1>2, <1>3, <2>1, <2>2, <2>6, <2>7, <2>8, Zenon DEF DocumentInv
<1>8. CASE v.state # "ok"
  <2>1. v.nodes \in Nat /\ v.nodes <= l
    BY <1>1, <1>8 DEF RightValue, Bounded
  <2>2. Unread' = 0
    BY <1>2, <1>8, Zenon DEF Unread
  <2>3. c + v.nodes <= Len(given) - 0
    <3> HIDE DEF c, l
    <3> QED  BY <1>1, <1>4, <1>6, <2>1
  <2>4. (c + pending <= Len(given) - Unread)'
    BY <1>2, <2>2, <2>3, Zenon
  <2>5. docs' = docs /\ text' = text
    BY <1>2, <1>8, Zenon
  <2>6. ObjectsAreSequences'
    BY <1>3, <2>5, Zenon DEF ObjectsAreSequences
  <2> QED  BY <1>2, <1>3, <2>1, <2>4, <2>5, <2>6, Zenon DEF DocumentInv
<1> QED  BY <1>7, <1>8

LEMMA AllocateInv ==
  ASSUME DocumentInv, allocate
  PROVE  DocumentInv'
<1>1. /\ pending > 0 /\ pending' = pending - 1
      /\ objects' = objects \cup {Object(alloc, Rep)}
      /\ text' = text /\ given' = given /\ docs' = docs /\ state' = state
  BY Zenon DEF allocate, Allocate
<1>2. /\ given \in Texts /\ text \in Texts /\ pending \in Nat /\ IsFiniteSet(objects)
      /\ Cardinality(objects) + pending <= Len(given) - Unread
      /\ IsSequence(docs) /\ ObjectsAreSequences
  BY Zenon DEF DocumentInv
<1> DEFINE c == Cardinality(objects)
           d == Cardinality(objects')
           free == Len(given) - Unread
<1>3. IsFiniteSet(objects') /\ (d = c \/ d = c + 1)
  BY <1>1, <1>2, FS_AddElement, Zenon
<1>4. c \in Nat /\ free \in Int
  <2>1. Len(given) \in Nat /\ Len(text) \in Nat
    BY <1>2, TextIs, Zenon
  <2> QED  BY <1>2, <2>1, FS_CardinalityType DEF Unread
<1>5. free' = free
  BY <1>1, Zenon DEF Unread
<1>6. c + pending <= free
  BY <1>2
<1> HIDE DEF c, d, free
<1>7. pending' \in Nat /\ d + pending' <= free
  BY <1>1, <1>2, <1>3, <1>4, <1>6
<1>8. (c + pending <= free)'
  BY <1>5, <1>7, Zenon DEF c, d
<1>9. ObjectsAreSequences'
  BY <1>1, <1>2, Zenon DEF ObjectsAreSequences
<1> QED  BY <1>1, <1>2, <1>3, <1>7, <1>8, <1>9, Zenon DEF DocumentInv, c, free

LEMMA DocumentInvariant == DocumentSpec => []DocumentInv
<1>1. DocumentInv /\ [DocumentNext]_jvars => DocumentInv'
  <2> SUFFICES ASSUME DocumentInv, [DocumentNext]_jvars
               PROVE  DocumentInv'
    OBVIOUS
  <2>1. CASE UNCHANGED jvars
    BY <2>1, Zenon DEF jvars, vars, DocumentInv, ObjectsAreSequences, Unread
  <2> QED  BY <2>1, ParseInv, AllocateInv, Zenon DEF DocumentNext
<1> QED  BY DocumentInitInv, <1>1, PTL DEF DocumentSpec

-----------------------------------------------------------------------------

(* For every text that is given, no more nodes are allocated and due than      *)
(* characters have been read: a buffer of as many nodes as characters does for *)
(* any message (json.hpp:394-470, json.cpp:326-469, request.cpp:96-104).       *)
THEOREM JsonNodesAtMostChars == DocumentSpec => []NodesAtMostChars
<1>1. DocumentInv => NodesAtMostChars
  BY Zenon DEF DocumentInv, NodesAtMostChars, Unread
<1> QED  BY DocumentInvariant, <1>1, PTL

(* For every text that is given, a value that is read shortens what is left of *)
(* it, so that a caller that goes on behind it comes to the end                *)
(* (json.cpp:326-392).                                                         *)
THEOREM JsonEachParseReads == DocumentSpec => EachParseReads
<1>1. DocumentInv /\ [DocumentNext]_jvars => [docs' # docs => Len(text') < Len(text)]_jvars
  <2> SUFFICES ASSUME DocumentInv, parse, docs' # docs
               PROVE  Len(text') < Len(text)
    BY Zenon DEF DocumentNext, allocate, jvars
  <2> DEFINE v == parse_value(text, 1)
  <2>1. RightValue(v, text, 1) /\ Len(text) \in Nat
    BY ParseIs, Zenon
  <2>2. v.state = "ok" /\ text' = SubSeq(text, v.at, Len(text))
    BY Zenon DEF parse
  <2> HIDE DEF v
  <2>3. v.at \in 2 .. Len(text) + 1
    BY <2>1, <2>2 DEF RightValue, Bounded
  <2>4. Len(text') = Len(text) + 1 - v.at
    BY <2>2, <2>3, RestOfText, Zenon DEF DocumentInv
  <2> QED  BY <2>1, <2>3, <2>4
<1> QED  BY DocumentInvariant, <1>1, PTL DEF DocumentSpec, EachParseReads

(* The nodes that a program reads into are an allocator's work, so that what   *)
(* is proved of the allocator holds of them (json.hpp:394-470,                 *)
(* memory.cpp:40-81).                                                          *)
THEOREM JsonUsesAllocator == DocumentSpec => Spec
<1>1. DocumentInit => Init
  BY Zenon DEF DocumentInit
<1>2. [DocumentNext]_jvars => [Next]_vars
  BY Zenon DEF DocumentNext, jvars, parse, allocate, Next
<1> QED  BY <1>1, <1>2, PTL DEF DocumentSpec, Spec

-----------------------------------------------------------------------------
(* Lookups *)

(* The first of the places in a sequence that pass a test. *)
LEMMA FirstPlace ==
  ASSUME NEW I, I \subseteq Nat \ {0}, I # {}
  PROVE  Min(I) \in I /\ Min(I) # 0
<1>1. \E x \in I : \A y \in I : x <= y
  BY Least
<1>2. Min(I) \in I
  BY <1>1, Zenon DEF Min
<1> QED  BY <1>2

(* With no key that begins the name but the name itself, comparing keys by     *)
(* their length and by all of them is the same, and both lookups find the      *)
(* first pair (json.cpp:62-78, 143-156, json.hpp:83-100).                      *)
THEOREM JsonLookupsAgree == DocumentSpec => []LookupsAgree
<1>1. ASSUME NEW pairs, IsSequence(pairs), NEW name \in Names,
             \A k \in {p.key.chars : p \in ToSet(pairs)} : k = name \/ ~IsPrefix(k, name)
      PROVE  find(pairs, name) = Member(pairs, name)
  <2> DEFINE n == Len(pairs)
             chars(i) == pairs[i].key.chars
             keys == {p.key.chars : p \in ToSet(pairs)}
             I == {i \in 1 .. n : Equal(chars(i), name)}
             J == {i \in 1 .. n : chars(i) = name}
  <2>1. n \in Nat /\ DOMAIN pairs = 1 .. n
    BY <1>1, LenProperties DEF IsSequence
  <2>2. IsPrefix(name, name)
    <3>1. Len(name) \in Nat
      BY LenProperties, DocumentAssumption DEF DocumentAssumption
    <3> QED  BY <3>1 DEF IsPrefix
  <2>3. \A i \in 1 .. n : chars(i) \in keys
    BY <2>1, Zenon DEF ToSet
  <2>4. I = J
    BY <1>1, <2>2, <2>3, Zenon DEF Equal
  <2>5. name \in keys <=> J # {}
    BY <2>1, Zenon DEF ToSet
  <2>6. SelectInSeq(pairs, LAMBDA p : Equal(p.key.chars, name)) = IF I # {} THEN Min(I) ELSE 0
    BY Zenon DEF SelectInSeq
  <2>7. SelectInSeq(pairs, LAMBDA p : p.key.chars = name) = IF J # {} THEN Min(J) ELSE 0
    BY Zenon DEF SelectInSeq
  <2>8. DOMAIN map(pairs) = keys
    BY DEF map
  <2>9. name \in keys => map(pairs)[name] = pairs[SelectInSeq(pairs, LAMBDA p : p.key.chars = name)].value
    BY DEF map
  <2>10. J # {} => Min(J) # 0
    <3>1. J \subseteq Nat \ {0}
      BY <2>1
    <3> HIDE DEF J
    <3> QED  BY <3>1, FirstPlace, Zenon
  <2> HIDE DEF I, J, keys, chars, n
  <2>11. CASE J # {}
    <3>1. find(pairs, name) = <<pairs[Min(J)].value>>
      BY <2>4, <2>6, <2>10, <2>11, Zenon DEF find
    <3>2. Member(pairs, name) = <<pairs[Min(J)].value>>
      BY <2>5, <2>7, <2>8, <2>9, <2>11, Zenon DEF Member
    <3> QED  BY <3>1, <3>2, Zenon
  <2>12. CASE J = {}
    <3>1. find(pairs, name) = <<>>
      BY <2>4, <2>6, <2>12, Zenon DEF find
    <3>2. Member(pairs, name) = <<>>
      BY <2>5, <2>8, <2>12, Zenon DEF Member
    <3> QED  BY <3>1, <3>2, Zenon
  <2> QED  BY <2>11, <2>12
<1>2. DocumentInv => LookupsAgree
  <2> SUFFICES ASSUME DocumentInv, NEW i \in DOMAIN docs, docs[i].kind = "object", NEW name \in Names,
                      \A k \in {p.key.chars : p \in ToSet(docs[i].elements)} : k = name \/ ~IsPrefix(k, name)
               PROVE  find(docs[i].elements, name) = Member(docs[i].elements, name)
    BY Zenon DEF LookupsAgree
  <2>1. IsSequence(docs[i].elements)
    BY Zenon DEF DocumentInv, ObjectsAreSequences
  <2> QED  BY <1>1, <2>1, Zenon
<1> QED  BY DocumentInvariant, <1>2, PTL

-----------------------------------------------------------------------------
(* A text without the spaces that are not in strings *)

LEMMA LeastOfTwo ==
  ASSUME NEW a \in Nat, NEW b \in Nat
  PROVE  Min({a, b}) = IF a <= b THEN a ELSE b
<1> DEFINE m == IF a <= b THEN a ELSE b
<1>1. m \in {a, b} /\ \A y \in {a, b} : m <= y
  OBVIOUS
<1>2. \A x \in {a, b} : (\A y \in {a, b} : x <= y) => x = m
  OBVIOUS
<1>3. Min({a, b}) = CHOOSE x \in {a, b} : \A y \in {a, b} : x <= y
  BY Zenon DEF Min
<1> HIDE DEF m
<1> QED  BY <1>1, <1>2, <1>3, Zenon DEF m

(* Where a string that begins at i ends, in a text that may be cut before that. *)
StringEnd(s, i) == Min({Quote(s, i + 1), Len(s)})

LEMMA StringEndIs ==
  ASSUME NEW s \in Texts, NEW i \in 1 .. Len(s)
  PROVE  /\ StringEnd(s, i) \in i .. Len(s)
         /\ StringEnd(s, i) = IF Quote(s, i + 1) <= Len(s) THEN Quote(s, i + 1) ELSE Len(s)
<1> DEFINE q == Quote(s, i + 1)
<1>0. Len(s) \in Nat
  BY TextIs
<1>1. i + 1 \in 1 .. Len(s) + 2
  BY <1>0
<1>2. q \in i + 1 .. Len(s) + 2
  BY <1>1, QuoteIs, Zenon
<1>3. StringEnd(s, i) = Min({q, Len(s)})
  BY Zenon DEF StringEnd
<1> HIDE DEF q
<1>4. q \in Nat
  BY <1>0, <1>2
<1>5. StringEnd(s, i) = IF q <= Len(s) THEN q ELSE Len(s)
  BY <1>0, <1>3, <1>4, LeastOfTwo, Zenon
<1>6. StringEnd(s, i) \in i .. Len(s)
  BY <1>0, <1>2, <1>5
<1> QED  BY <1>5, <1>6 DEF q

SqueezeStep(s, f, i) ==
  IF i > Len(s) THEN <<>>
  ELSE IF s[i] = QuoteMark THEN SubSeq(s, i, StringEnd(s, i)) \o f[StringEnd(s, i) + 1]
  ELSE (IF s[i] \in Space THEN <<>> ELSE <<s[i]>>) \o f[i + 1]

SqueezesLast(f, s, d) == \A i \in Places(s) : Len(s) + 1 - i < d => f[i] = SqueezeStep(s, f, i)
Squeezes(f, s) == \A i \in Places(s) : f[i] = SqueezeStep(s, f, i)

(* A step takes from what is behind it. *)
LEMMA SqueezeLocal ==
  ASSUME NEW s \in Texts, NEW i \in Places(s), NEW f, NEW g,
         \A k \in i + 1 .. Len(s) + 1 : f[k] = g[k]
  PROVE  SqueezeStep(s, f, i) = SqueezeStep(s, g, i)
<1>0. Len(s) \in Nat
  BY TextIs
<1>1. CASE i > Len(s)
  BY <1>1, Zenon DEF SqueezeStep
<1>2. CASE ~(i > Len(s))
  <2>1. i \in 1 .. Len(s) /\ i + 1 \in i + 1 .. Len(s) + 1
    BY <1>0, <1>2 DEF Places
  <2>2. StringEnd(s, i) \in i .. Len(s)
    BY <2>1, StringEndIs, Zenon
  <2>3. StringEnd(s, i) + 1 \in i + 1 .. Len(s) + 1
    BY <1>0, <2>1, <2>2
  <2>4. f[StringEnd(s, i) + 1] = g[StringEnd(s, i) + 1] /\ f[i + 1] = g[i + 1]
    BY <2>1, <2>3, Zenon
  <2> QED  BY <1>2, <2>4, Zenon DEF SqueezeStep
<1> QED  BY <1>1, <1>2

LEMMA SqueezeExists ==
  ASSUME NEW s \in Texts, NEW d \in Nat
  PROVE  \E f : SqueezesLast(f, s, d)
<1> DEFINE n == Len(s)
           Bad == {e \in Nat : ~ \E f : SqueezesLast(f, s, e)}
<1> SUFFICES ASSUME Bad # {}
             PROVE  FALSE
  BY Zenon
<1>0. n \in Nat
  BY TextIs
<1>1. PICK e \in Bad : \A l \in Bad : e <= l
  <2>1. Bad \subseteq Nat
    OBVIOUS
  <2> HIDE DEF Bad
  <2> QED  BY <2>1, Least
<1>2. e # 0
  <2>1. SqueezesLast(<<>>, s, 0)
    BY <1>0 DEF SqueezesLast, Places
  <2> QED  BY <2>1, Zenon
<1>3. e \in Nat /\ e - 1 \in Nat /\ e - 1 \notin Bad
  BY <1>1, <1>2
<1>4. PICK q : SqueezesLast(q, s, e - 1)
  BY <1>3, Zenon
<1> DEFINE step(i) == SqueezeStep(s, q, i)
           f == [i \in Places(s) |-> IF n + 1 - i < e - 1 THEN q[i] ELSE step(i)]
<1>5. \A i \in Places(s) : f[i] = IF n + 1 - i < e - 1 THEN q[i] ELSE step(i)
  <2> HIDE DEF step
  <2> QED  OBVIOUS
<1> HIDE DEF f
<1>6. ASSUME NEW i \in Places(s), n + 1 - i < e
      PROVE  f[i] = SqueezeStep(s, f, i)
  <2>1. \A k \in i + 1 .. n + 1 : k \in Places(s) /\ n + 1 - k < e - 1
    BY <1>0, <1>3, <1>6 DEF Places
  <2>2. \A k \in i + 1 .. n + 1 : q[k] = f[k]
    BY <1>5, <2>1, Zenon
  <2>3. step(i) = SqueezeStep(s, f, i)
    BY <2>2, SqueezeLocal, Zenon
  <2>4. n + 1 - i < e - 1 => q[i] = step(i)
    BY <1>4, Zenon DEF SqueezesLast
  <2> QED  BY <1>5, <2>3, <2>4, Zenon
<1>7. SqueezesLast(f, s, e)
  BY <1>6, Zenon DEF SqueezesLast
<1> QED  BY <1>3, <1>7, Zenon

LEMMA SqueezedIs ==
  ASSUME NEW s \in Texts
  PROVE  \E f : Squeezes(f, s) /\ Squeezed(s) = f[1]
<1> DEFINE Fixed(f) == f = [i \in Places(s) |-> SqueezeStep(s, f, i)]
           F == CHOOSE f : Fixed(f)
<1>0. Len(s) \in Nat /\ 1 \in Places(s)
  BY TextIs DEF Places
<1>1. \E f : Fixed(f)
  <2>1. PICK q : SqueezesLast(q, s, Len(s) + 1)
    BY <1>0, SqueezeExists
  <2>2. \A i \in Places(s) : q[i] = SqueezeStep(s, q, i)
    BY <1>0, <2>1 DEF SqueezesLast, Places
  <2> DEFINE f == [i \in Places(s) |-> q[i]]
  <2>3. \A i \in Places(s) : f[i] = q[i]
    OBVIOUS
  <2>4. \A i \in Places(s) : \A k \in i + 1 .. Len(s) + 1 : k \in Places(s)
    BY <1>0 DEF Places
  <2> HIDE DEF f
  <2>5. ASSUME NEW i \in Places(s)
        PROVE  q[i] = SqueezeStep(s, f, i)
    <3>1. SqueezeStep(s, q, i) = SqueezeStep(s, f, i)
      BY <2>3, <2>4, SqueezeLocal, Zenon
    <3> QED  BY <2>2, <3>1, Zenon
  <2>6. Fixed(f)
    BY <2>5 DEF f
  <2> QED  BY <2>6, Zenon
<1>2. Fixed(F)
  BY <1>1, Zenon
<1>3. Squeezed(s) = F[1]
  BY Zenon DEF Squeezed, SqueezeStep, StringEnd, Places
<1> HIDE DEF F
<1>4. Squeezes(F, s)
  BY <1>2 DEF Squeezes
<1> QED  BY <1>3, <1>4, Zenon

(* A character of a text, and a part, are texts. *)
LEMMA CharacterOf ==
  ASSUME NEW s \in Texts, NEW i \in 1 .. Len(s)
  PROVE  <<s[i]>> \in Texts /\ <<s[i]>> # <<>> /\ Last(<<s[i]>>) = s[i]
<1> DEFINE c == s[i]
<1>1. c \in Characters
  BY ElementOfSeq, Zenon DEF Texts
<1> HIDE DEF c
<1>2. <<c>> \in Texts
  BY <1>1 DEF Texts
<1>3. Len(<<c>>) = 1 /\ <<c>>[1] = c /\ <<c>> # <<>>
  OBVIOUS
<1>4. Last(<<c>>) = c
  BY <1>3, Zenon DEF Last
<1> QED  BY <1>2, <1>3, <1>4, Zenon DEF c

LEMMA PartOfText ==
  ASSUME NEW s \in Texts, NEW i \in 1 .. Len(s), NEW e \in i .. Len(s)
  PROVE  LET x == SubSeq(s, i, e) IN x \in Texts /\ x # <<>> /\ Last(x) = s[e]
<1> DEFINE x == SubSeq(s, i, e)
<1>1. Len(s) \in Nat /\ i \in Int /\ e \in Int /\ i <= e
  BY TextIs
<1>2. \A k \in i .. e : s[k] \in Characters
  <2>1. \A k \in i .. e : k \in 1 .. Len(s)
    BY <1>1
  <2>2. \A k \in 1 .. Len(s) : s[k] \in Characters
    BY ElementOfSeq DEF Texts
  <2> QED  BY <2>1, <2>2, Zenon
<1>3. x \in Seq(Characters)
  BY <1>1, <1>2, SubSeqProperties, ZenonT(60)
<1>7. Len(x) = IF i <= e THEN e - i + 1 ELSE 0
  BY <1>1, <1>2, SubSeqProperties, ZenonT(60)
<1>8. \A k \in 1 .. e - i + 1 : x[k] = s[i + k - 1]
  BY <1>1
<1> DEFINE l == Len(x)
<1>9. l = IF i <= e THEN e - i + 1 ELSE 0
  BY <1>7
<1> HIDE DEF x, l
<1>4. l = e - i + 1 /\ e - i + 1 \in 1 .. e - i + 1 /\ i + (e - i + 1) - 1 = e
  BY <1>1, <1>9
<1>5. Last(x) = s[e]
  <2>1. x[e - i + 1] = s[i + (e - i + 1) - 1]
    BY <1>4, <1>8, Zenon
  <2> QED  BY <1>4, <2>1, Zenon DEF Last, l
<1>6. x # <<>>
  BY <1>1, <1>4, EmptySeq DEF l
<1> QED  BY <1>3, <1>5, <1>6, Zenon DEF x, Texts

(* What is squeezed is text. *)
LEMMA SqueezesTexts ==
  ASSUME NEW s \in Texts, NEW f, Squeezes(f, s)
  PROVE  \A i \in Places(s) : f[i] \in Texts
<1> DEFINE n == Len(s)
           Bad == {d \in Nat : \E i \in Places(s) : n + 1 - i = d /\ f[i] \notin Texts}
<1>0. n \in Nat
  BY TextIs
<1>1. Bad = {}
  <2> SUFFICES ASSUME Bad # {}
               PROVE  FALSE
    OBVIOUS
  <2>1. PICK d \in Bad : \A l \in Bad : d <= l
    <3>1. Bad \subseteq Nat
      OBVIOUS
    <3> HIDE DEF Bad
    <3> QED  BY <3>1, Least
  <2>2. PICK i \in Places(s) : n + 1 - i = d /\ f[i] \notin Texts
    OBVIOUS
  <2>3. ASSUME NEW k \in i + 1 .. n + 1
        PROVE  f[k] \in Texts
    <3>1. k \in Places(s) /\ n + 1 - k \in Nat /\ ~(d <= n + 1 - k)
      BY <1>0, <2>2 DEF Places
    <3> HIDE DEF Bad
    <3>2. n + 1 - k \notin Bad
      BY <2>1, <3>1, Zenon
    <3> QED  BY <3>1, <3>2, Zenon DEF Bad
  <2>4. f[i] = SqueezeStep(s, f, i)
    BY Zenon DEF Squeezes
  <2>5. <<>> \in Texts
    BY EmptySeq, Zenon DEF Texts
  <2>6. CASE i > n
    BY <2>2, <2>4, <2>5, <2>6, Zenon DEF SqueezeStep
  <2>7. CASE ~(i > n)
    <3>1. i \in 1 .. n /\ i + 1 \in i + 1 .. n + 1
      BY <1>0, <2>7 DEF Places
    <3>2. StringEnd(s, i) \in i .. n
      BY <3>1, StringEndIs, Zenon
    <3>3. StringEnd(s, i) + 1 \in i + 1 .. n + 1
      BY <1>0, <3>1, <3>2
    <3>5. SubSeq(s, i, StringEnd(s, i)) \in Texts
      BY <3>1, <3>2, PartOfText, Zenon
    <3>6. <<s[i]>> \in Texts
      BY <3>1, CharacterOf, Zenon
    <3>7. f[StringEnd(s, i) + 1] \in Texts /\ f[i + 1] \in Texts
      BY <2>3, <3>1, <3>3, Zenon
    <3> HIDE DEF Bad
    <3>8. CASE s[i] = QuoteMark
      <4>1. f[i] = SubSeq(s, i, StringEnd(s, i)) \o f[StringEnd(s, i) + 1]
        BY <2>4, <2>7, <3>8, Zenon DEF SqueezeStep
      <4> QED  BY <2>2, <3>5, <3>7, <4>1, TextsJoin, Zenon
    <3>9. CASE s[i] # QuoteMark
      <4>1. f[i] = (IF s[i] \in Space THEN <<>> ELSE <<s[i]>>) \o f[i + 1]
        BY <2>4, <2>7, <3>9, Zenon DEF SqueezeStep
      <4> QED  BY <2>2, <2>5, <3>6, <3>7, <4>1, TextsJoin, Zenon
    <3> QED  BY <3>8, <3>9
  <2> QED  BY <2>6, <2>7
<1>2. \A i \in Places(s) : n + 1 - i \in Nat
  BY <1>0 DEF Places
<1> QED  BY <1>1, <1>2, Zenon

-----------------------------------------------------------------------------
(* A parse takes along what the squeezed text begins with *)

Cuts == {"[", ",", ":", "\\"}

(* The squeezed rest at j is what the squeezed rest at i ends with. *)
Behind(f, i, j) == \E x \in Texts : f[i] = x \o f[j]

EndsCut(f, i) == f[i] # <<>> /\ Last(f[i]) \in Cuts
CutAt(f, i) == f[i] = <<>> \/ EndsCut(f, i)

LEMMA MoreMarks ==
  /\ \A c \in {",", ":", "[", "]", "{", "}", "-", "1"} : c # QuoteMark /\ c \notin Space
  /\ \A c \in {"[", ",", ":", "\\"} : c \in Cuts
BY Zenon DEF QuoteMark, Space, Cuts

LEMMA NoQuotes == QuoteMark \notin isnum /\ QuoteMark \notin isident /\ QuoteMark \notin Space
BY Zenon DEF QuoteMark, isnum, isident, Space

LEMMA BehindSelf ==
  ASSUME NEW s \in Texts, NEW f, Squeezes(f, s), NEW i \in Places(s)
  PROVE  Behind(f, i, i)
<1>1. f[i] \in Texts
  BY SqueezesTexts, Zenon
<1>2. <<>> \in Texts /\ f[i] = <<>> \o f[i]
  BY <1>1, EmptySeq, ConcatEmptySeq, Zenon DEF Texts
<1> QED  BY <1>2, Zenon DEF Behind

LEMMA BehindBehind ==
  ASSUME NEW s \in Texts, NEW f, Squeezes(f, s), NEW i \in Places(s), NEW j \in Places(s), NEW k \in Places(s),
         Behind(f, i, j), Behind(f, j, k)
  PROVE  Behind(f, i, k)
<1>1. PICK x \in Texts : f[i] = x \o f[j]
  BY Zenon DEF Behind
<1>2. PICK y \in Texts : f[j] = y \o f[k]
  BY Zenon DEF Behind
<1>3. f[k] \in Texts
  BY SqueezesTexts, Zenon
<1>4. (x \o y) \o f[k] = x \o (y \o f[k])
  <2> DEFINE z == f[k]
  <2>1. x \in Seq(Characters) /\ y \in Seq(Characters) /\ z \in Seq(Characters)
    BY <1>3, Zenon DEF Texts
  <2> HIDE DEF z
  <2>2. (x \o y) \o z = x \o (y \o z)
    BY <2>1, ConcatAssociative
  <2> QED  BY <2>2, Zenon DEF z
<1>5. x \o y \in Texts
  BY TextsJoin, Zenon
<1> QED  BY <1>1, <1>2, <1>4, <1>5, Zenon DEF Behind

LEMMA LastBehind ==
  ASSUME NEW x \in Texts, NEW y \in Texts, y # <<>>
  PROVE  x \o y # <<>> /\ Last(x \o y) = Last(y)
<1>1. Len(x) \in Nat /\ Len(y) \in Nat \ {0}
  BY EmptySeq, TextIs DEF Texts
<1>2. Len(x \o y) = Len(x) + Len(y)
  BY ConcatProperties, Zenon DEF Texts
<1>3. \A i \in 1 .. Len(x) + Len(y) : (x \o y)[i] = IF i <= Len(x) THEN x[i] ELSE y[i - Len(x)]
  BY ConcatProperties, Zenon DEF Texts
<1> DEFINE m == Len(x)
           n == Len(y)
           w == x \o y
<1> HIDE DEF m, n, w
<1>4. m + n \in 1 .. m + n /\ ~(m + n <= m) /\ (m + n) - m = n /\ m + n # 0
  BY <1>1 DEF m, n
<1>5. w[m + n] = y[n]
  BY <1>3, <1>4 DEF w, m, n
<1>6. Last(w) = w[m + n] /\ Last(y) = y[n]
  BY <1>2, Zenon DEF Last, w, m, n
<1>7. w # <<>>
  <2>1. Len(<<>>) = 0
    BY EmptySeq, Zenon
  <2> QED  BY <1>2, <1>4, <2>1, Zenon DEF w, m, n
<1> QED  BY <1>5, <1>6, <1>7, Zenon DEF w

LEMMA CutBehind ==
  ASSUME NEW s \in Texts, NEW f, Squeezes(f, s), NEW i \in Places(s), NEW j \in Places(s),
         Behind(f, i, j), EndsCut(f, j)
  PROVE  EndsCut(f, i)
<1>1. PICK x \in Texts : f[i] = x \o f[j]
  BY Zenon DEF Behind
<1>2. f[j] \in Texts /\ f[j] # <<>> /\ Last(f[j]) \in Cuts
  BY SqueezesTexts, Zenon DEF EndsCut
<1>3. x \o f[j] # <<>> /\ Last(x \o f[j]) = Last(f[j])
  BY <1>2, LastBehind, Zenon
<1> QED  BY <1>1, <1>2, <1>3, Zenon DEF EndsCut

(* A character outside a string. *)
LEMMA StepIs ==
  ASSUME NEW s \in Texts, NEW f, Squeezes(f, s), NEW i \in 1 .. Len(s), s[i] # QuoteMark
  PROVE  /\ i \in Places(s) /\ i + 1 \in Places(s)
         /\ f[i] = (IF s[i] \in Space THEN <<>> ELSE <<s[i]>>) \o f[i + 1]
<1>1. i \in Places(s) /\ i + 1 \in Places(s) /\ ~(i > Len(s))
  BY TextIs DEF Places
<1>2. f[i] = SqueezeStep(s, f, i)
  BY <1>1, Zenon DEF Squeezes
<1> QED  BY <1>1, <1>2, Zenon DEF SqueezeStep

LEMMA StepBehind ==
  ASSUME NEW s \in Texts, NEW f, Squeezes(f, s), NEW i \in 1 .. Len(s), s[i] # QuoteMark
  PROVE  Behind(f, i, i + 1)
<1>1. f[i] = (IF s[i] \in Space THEN <<>> ELSE <<s[i]>>) \o f[i + 1]
  BY StepIs, Zenon
<1>2. <<s[i]>> \in Texts /\ <<>> \in Texts
  BY CharacterOf, EmptySeq, Zenon DEF Texts
<1> QED  BY <1>1, <1>2, Zenon DEF Behind

(* A cut behind a character after which a value must follow. *)
LEMMA CutAfter ==
  ASSUME NEW s \in Texts, NEW f, Squeezes(f, s), NEW i \in 1 .. Len(s), s[i] # QuoteMark,
         s[i] \notin Space, s[i] \in Cuts, CutAt(f, i + 1)
  PROVE  EndsCut(f, i)
<1>1. /\ i \in Places(s) /\ i + 1 \in Places(s)
      /\ f[i] = <<s[i]>> \o f[i + 1]
  BY StepIs, Zenon
<1>2. CASE f[i + 1] = <<>>
  <2>1. <<s[i]>> \o <<>> = <<s[i]>>
    BY CharacterOf, ConcatEmptySeq, Zenon DEF Texts
  <2> QED  BY <1>1, <1>2, <2>1, CharacterOf, Zenon DEF EndsCut
<1>3. CASE EndsCut(f, i + 1)
  BY <1>1, <1>3, StepBehind, CutBehind, Zenon
<1> QED  BY <1>2, <1>3, Zenon DEF CutAt

(* Characters of a class without quotes. *)
LEMMA ClassBehind ==
  ASSUME NEW s \in Texts, NEW f, Squeezes(f, s), NEW i \in Places(s), NEW j \in i .. Len(s) + 1, NEW C,
         QuoteMark \notin C, \A k \in i .. j - 1 : s[k] \in C
  PROVE  j \in Places(s) /\ Behind(f, i, j)
<1> DEFINE Bad == {k \in i .. j : ~Behind(f, i, k)}
<1>0. Len(s) \in Nat /\ i \in Nat /\ j \in Nat /\ j \in Places(s) /\ j \in i .. j
  BY TextIs DEF Places
<1>1. Bad = {}
  <2> SUFFICES ASSUME Bad # {}
               PROVE  FALSE
    OBVIOUS
  <2>1. PICK k \in Bad : \A l \in Bad : k <= l
    <3>1. Bad \subseteq Nat
      BY <1>0
    <3> HIDE DEF Bad
    <3> QED  BY <3>1, Least
  <2>2. k # i
    BY BehindSelf, Zenon
  <2>3. k - 1 \in i .. j /\ ~(k <= k - 1) /\ k - 1 \in i .. j - 1 /\ k - 1 \in 1 .. Len(s) /\ (k - 1) + 1 = k
        /\ k \in Places(s) /\ k - 1 \in Places(s)
    BY <1>0, <2>2 DEF Places
  <2>4. Behind(f, i, k - 1)
    BY <2>1, <2>3, Zenon
  <2>5. s[k - 1] # QuoteMark
    BY <2>3, Zenon
  <2>6. Behind(f, k - 1, k)
    BY <2>3, <2>5, StepBehind, Zenon
  <2>7. Behind(f, i, k)
    BY <2>3, <2>4, <2>6, BehindBehind, Zenon
  <2> QED  BY <2>7, Zenon
<1> QED  BY <1>0, <1>1, Zenon

(* Spaces leave nothing. *)
LEMMA SpaceIsNothing ==
  ASSUME NEW s \in Texts, NEW f, Squeezes(f, s), NEW i \in Places(s)
  PROVE  eat_space(s, i) \in Places(s) /\ f[eat_space(s, i)] = f[i]
<1> DEFINE j == eat_space(s, i)
           Bad == {k \in i .. j : f[k] # f[i]}
<1>1. j \in i .. Len(s) + 1 /\ \A k \in i .. j - 1 : s[k] \in Space
  BY EatSpace, Zenon DEF Places
<1> HIDE DEF j
<1>0. Len(s) \in Nat /\ i \in Nat /\ j \in Nat /\ j \in Places(s) /\ j \in i .. j
  BY <1>1, TextIs DEF Places
<1>2. Bad = {}
  <2> SUFFICES ASSUME Bad # {}
               PROVE  FALSE
    OBVIOUS
  <2>1. PICK k \in Bad : \A l \in Bad : k <= l
    <3>1. Bad \subseteq Nat
      BY <1>0
    <3> HIDE DEF Bad
    <3> QED  BY <3>1, Least
  <2>2. k # i
    OBVIOUS
  <2>3. k - 1 \in i .. j /\ ~(k <= k - 1) /\ k - 1 \in i .. j - 1 /\ k - 1 \in 1 .. Len(s) /\ (k - 1) + 1 = k
        /\ k \in Places(s)
    BY <1>0, <1>1, <2>2 DEF Places
  <2>4. f[k - 1] = f[i]
    BY <2>1, <2>3, Zenon
  <2>5. s[k - 1] \in Space /\ s[k - 1] # QuoteMark
    BY <1>1, <2>3, NoQuotes, Zenon
  <2>6. f[k - 1] = <<>> \o f[k]
    BY <2>3, <2>5, StepIs, Zenon
  <2>7. f[k] \in Texts
    BY <2>3, SqueezesTexts, Zenon
  <2>8. <<>> \o f[k] = f[k]
    BY <2>7, ConcatEmptySeq, Zenon DEF Texts
  <2> QED  BY <2>4, <2>6, <2>8, Zenon
<1> QED  BY <1>0, <1>2, Zenon DEF j

-----------------------------------------------------------------------------
(* Where a text is cut *)

(* Only a backslash takes the scan over the end. *)
LEMMA QuoteOverrun ==
  ASSUME NEW s \in Texts, NEW i \in 1 .. Len(s) + 1, Quote(s, i) = Len(s) + 2
  PROVE  Len(s) \in 1 .. Len(s) /\ s[Len(s)] = "\\"
<1> DEFINE n == Len(s)
           bs == "\\"
<1>0. n \in Nat /\ i \in 1 .. n + 1 /\ i \in 1 .. n + 2
  BY TextIs
<1>1. PICK F : (\A j \in i .. n + 2 : F[j] = QuoteStep(s, F, j)) /\ Quote(s, i) = F[i]
  BY <1>0, QuoteFunction, Zenon
<1> DEFINE Overruns(j) == F[j] = n + 2 /\ ~(n \in 1 .. n /\ s[n] = bs)
           Bad == {d \in Nat : \E j \in i .. n + 1 : n + 2 - j = d /\ Overruns(j)}
<1>2. Bad = {}
  <2> SUFFICES ASSUME Bad # {}
               PROVE  FALSE
    OBVIOUS
  <2>1. PICK d \in Bad : \A l \in Bad : d <= l
    <3>1. Bad \subseteq Nat
      OBVIOUS
    <3> HIDE DEF Bad
    <3> QED  BY <3>1, Least
  <2>2. PICK j \in i .. n + 1 : n + 2 - j = d /\ Overruns(j)
    BY Zenon
  <2>3. j \in i .. n + 2 /\ F[j] = n + 2 /\ j # n + 2
    BY <1>0, <2>2
  <2> DEFINE k == IF s[j] = bs THEN j + 2 ELSE j + 1
  <2>4. F[j] = IF j > n \/ s[j] = QuoteMark THEN j ELSE F[k]
    BY <1>1, <2>3, Zenon DEF QuoteStep
  <2>5. ~(j > n) /\ F[j] = F[k]
    BY <2>3, <2>4, Zenon
  <2> HIDE DEF bs
  <2>6. j \in 1 .. n
    BY <1>0, <2>2, <2>5
  <2>7. k \in j + 1 .. n + 1
    BY <1>0, <2>2, <2>5, <2>6
  <2>8. k \in i .. n + 1 /\ n + 2 - k \in Nat /\ ~(d <= n + 2 - k)
    BY <1>0, <2>2, <2>6, <2>7
  <2>9. Overruns(k)
    BY <2>2, <2>5, Zenon
  <2> HIDE DEF Overruns, k
  <2>10. n + 2 - k \in Bad
    BY <2>8, <2>9, Zenon
  <2> HIDE DEF Bad
  <2> QED  BY <2>1, <2>8, <2>10, Zenon
<1>3. i \in i .. n + 1 /\ n + 2 - i \in Nat
  BY <1>0
<1>4. ~Overruns(i)
  BY <1>2, <1>3, Zenon
<1> QED  BY <1>1, <1>4, Zenon

-----------------------------------------------------------------------------
(* Every parse takes along what the squeezed text begins with, or finds it cut *)

Aligned(r, f, i) ==
  /\ r.state = "ok" => Behind(f, i, r.at)
  /\ r.state = "overrun" => CutAt(f, i)

(* One for which there is a character that cuts it. *)
Strict(r, f, i) ==
  /\ r.state = "ok" => Behind(f, i, r.at)
  /\ r.state = "overrun" => EndsCut(f, i)

LEMMA StrictAligned ==
  ASSUME NEW r, NEW f, NEW i, Strict(r, f, i)
  PROVE  Aligned(r, f, i)
BY Zenon DEF Strict, Aligned, CutAt

LEMMA SamePlace ==
  ASSUME NEW r, NEW f, NEW i, NEW j, f[i] = f[j]
  PROVE  /\ Aligned(r, f, j) => Aligned(r, f, i)
         /\ Strict(r, f, j) => Strict(r, f, i)
BY Zenon DEF Strict, Aligned, CutAt, EndsCut, Behind

(* Only how a parse ended and where matters. *)
LEMMA SameEnd ==
  ASSUME NEW r, NEW x, x.state = r.state, r.state = "ok" => x.at = r.at, NEW f, NEW i
  PROVE  /\ Aligned(r, f, i) => Aligned(x, f, i)
         /\ Strict(r, f, i) => Strict(x, f, i)
BY Zenon DEF Strict, Aligned

LEMMA ParsedStrict ==
  ASSUME NEW f, NEW i, NEW v, NEW at, NEW n, Behind(f, i, at)
  PROVE  Strict(Parsed(v, at, n), f, i)
<1>1. Parsed(v, at, n).state = "ok" /\ Parsed(v, at, n).at = at
  BY DEF Parsed
<1> QED  BY <1>1 DEF Strict

LEMMA ErrorStrict ==
  ASSUME NEW f, NEW i, NEW at, NEW n
  PROVE  Strict(Failed("error", at, n), f, i)
<1>1. Failed("error", at, n).state = "error"
  BY DEF Failed
<1> QED  BY <1>1 DEF Strict

LEMMA PlacesBehind ==
  ASSUME NEW s \in Texts, NEW i \in 1 .. Len(s)
  PROVE  i \in Places(s) /\ i + 1 \in Places(s)
BY TextIs DEF Places

LEMMA NothingAtEnd ==
  ASSUME NEW s \in Texts, NEW f, Squeezes(f, s), NEW i \in Places(s), i > Len(s)
  PROVE  f[i] = <<>>
BY Zenon DEF Squeezes, SqueezeStep

LEMMA ScanBehind ==
  ASSUME NEW s \in Texts, NEW f, Squeezes(f, s), NEW i \in 1 .. Len(s), s[i] # QuoteMark,
         NEW C, QuoteMark \notin C
  PROVE  Behind(f, i, After(s, i + 1, C))
<1> DEFINE j == After(s, i + 1, C)
<1>1. i \in Places(s) /\ i + 1 \in Places(s)
  BY PlacesBehind, Zenon
<1>2. j \in i + 1 .. Len(s) + 1 /\ \A k \in i + 1 .. j - 1 : s[k] \in C
  BY <1>1, AfterIs, Zenon DEF Places
<1> HIDE DEF j
<1>3. j \in Places(s) /\ Behind(f, i + 1, j)
  BY <1>1, <1>2, ClassBehind, Zenon
<1>4. Behind(f, i, i + 1)
  BY StepBehind, Zenon
<1>5. Behind(f, i, j)
  BY <1>1, <1>3, <1>4, BehindBehind, Zenon
<1> QED  BY <1>5, Zenon DEF j

LEMMA IdentifierAligned ==
  ASSUME NEW s \in Texts, NEW f, Squeezes(f, s), NEW i \in Places(s), i \in 1 .. Len(s) => s[i] # QuoteMark
  PROVE  Aligned(parse_identifier(s, i), f, i)
<1>1. CASE i > Len(s)
  <2>1. parse_identifier(s, i) = Failed("overrun", i, 0)
    BY <1>1, Zenon DEF parse_identifier
  <2>2. Failed("overrun", i, 0).state = "overrun"
    BY DEF Failed
  <2>3. f[i] = <<>>
    BY <1>1, NothingAtEnd, Zenon
  <2>4. Aligned(Failed("overrun", i, 0), f, i)
    BY <2>2, <2>3 DEF Aligned, CutAt
  <2> QED  BY <2>1, <2>4, Zenon
<1>2. CASE ~(i > Len(s))
  <2> DEFINE j == After(s, i + 1, isident)
  <2>1. i \in 1 .. Len(s)
    BY <1>2, TextIs DEF Places
  <2>2. parse_identifier(s, i) = Parsed(Terminal("identifier", s, i, j), j, 1)
    BY <1>2, Zenon DEF parse_identifier
  <2>3. Behind(f, i, j)
    BY <2>1, ScanBehind, NoQuotes, Zenon
  <2> HIDE DEF j
  <2> QED  BY <2>2, <2>3, ParsedStrict, StrictAligned, Zenon
<1> QED  BY <1>1, <1>2

LEMMA NumberAligned ==
  ASSUME NEW s \in Texts, NEW f, Squeezes(f, s), NEW i \in 1 .. Len(s), s[i] # QuoteMark
  PROVE  Strict(parse_number(s, i), f, i)
<1> DEFINE j == After(s, i + 1, isnum)
<1>1. parse_number(s, i) = Parsed(Terminal("number", s, i, j), j, 1)
  BY Zenon DEF parse_number
<1>2. Behind(f, i, j)
  BY ScanBehind, NoQuotes, Zenon
<1> HIDE DEF j
<1> QED  BY <1>1, <1>2, ParsedStrict, Zenon

LEMMA StringAligned ==
  ASSUME NEW s \in Texts, NEW f, Squeezes(f, s), NEW i \in 1 .. Len(s), s[i] = QuoteMark
  PROVE  Strict(parse_string(s, i), f, i)
<1> DEFINE j == Quote(s, i + 1)
           n == Len(s)
           e == StringEnd(s, i)
           v == Terminal("string", s, i + 1, j)
           r == parse_string(s, i)
<1>0. n \in Nat /\ i + 1 \in 1 .. n + 1 /\ i + 1 \in 1 .. n + 2 /\ ~(i > n) /\ i \in Places(s)
  BY TextIs DEF Places
<1>1. j \in i + 1 .. n + 2
  BY <1>0, QuoteIs, Zenon
<1>2. e \in i .. n /\ e = IF j <= n THEN j ELSE n
  BY StringEndIs, Zenon
<1>3. r = IF j <= n THEN Parsed(v, j + 1, 1)
          ELSE Failed(IF j = n + 1 THEN "error" ELSE "overrun", j, 0)
  BY Zenon DEF parse_string
<1>4. f[i] = SubSeq(s, i, e) \o f[e + 1]
  BY <1>0, Zenon DEF Squeezes, SqueezeStep
<1>5. SubSeq(s, i, e) \in Texts /\ SubSeq(s, i, e) # <<>> /\ Last(SubSeq(s, i, e)) = s[e]
  BY <1>2, PartOfText, Zenon
<1>6. j = n + 2 => n \in 1 .. n /\ s[n] = "\\"
  BY <1>0, QuoteOverrun, Zenon
<1> HIDE DEF j, e, v, r
<1>7. CASE j <= n
  <2>1. Behind(f, i, j + 1)
    BY <1>2, <1>4, <1>5, <1>7, Zenon DEF Behind
  <2> QED  BY <1>3, <1>7, <2>1, ParsedStrict, Zenon DEF r
<1>8. CASE j = n + 1
  <2>1. ~(j <= n)
    BY <1>0, <1>8
  <2>2. r = Failed("error", j, 0)
    BY <1>3, <1>8, <2>1, Zenon
  <2> QED  BY <2>2, ErrorStrict, Zenon DEF r
<1>9. CASE j = n + 2
  <2>1. ~(j <= n) /\ n + 1 \in Places(s) /\ n + 1 > Len(s)
    BY <1>0, <1>9 DEF Places
  <2>2. f[n + 1] = <<>>
    BY <2>1, NothingAtEnd, Zenon
  <2>3. e = n
    BY <1>2, <2>1, Zenon
  <2>4. f[i] = SubSeq(s, i, e)
    BY <1>4, <1>5, <2>2, <2>3, ConcatEmptySeq, Zenon DEF Texts
  <2>5. s[e] \in Cuts
    BY <1>6, <1>9, <2>3, MoreMarks, Zenon
  <2>6. EndsCut(f, i)
    BY <1>5, <2>4, <2>5, Zenon DEF EndsCut
  <2>7. r.state # "ok"
    <3>1. \A q : Failed(q, j, 0).state = q
      BY DEF Failed
    <3>2. r.state = "error" \/ r.state = "overrun"
      BY <1>3, <2>1, <3>1, Zenon
    <3> QED  BY <3>2
  <2> QED  BY <2>6, <2>7, Zenon DEF Strict, r
<1> QED  BY <1>0, <1>1, <1>7, <1>8, <1>9

LEMMA KeyAligned ==
  ASSUME NEW s \in Texts, NEW f, Squeezes(f, s), NEW i \in Places(s)
  PROVE  Strict(parse_key(s, i), f, i)
<1> DEFINE j == eat_space(s, i)
           k == parse_string(s, j)
           r == parse_key(s, i)
<1>1. j \in Places(s) /\ f[j] = f[i]
  BY SpaceIsNothing, Zenon
<1>2. r = IF Char(s, j) # QuoteMark THEN Failed("error", j, 0)
          ELSE IF k.state # "ok" THEN k ELSE [k EXCEPT !.at = eat_space(s, @)]
  BY Zenon DEF parse_key
<1> HIDE DEF j, r
<1>3. CASE Char(s, j) # QuoteMark
  BY <1>2, <1>3, ErrorStrict, Zenon DEF r
<1>4. CASE Char(s, j) = QuoteMark
  <2>0. j \in Nat /\ Len(s) \in Nat
    BY <1>1, TextIs DEF Places
  <2>1. j <= Len(s) /\ s[j] = QuoteMark
    BY <1>4, <2>0, CharIs, Marks, Zenon
  <2>2. j \in 1 .. Len(s)
    BY <1>1, <2>0, <2>1 DEF Places
  <2>3. Strict(k, f, j)
    BY <2>1, <2>2, StringAligned, Zenon
  <2>4. Bounded(k, s, j, 0) /\ (k.state = "ok" => k.at \in j + 2 .. Len(s) + 1)
    BY <2>2, StringRight DEF RightValue
  <2> HIDE DEF k
  <2>5. Strict(k, f, i)
    BY <1>1, <2>3, SamePlace, Zenon
  <2>6. CASE k.state # "ok"
    BY <1>2, <1>4, <2>5, <2>6, Zenon DEF r
  <2>7. CASE k.state = "ok"
    <3>1. r = [k EXCEPT !.at = eat_space(s, k.at)]
      BY <1>2, <1>4, <2>7, Zenon
    <3>2. k.at \in Places(s)
      BY <2>0, <2>4, <2>7 DEF Places
    <3>3. f[eat_space(s, k.at)] = f[k.at]
      <4>1. \A a \in Places(s) : f[eat_space(s, a)] = f[a]
        BY SpaceIsNothing, Zenon
      <4> QED  BY <3>2, <4>1, Zenon
    <3>4. r.state = "ok" /\ r.at = eat_space(s, k.at)
      BY <2>4, <2>7, <3>1 DEF Bounded
    <3>5. Behind(f, i, k.at)
      BY <2>5, <2>7, Zenon DEF Strict
    <3>6. Behind(f, i, r.at)
      BY <3>3, <3>4, <3>5, Zenon DEF Behind
    <3>7. r.state # "overrun"
      BY <3>4
    <3> QED  BY <3>6, <3>7, Zenon DEF Strict, r
  <2> QED  BY <2>6, <2>7
<1> QED  BY <1>3, <1>4

(* Marks that a value must follow. *)
Leads == {"[", ",", ":"}

LEMMA MarkStrict ==
  ASSUME NEW s \in Texts, NEW f, Squeezes(f, s), NEW i \in Places(s), NEW a \in 1 .. Len(s), Behind(f, i, a),
         s[a] \in Leads, NEW r, Aligned(r, f, a + 1), r.state = "ok" => r.at \in Places(s)
  PROVE  Strict(r, f, i)
<1>1. s[a] # QuoteMark /\ s[a] \notin Space /\ s[a] \in Cuts
  BY MoreMarks, Zenon DEF Leads
<1>2. a \in Places(s) /\ a + 1 \in Places(s)
  BY PlacesBehind, Zenon
<1>3. ASSUME r.state = "overrun"
      PROVE  EndsCut(f, i)
  <2>1. EndsCut(f, a)
    BY <1>1, <1>3, CutAfter, Zenon DEF Aligned
  <2> QED  BY <1>2, <2>1, CutBehind, Zenon
<1>4. ASSUME r.state = "ok"
      PROVE  Behind(f, i, r.at)
  <2>1. Behind(f, a, a + 1)
    BY <1>1, StepBehind, Zenon
  <2>2. Behind(f, a + 1, r.at) /\ r.at \in Places(s)
    BY <1>4, Zenon DEF Aligned
  <2>3. Behind(f, i, a + 1)
    BY <1>2, <2>1, BehindBehind, Zenon
  <2> QED  BY <1>2, <2>2, <2>3, BehindBehind, Zenon
<1> QED  BY <1>3, <1>4, Zenon DEF Strict

LEMMA MoreNodes ==
  ASSUME NEW v, NEW s, NEW i, NEW e, Bounded(v, s, i, e), NEW m
  PROVE  [v EXCEPT !.nodes = m].state = v.state /\ [v EXCEPT !.nodes = m].at = v.at
<1> DEFINE q == v.state
           u == v.value
           a == v.at
           w == v.nodes
<1>1. v = [state |-> q, value |-> u, at |-> a, nodes |-> w]
  BY Zenon DEF Bounded
<1> HIDE DEF q, u, a, w
<1>2. [v EXCEPT !.nodes = m] = [state |-> q, value |-> u, at |-> a, nodes |-> m]
  BY <1>1
<1>3. [v EXCEPT !.nodes = m].state = q /\ [v EXCEPT !.nodes = m].at = a
  BY <1>2
<1> QED  BY <1>3 DEF q, a

(* What is parsed behind i. *)
ValuesAligned(p, f, s, i) == \A k \in i + 1 .. Len(s) + 1 : Aligned(p["value"][k], f, k)
ItemsAligned(p, f, s, i) == \A k \in i + 1 .. Len(s) + 1 : Aligned(p["items"][k], f, k)
PairsAligned(p, f, s, i) == \A k \in i + 1 .. Len(s) + 1 : Strict(p["pairs"][k], f, k)

LEMMA PairAligned ==
  ASSUME NEW s \in Texts, NEW f, Squeezes(f, s), NEW i \in Places(s), NEW p, ValuesBehind(p, s, i),
         ValuesAligned(p, f, s, i)
  PROVE  Strict(parse_pair(p, s, i), f, i)
<1> DEFINE k == parse_key(s, i)
           v == p["value"][k.at + 1]
           r == parse_pair(p, s, i)
           pair == [key |-> k.value, value |-> v.value]
<1>0. Len(s) \in Nat /\ i \in 1 .. Len(s) + 1 /\ i \in Nat
  BY TextIs DEF Places
<1>1. Strict(k, f, i) /\ (k.state = "ok" => k.at \in i + 2 .. Len(s) + 1)
  BY <1>0, KeyAligned, KeyRight, Zenon
<1>2. r = IF k.state # "ok" THEN k
          ELSE IF Char(s, k.at) # ":" THEN Failed("error", k.at, k.nodes)
          ELSE IF v.state # "ok" THEN [v EXCEPT !.nodes = v.nodes + k.nodes]
          ELSE Parsed(pair, v.at, k.nodes + v.nodes + 1)
  BY Zenon DEF parse_pair
<1> HIDE DEF k, r, pair
<1>3. CASE k.state # "ok"
  BY <1>1, <1>2, <1>3, Zenon DEF r
<1>4. CASE k.state = "ok" /\ Char(s, k.at) # ":"
  BY <1>2, <1>4, ErrorStrict, Zenon DEF r
<1>5. CASE k.state = "ok" /\ Char(s, k.at) = ":"
  <2>1. k.at \in i + 2 .. Len(s) + 1 /\ k.at \in Nat
    BY <1>0, <1>1, <1>5
  <2>2. k.at <= Len(s) /\ s[k.at] = ":"
    BY <1>5, <2>1, CharIs, Marks, Zenon
  <2>3. k.at \in 1 .. Len(s) /\ k.at + 1 \in i + 1 .. Len(s) + 1
    BY <1>0, <2>1, <2>2
  <2>4. Bounded(v, s, k.at + 1, 0) /\ Aligned(v, f, k.at + 1)
    BY <2>3, Zenon DEF ValuesBehind, RightValue, ValuesAligned
  <2>5. v.state = "ok" => v.at \in Places(s)
    BY <1>0, <2>1, <2>4 DEF Bounded, Places
  <2>6. Behind(f, i, k.at)
    BY <1>1, <1>5, Zenon DEF Strict
  <2>7. s[k.at] \in Leads
    BY <2>2, Zenon DEF Leads
  <2> HIDE DEF v
  <2>8. Strict(v, f, i)
    BY <2>3, <2>4, <2>5, <2>6, <2>7, MarkStrict, Zenon
  <2>9. CASE v.state # "ok"
    <3>1. r = [v EXCEPT !.nodes = v.nodes + k.nodes]
      BY <1>2, <1>5, <2>9, Zenon
    <3>2. r.state = v.state /\ r.at = v.at
      BY <2>4, <3>1, MoreNodes, Zenon
    <3> QED  BY <2>8, <3>2, SameEnd, Zenon DEF r
  <2>10. CASE v.state = "ok"
    <3>1. r = Parsed(pair, v.at, k.nodes + v.nodes + 1)
      BY <1>2, <1>5, <2>10, Zenon
    <3>2. Behind(f, i, v.at)
      BY <2>8, <2>10, Zenon DEF Strict
    <3> QED  BY <3>1, <3>2, ParsedStrict, Zenon DEF r
  <2> QED  BY <2>9, <2>10
<1> QED  BY <1>3, <1>4, <1>5

(* The closing brackets. *)
Closes(bracket) == Ends(bracket) /\ bracket # QuoteMark

LEMMA Closing == Closes("]") /\ Closes("}")
BY Zenon DEF Closes, Ends, NUL, QuoteMark

LEMMA ElementsAligned ==
  ASSUME NEW s \in Texts, NEW f, Squeezes(f, s), NEW i \in Places(s), NEW p, NEW rest \in {"items", "pairs"},
         NEW first, Bounded(first, s, i, 0), Aligned(first, f, i), ListsBehind(p, s, i),
         \A k \in i + 1 .. Len(s) + 1 : Aligned(p[rest][k], f, k),
         NEW bracket, Closes(bracket)
  PROVE  LET el == Elements(p, s, first, rest, bracket)
         IN  Aligned(el, f, i) /\ (Strict(first, f, i) => Strict(el, f, i))
<1> DEFINE l == Len(s)
           a == first.at
           n == first.nodes + 1
           r == p[rest][a + 1]
           el == Elements(p, s, first, rest, bracket)
           comma == IF r.state = "ok" THEN Parsed(<<first.value>> \o r.value, r.at, n + r.nodes)
                    ELSE [r EXCEPT !.nodes = r.nodes + n]
           last == Parsed(<<first.value>>, a + 1, n)
           bad == Failed("error", a, n)
           c == Char(s, a)
<1>0. l \in Nat /\ i \in Nat
  BY TextIs DEF Places
<1>1. el = IF first.state # "ok" THEN first
           ELSE CASE c = ","     -> comma
                  [] c = bracket -> last
                  [] OTHER       -> bad
  BY Zenon DEF Elements
<1> HIDE DEF comma, last, bad, el, c
<1>2. first.state # "ok" => el = first
  BY <1>1
<1>3. CASE first.state # "ok"
  BY <1>2, <1>3, Zenon DEF el
<1>4. CASE first.state = "ok"
  <2>1. a \in Nat /\ i + 1 <= a /\ a <= l + 1
    BY <1>0, <1>4 DEF Bounded
  <2>2. c # NUL => a <= l /\ c = s[a]
    BY <2>1, CharIs, Zenon DEF c
  <2>3. a <= l => a \in 1 .. Len(s) /\ a + 1 \in i + 1 .. l + 1
    BY <1>0, <2>1
  <2>4. Behind(f, i, a)
    BY <1>4, Zenon DEF Aligned
  <2> HIDE DEF a, n
  <2>5. ASSUME c = ","
        PROVE  Strict(comma, f, i)
    <3>1. a \in 1 .. Len(s) /\ a + 1 \in i + 1 .. l + 1 /\ s[a] \in Leads
      BY <2>2, <2>3, <2>5, Marks, Zenon DEF Leads
    <3>2. RightList(r, s, a + 1) /\ Aligned(r, f, a + 1)
      BY <3>1, Zenon DEF ListsBehind, l
    <3> HIDE DEF r
    <3>3. r.state = "ok" => r.at \in Places(s)
      BY <2>1, <3>2 DEF RightList, Bounded, Places
    <3>4. Strict(r, f, i)
      BY <2>4, <3>1, <3>2, <3>3, MarkStrict, Zenon
    <3>5. CASE r.state = "ok"
      <4>1. Behind(f, i, r.at)
        BY <3>4, <3>5, Zenon DEF Strict
      <4>2. comma = Parsed(<<first.value>> \o r.value, r.at, n + r.nodes)
        BY <3>5, Zenon DEF comma
      <4> QED  BY <4>1, <4>2, ParsedStrict, Zenon
    <3>6. CASE r.state # "ok"
      <4>1. comma = [r EXCEPT !.nodes = r.nodes + n]
        BY <3>6, Zenon DEF comma
      <4>2. comma.state = r.state /\ comma.at = r.at
        BY <3>2, <4>1, MoreNodes, Zenon DEF RightList
      <4> QED  BY <3>4, <4>2, SameEnd, Zenon
    <3> QED  BY <3>5, <3>6
  <2>6. ASSUME c = bracket
        PROVE  Strict(last, f, i)
    <3>1. a \in 1 .. Len(s) /\ s[a] # QuoteMark
      BY <2>2, <2>3, <2>6, Zenon DEF Closes, Ends
    <3>2. Behind(f, a, a + 1) /\ a \in Places(s) /\ a + 1 \in Places(s)
      BY <3>1, StepBehind, PlacesBehind, Zenon
    <3>3. Behind(f, i, a + 1)
      BY <2>4, <3>2, BehindBehind, Zenon
    <3> QED  BY <3>3, ParsedStrict, Zenon DEF last
  <2>7. Strict(bad, f, i)
    BY ErrorStrict, Zenon DEF bad
  <2>8. (c = "," /\ el = comma) \/ (c = bracket /\ el = last) \/ el = bad
    BY <1>1, <1>4 DEF Closes, Ends
  <2>9. Strict(el, f, i)
    BY <2>5, <2>6, <2>7, <2>8, Zenon
  <2> QED  BY <2>9, StrictAligned, Zenon DEF el
<1> QED  BY <1>3, <1>4

LEMMA WholeEnd ==
  ASSUME NEW s, NEW i, NEW e, NEW kind, NEW r, Bounded(r, s, i, e)
  PROVE  Whole(kind, r).state = r.state /\ Whole(kind, r).at = r.at
<1>1. CASE r.state # "ok"
  <2>1. Whole(kind, r) = r
    BY <1>1, Zenon DEF Whole
  <2> QED  BY <2>1
<1>2. CASE r.state = "ok"
  <2> DEFINE a == r.at
             n == r.nodes
             u == r.value
             v == [kind |-> kind, elements |-> r.value]
  <2>1. Whole(kind, r) = [r EXCEPT !.value = v]
    BY <1>2, Zenon DEF Whole
  <2>2. r = [state |-> "ok", value |-> u, at |-> a, nodes |-> n]
    BY <1>2, Zenon DEF Bounded
  <2> HIDE DEF v, a, n, u
  <2>3. [r EXCEPT !.value = v] = [state |-> "ok", value |-> v, at |-> a, nodes |-> n]
    BY <2>2
  <2>4. Whole(kind, r).state = "ok" /\ Whole(kind, r).at = a
    BY <2>1, <2>3
  <2> QED  BY <1>2, <2>4, Zenon DEF a
<1> QED  BY <1>1, <1>2

(* Behind an opening bracket, nothing but spaces and the closing one. *)
LEMMA EmptyBehind ==
  ASSUME NEW s \in Texts, NEW f, Squeezes(f, s), NEW j \in Places(s), NEW bracket, Closes(bracket),
         Char(s, j) = bracket
  PROVE  Behind(f, j, j + 1)
<1>1. j \in Nat /\ Len(s) \in Nat
  BY TextIs DEF Places
<1>2. j <= Len(s) /\ s[j] # QuoteMark
  BY <1>1, CharIs, Zenon DEF Closes, Ends
<1>3. j \in 1 .. Len(s)
  BY <1>2, TextIs DEF Places
<1> QED  BY <1>2, <1>3, StepBehind, Zenon

LEMMA ArrayAligned ==
  ASSUME NEW s \in Texts, NEW f, Squeezes(f, s), NEW i \in 1 .. Len(s), s[i] \in Leads, NEW p,
         ListsBehind(p, s, i), ItemsAligned(p, f, s, i)
  PROVE  Strict(parse_array(p, s, i), f, i)
<1> DEFINE j == eat_space(s, i + 1)
<1>0. Len(s) \in Nat /\ i \in Nat /\ i \in Places(s) /\ i + 1 \in Places(s)
  BY TextIs DEF Places
<1>1. j \in Places(s) /\ f[j] = f[i + 1]
  BY <1>0, SpaceIsNothing, Zenon
<1>2. j \in i + 1 .. Len(s) + 1
  BY <1>0, EatSpace, Zenon DEF Places
<1>10. j \in Nat
  BY <1>0, <1>2
<1> DEFINE empty == Parsed(<<>>, j + 1, 0)
           r == IF Char(s, j) = "]" THEN empty ELSE p["items"][j]
<1>3. parse_array(p, s, i) = Whole("array", r)
  BY Zenon DEF parse_array
<1> HIDE DEF j
<1>4. Bounded(r, s, j, 1) /\ Aligned(r, f, j)
  <2>1. CASE Char(s, j) = "]"
    <3>1. j \in Nat /\ j <= Len(s)
      BY <1>10, <2>1, CharIs, Marks, Zenon
    <3>2. RightList(empty, s, j)
      BY <3>1, EmptyRight, Zenon
    <3>3. Behind(f, j, j + 1)
      BY <1>1, <2>1, Closing, EmptyBehind, Zenon
    <3>4. Aligned(empty, f, j)
      BY <3>3, ParsedStrict, StrictAligned, Zenon
    <3> QED  BY <2>1, <3>2, <3>4, Zenon DEF RightList
  <2>2. CASE Char(s, j) # "]"
    BY <1>2, <2>2, Zenon DEF ListsBehind, ItemsAligned, RightList
  <2> QED  BY <2>1, <2>2
<1> HIDE DEF r
<1>5. Aligned(r, f, i + 1)
  BY <1>1, <1>4, SamePlace, Zenon
<1>6. r.state = "ok" => r.at \in Places(s)
  BY <1>0, <1>2, <1>4 DEF Bounded, Places
<1>7. Behind(f, i, i)
  BY <1>0, BehindSelf, Zenon
<1>8. Strict(r, f, i)
  BY <1>0, <1>5, <1>6, <1>7, MarkStrict, Zenon
<1>9. parse_array(p, s, i).state = r.state /\ parse_array(p, s, i).at = r.at
  <2>1. Whole("array", r).state = r.state /\ Whole("array", r).at = r.at
    BY <1>4, WholeEnd
  <2> QED  BY <1>3, <2>1, Zenon
<1> QED  BY <1>8, <1>9, SameEnd, Zenon

LEMMA ObjectAligned ==
  ASSUME NEW s \in Texts, NEW f, Squeezes(f, s), NEW i \in 1 .. Len(s), s[i] # QuoteMark, NEW p,
         ListsBehind(p, s, i), PairsAligned(p, f, s, i)
  PROVE  Strict(parse_object(p, s, i), f, i)
<1> DEFINE j == eat_space(s, i + 1)
<1>0. Len(s) \in Nat /\ i \in Nat /\ i \in Places(s) /\ i + 1 \in Places(s)
  BY TextIs DEF Places
<1>1. j \in Places(s) /\ f[j] = f[i + 1]
  BY <1>0, SpaceIsNothing, Zenon
<1>2. j \in i + 1 .. Len(s) + 1
  BY <1>0, EatSpace, Zenon DEF Places
<1>10. j \in Nat
  BY <1>0, <1>2
<1> DEFINE empty == Parsed(<<>>, j + 1, 0)
           r == IF Char(s, j) = "}" THEN empty ELSE p["pairs"][j]
<1>3. parse_object(p, s, i) = Whole("object", r)
  BY Zenon DEF parse_object
<1> HIDE DEF j
<1>4. Bounded(r, s, j, 1) /\ Strict(r, f, j)
  <2>1. CASE Char(s, j) = "}"
    <3>1. j \in Nat /\ j <= Len(s)
      BY <1>10, <2>1, CharIs, Marks, Zenon
    <3>2. RightList(empty, s, j)
      BY <3>1, EmptyRight, Zenon
    <3>3. Behind(f, j, j + 1)
      BY <1>1, <2>1, Closing, EmptyBehind, Zenon
    <3>4. Strict(empty, f, j)
      BY <3>3, ParsedStrict, Zenon
    <3> QED  BY <2>1, <3>2, <3>4, Zenon DEF RightList
  <2>2. CASE Char(s, j) # "}"
    BY <1>2, <2>2, Zenon DEF ListsBehind, PairsAligned, RightList
  <2> QED  BY <2>1, <2>2
<1> HIDE DEF r
<1>5. Strict(r, f, i + 1)
  BY <1>1, <1>4, SamePlace, Zenon
<1>6. r.state = "ok" => r.at \in Places(s)
  BY <1>0, <1>2, <1>4 DEF Bounded, Places
<1>7. Behind(f, i, i + 1)
  BY StepBehind, Zenon
<1>8. Strict(r, f, i)
  <2>1. r.state = "ok" => Behind(f, i, r.at)
    BY <1>0, <1>5, <1>6, <1>7, BehindBehind, Zenon DEF Strict
  <2>2. r.state = "overrun" => EndsCut(f, i)
    BY <1>0, <1>5, <1>7, CutBehind, Zenon DEF Strict
  <2> QED  BY <2>1, <2>2, Zenon DEF Strict
<1>9. parse_object(p, s, i).state = r.state /\ parse_object(p, s, i).at = r.at
  <2>1. Whole("object", r).state = r.state /\ Whole("object", r).at = r.at
    BY <1>4, WholeEnd
  <2> QED  BY <1>3, <2>1, Zenon
<1> QED  BY <1>8, <1>9, SameEnd, Zenon

LEMMA DispatchedAligned ==
  ASSUME NEW s \in Texts, NEW f, Squeezes(f, s), NEW i \in Places(s), NEW p,
         ListsBehind(p, s, i), ItemsAligned(p, f, s, i), PairsAligned(p, f, s, i)
  PROVE  Aligned(Dispatched(p, s, i), f, i)
<1> DEFINE c == Char(s, i)
           num == parse_number(s, i)
           str == parse_string(s, i)
           arr == parse_array(p, s, i)
           obj == parse_object(p, s, i)
           idf == parse_identifier(s, i)
<1>0. Len(s) \in Nat /\ i \in Nat
  BY TextIs DEF Places
<1>1. c # NUL => i <= Len(s) /\ c = s[i]
  BY <1>0, CharIs, Zenon
<1>2. i <= Len(s) => i \in 1 .. Len(s)
  BY <1>0 DEF Places
<1>3. ASSUME c \in {"-", "1"} PROVE Aligned(num, f, i)
  <2>1. i \in 1 .. Len(s) /\ s[i] # QuoteMark
    BY <1>1, <1>2, <1>3, Marks, MoreMarks, Zenon
  <2> QED  BY <2>1, NumberAligned, StrictAligned, Zenon
<1>4. ASSUME c = QuoteMark PROVE Aligned(str, f, i)
  <2>1. i \in 1 .. Len(s) /\ s[i] = QuoteMark
    BY <1>1, <1>2, <1>4, Marks, Zenon
  <2> QED  BY <2>1, StringAligned, StrictAligned, Zenon
<1>5. ASSUME c = "[" PROVE Aligned(arr, f, i)
  <2>1. i \in 1 .. Len(s) /\ s[i] \in Leads
    BY <1>1, <1>2, <1>5, Marks, Zenon DEF Leads
  <2> QED  BY <2>1, ArrayAligned, StrictAligned, Zenon
<1>6. ASSUME c = "{" PROVE Aligned(obj, f, i)
  <2>1. i \in 1 .. Len(s) /\ s[i] # QuoteMark
    BY <1>1, <1>2, <1>6, Marks, MoreMarks, Zenon
  <2> QED  BY <2>1, ObjectAligned, StrictAligned, Zenon
<1>7. ASSUME c # QuoteMark PROVE Aligned(idf, f, i)
  <2>1. i \in 1 .. Len(s) => s[i] # QuoteMark
    <3>1. i \in 1 .. Len(s) => i <= Len(s)
      BY <1>0
    <3> QED  BY <1>7, <3>1, Zenon DEF Char
  <2> QED  BY <2>1, IdentifierAligned, Zenon
<1>8. Dispatched(p, s, i) =
        CASE c \in {"-", "1"} -> num
          [] c = QuoteMark    -> str
          [] c = "["          -> arr
          [] c = "{"          -> obj
          [] OTHER            -> idf
  BY Zenon DEF Dispatched
<1> HIDE DEF c, num, str, arr, obj, idf
<1>9. \/ c \in {"-", "1"} /\ Dispatched(p, s, i) = num
      \/ c = QuoteMark /\ Dispatched(p, s, i) = str
      \/ c = "[" /\ Dispatched(p, s, i) = arr
      \/ c = "{" /\ Dispatched(p, s, i) = obj
      \/ c # QuoteMark /\ Dispatched(p, s, i) = idf
  BY <1>8
<1> QED  BY <1>3, <1>4, <1>5, <1>6, <1>7, <1>9, Zenon

LEMMA SpacedAligned ==
  ASSUME NEW s \in Texts, NEW f, Squeezes(f, s), NEW i \in Places(s), NEW p,
         ListsBehind(p, s, i), ItemsAligned(p, f, s, i), PairsAligned(p, f, s, i)
  PROVE  Aligned(Spaced(p, s, i), f, i)
<1> DEFINE j == eat_space(s, i)
           v == Dispatched(p, s, j)
           r == Spaced(p, s, i)
<1>0. Len(s) \in Nat /\ i \in Nat
  BY TextIs DEF Places
<1>1. j \in Places(s) /\ f[j] = f[i]
  BY SpaceIsNothing, Zenon
<1>2. j \in i .. Len(s) + 1
  BY EatSpace, Zenon DEF Places
<1>3. r = IF v.state = "ok" THEN [v EXCEPT !.at = eat_space(s, v.at)] ELSE v
  BY Zenon DEF Spaced
<1> HIDE DEF j, r
<1>4. ListsBehind(p, s, j) /\ ItemsAligned(p, f, s, j) /\ PairsAligned(p, f, s, j)
  <2>1. \A k \in j + 1 .. Len(s) + 1 : k \in i + 1 .. Len(s) + 1
    BY <1>0, <1>2
  <2> QED  BY <2>1, Zenon DEF ListsBehind, ItemsAligned, PairsAligned
<1>5. Aligned(v, f, j)
  BY <1>1, <1>4, DispatchedAligned, Zenon
<1>6. Bounded(v, s, j, 0)
  BY <1>1, <1>4, DispatchedRight, Zenon DEF Places, RightValue
<1> HIDE DEF v
<1>7. Aligned(v, f, i)
  BY <1>1, <1>5, SamePlace, Zenon
<1>8. CASE v.state # "ok"
  BY <1>3, <1>7, <1>8, Zenon DEF r
<1>9. CASE v.state = "ok"
  <2>1. r = [v EXCEPT !.at = eat_space(s, v.at)]
    BY <1>3, <1>9, Zenon
  <2>2. v.at \in Places(s)
    BY <1>0, <1>2, <1>6, <1>9 DEF Bounded, Places
  <2>3. f[eat_space(s, v.at)] = f[v.at]
    <3>1. \A a \in Places(s) : f[eat_space(s, a)] = f[a]
      BY SpaceIsNothing, Zenon
    <3> QED  BY <2>2, <3>1, Zenon
  <2>4. r.state = "ok" /\ r.at = eat_space(s, v.at)
    BY <1>6, <1>9, <2>1 DEF Bounded
  <2>5. Behind(f, i, v.at)
    BY <1>7, <1>9, Zenon DEF Aligned
  <2>6. Behind(f, i, r.at)
    BY <2>3, <2>4, <2>5, Zenon DEF Behind
  <2>7. r.state # "overrun"
    BY <2>4
  <2> QED  BY <2>6, <2>7, Zenon DEF Aligned, r
<1> QED  BY <1>8, <1>9

AlignedPart(what, r, f, i) == IF what = "pairs" THEN Strict(r, f, i) ELSE Aligned(r, f, i)

AlignedBelow(p, f, s, d) ==
  \A what \in Kinds, i \in Places(s) : Rank(s, what, i) < d => AlignedPart(what, p[what][i], f, i)

LEMMA BehindAligned ==
  ASSUME NEW s \in Texts, NEW f, NEW p, NEW what \in Kinds, NEW i \in Places(s),
         AlignedBelow(p, f, s, Rank(s, what, i))
  PROVE  ValuesAligned(p, f, s, i) /\ ItemsAligned(p, f, s, i) /\ PairsAligned(p, f, s, i)
<1>1. ASSUME NEW w \in Kinds, NEW k \in i + 1 .. Len(s) + 1
      PROVE  AlignedPart(w, p[w][k], f, k)
  BY RanksBehind, Zenon DEF AlignedBelow
<1>2. /\ "value" \in Kinds /\ "items" \in Kinds /\ "pairs" \in Kinds
      /\ "value" # "pairs" /\ "items" # "pairs"
  BY DEF Kinds
<1>3. ValuesAligned(p, f, s, i)
  BY <1>1, <1>2, Zenon DEF ValuesAligned, AlignedPart
<1>4. ItemsAligned(p, f, s, i)
  BY <1>1, <1>2, Zenon DEF ItemsAligned, AlignedPart
<1>5. PairsAligned(p, f, s, i)
  BY <1>1, <1>2, Zenon DEF PairsAligned, AlignedPart
<1> QED  BY <1>3, <1>4, <1>5

LEMMA PartAligned ==
  ASSUME NEW s \in Texts, NEW f, Squeezes(f, s), NEW p, NEW what \in Kinds, NEW i \in Places(s),
         RightBelow(p, s, Rank(s, what, i)), AlignedBelow(p, f, s, Rank(s, what, i))
  PROVE  AlignedPart(what, Part(p, s, what, i), f, i)
<1>0. /\ "value" \in Kinds /\ "value" # "pairs" /\ "items" # "pairs"
      /\ "items" \in {"items", "pairs"} /\ "pairs" \in {"items", "pairs"}
  BY DEF Kinds
<1>1. ValuesBehind(p, s, i) /\ ListsBehind(p, s, i)
  BY BehindRight, Zenon
<1>2. ValuesAligned(p, f, s, i) /\ ItemsAligned(p, f, s, i) /\ PairsAligned(p, f, s, i)
  BY BehindAligned, Zenon
<1>3. CASE what = "value"
  <2>1. Aligned(Spaced(p, s, i), f, i)
    BY <1>1, <1>2, SpacedAligned, Zenon
  <2>2. Part(p, s, "value", i) = Spaced(p, s, i)
    BY PartIs, Zenon
  <2> QED  BY <1>0, <1>3, <2>1, <2>2, Zenon DEF AlignedPart
<1>4. CASE what = "items"
  <2> DEFINE first == p["value"][i]
  <2>1. Bounded(first, s, i, 0)
    BY <1>4, FirstRight, Zenon
  <2>2. Aligned(first, f, i)
    <3>1. Rank(s, "value", i) < Rank(s, what, i)
      BY <1>0, <1>4, RankOfValue, Zenon
    <3> QED  BY <1>0, <3>1, Zenon DEF AlignedBelow, AlignedPart
  <2> HIDE DEF first
  <2>3. Aligned(Elements(p, s, first, "items", "]"), f, i)
    BY <1>0, <1>1, <1>2, <2>1, <2>2, Closing, ElementsAligned, Zenon DEF ItemsAligned
  <2>4. Part(p, s, "items", i) = Elements(p, s, first, "items", "]")
    BY PartIs, Zenon DEF first
  <2> QED  BY <1>0, <1>4, <2>3, <2>4, Zenon DEF AlignedPart
<1>5. CASE what = "pairs"
  <2> DEFINE first == parse_pair(p, s, i)
  <2>1. Bounded(first, s, i, 0)
    BY <1>1, PairRight, Zenon DEF Places
  <2>2. Strict(first, f, i)
    BY <1>1, <1>2, PairAligned, Zenon
  <2> HIDE DEF first
  <2>3. \A k \in i + 1 .. Len(s) + 1 : Aligned(p["pairs"][k], f, k)
    BY <1>2, StrictAligned, Zenon DEF PairsAligned
  <2>4. Aligned(first, f, i)
    BY <2>2, StrictAligned, Zenon
  <2>5. Strict(Elements(p, s, first, "pairs", "}"), f, i)
    BY <1>0, <1>1, <2>1, <2>2, <2>3, <2>4, Closing, ElementsAligned, Zenon
  <2>6. Part(p, s, "pairs", i) = Elements(p, s, first, "pairs", "}")
    BY PartIs, Zenon DEF first
  <2> QED  BY <1>5, <2>5, <2>6, Zenon DEF AlignedPart
<1> QED  BY <1>3, <1>4, <1>5, Zenon DEF Kinds

LEMMA ParsesAligned ==
  ASSUME NEW s \in Texts, NEW f, Squeezes(f, s), NEW p, NEW d \in Nat, ParsesBelow(p, s, d)
  PROVE  AlignedBelow(p, f, s, d)
<1> DEFINE Wrong(what, i) == Rank(s, what, i) < d /\ ~AlignedPart(what, p[what][i], f, i)
           Bad == {e \in Nat : \E what \in Kinds, i \in Places(s) : Rank(s, what, i) = e /\ Wrong(what, i)}
<1>0. RightBelow(p, s, d)
  BY ParsesRight, Zenon
<1>1. Bad = {}
  <2> SUFFICES ASSUME Bad # {}
               PROVE  FALSE
    OBVIOUS
  <2>1. PICK e \in Bad : \A l \in Bad : e <= l
    <3>1. Bad \subseteq Nat
      OBVIOUS
    <3> HIDE DEF Bad
    <3> QED  BY <3>1, Least
  <2>2. PICK what \in Kinds, i \in Places(s) : Rank(s, what, i) = e /\ Wrong(what, i)
    BY Zenon
  <2>3. ASSUME NEW w \in Kinds, NEW k \in Places(s), Rank(s, w, k) < e
        PROVE  Rank(s, w, k) < d /\ AlignedPart(w, p[w][k], f, k)
    <3>1. Rank(s, w, k) \in Nat /\ e \in Nat
      BY RankIs
    <3>2. Rank(s, w, k) \notin Bad
      <4> HIDE DEF Bad
      <4> QED  BY <2>1, <2>3, <3>1
    <3>3. ~Wrong(w, k)
      BY <3>1, <3>2, Zenon
    <3>4. Rank(s, w, k) < d
      <4>1. e < d /\ Rank(s, what, i) \in Nat
        BY <2>2, RankIs, Zenon
      <4> QED  BY <2>3, <3>1, <4>1
    <3> QED  BY <3>3, <3>4, Zenon
  <2>4. AlignedBelow(p, f, s, Rank(s, what, i)) /\ RightBelow(p, s, Rank(s, what, i))
    BY <1>0, <2>2, <2>3, Zenon DEF AlignedBelow, RightBelow
  <2>5. AlignedPart(what, Part(p, s, what, i), f, i)
    BY <2>4, PartAligned, Zenon
  <2>6. p[what][i] = Part(p, s, what, i)
    BY <2>2, Zenon DEF ParsesBelow
  <2> QED  BY <2>2, <2>5, <2>6, Zenon
<1>2. \A what \in Kinds, i \in Places(s) : Rank(s, what, i) \in Nat
  BY RankIs, Zenon
<1> QED  BY <1>1, <1>2, Zenon DEF AlignedBelow

LEMMA ParseValueAligned ==
  ASSUME NEW s \in Texts, NEW f, Squeezes(f, s), NEW i \in 1 .. Len(s) + 1
  PROVE  Aligned(parse_value(s, i), f, i)
<1> DEFINE d == 2 * Len(s) + 2
<1>0. d \in Nat /\ i \in Places(s) /\ "value" \in Kinds /\ "value" # "pairs"
  BY TextIs DEF Places, Kinds
<1>1. PICK p : ParsesBelow(p, s, d) /\ parse_value(s, i) = p["value"][i]
  BY ParseFunction, Zenon
<1>2. AlignedBelow(p, f, s, d)
  BY <1>0, <1>1, ParsesAligned, Zenon
<1>3. Rank(s, "value", i) < d
  BY <1>0, RankIs, Zenon
<1>4. AlignedPart("value", p["value"][i], f, i)
  BY <1>0, <1>2, <1>3, Zenon DEF AlignedBelow
<1> QED  BY <1>0, <1>1, <1>4, Zenon DEF AlignedPart

-----------------------------------------------------------------------------

(* For every text that is given, a parse that steps over its end has met the   *)
(* end where a value must follow, or behind a backslash (json.cpp:359-392).    *)
THEOREM JsonOverrunsOnlyIfCut == DocumentSpec => []OverrunsOnlyIfCut
<1>1. DocumentInit => OverrunsOnlyIfCut
  BY DEF DocumentInit, OverrunsOnlyIfCut
<1>2. DocumentInv /\ OverrunsOnlyIfCut /\ [DocumentNext]_jvars => OverrunsOnlyIfCut'
  <2> SUFFICES ASSUME DocumentInv, OverrunsOnlyIfCut, [DocumentNext]_jvars
               PROVE  OverrunsOnlyIfCut'
    OBVIOUS
  <2>1. CASE UNCHANGED <<text, state>>
    BY <2>1, Zenon DEF OverrunsOnlyIfCut
  <2>2. CASE parse
    <3> DEFINE v == parse_value(text, 1)
    <3>1. state' = v.state /\ (v.state # "ok" => text' = text)
      BY <2>2, Zenon DEF parse
    <3>2. CASE v.state = "overrun"
      <4>1. text \in Texts /\ 1 \in 1 .. Len(text) + 1
        <5>1. text \in Texts
          BY Zenon DEF DocumentInv
        <5> QED  BY <5>1, TextIs
      <4>2. PICK f : Squeezes(f, text) /\ Squeezed(text) = f[1]
        BY <4>1, SqueezedIs, Zenon
      <4>3. Aligned(v, f, 1)
        BY <4>1, <4>2, ParseValueAligned, Zenon
      <4> HIDE DEF v
      <4>4. v.state # "ok"
        BY <3>2
      <4>5. text' = text
        BY <3>1, <4>4, Zenon
      <4>6. CutAt(f, 1)
        BY <3>2, <4>3, Zenon DEF Aligned
      <4> QED  BY <4>2, <4>5, <4>6, Zenon DEF OverrunsOnlyIfCut, CutAt, EndsCut, Cuts
    <3>3. CASE v.state # "overrun"
      BY <3>1, <3>3, Zenon DEF OverrunsOnlyIfCut
    <3> QED  BY <3>2, <3>3
  <2>3. UNCHANGED <<text, state>> \/ parse
    BY Zenon DEF DocumentNext, allocate, jvars
  <2> QED  BY <2>1, <2>2, <2>3, Zenon
<1> QED  BY DocumentInvariant, <1>1, <1>2, PTL DEF DocumentSpec
=============================================================================
