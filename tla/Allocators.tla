----------------------------- MODULE Allocators -----------------------------
(***************************************************************************)
(* The allocators of src/freeflow/memory.hpp and memory.cpp that a         *)
(* json::Document takes its nodes from.  All nodes have the same size, as  *)
(* Document::allocate asks for a Rep whatever the node is.                 *)
(*                                                                         *)
(* A sequential allocator is a record of size (of a block), offset (in the *)
(* last block) and blocks (how many there are).  objects are the pieces of *)
(* memory handed out: block, first and last (the first byte after it).     *)
(***************************************************************************)
EXTENDS Integers

CONSTANTS
  Block,      \* sizeof(Block), the header of a block
  Rep,        \* sizeof(Document::Rep), the size of every object
  Sizes,      \* the sizes of block an allocator is made with
  MaxBlocks   \* bound: the blocks of an allocator

(* A block, a multiple of the page size, has room for two headers, an object  *)
(* and more (memory.hpp:37-38, 77).                                            *)
AllocatorAssumption ==
  /\ Block \in Nat \ {0} /\ Rep \in Nat \ {0} /\ MaxBlocks \in Nat
  /\ Sizes \subseteq Nat
  /\ \A size \in Sizes : size > 2 * Block + Rep

ASSUME AllocatorAssumption

VARIABLES
  alloc,     \* the allocator
  objects    \* what it handed out

vars == <<alloc, objects>>

Sequential_allocator(n) == [size |-> n, offset |-> 0, blocks |-> 0]

allocate_block(a) == [a EXCEPT !.blocks = @ + 1, !.offset = 0]

(* The object of n bytes would reach the end of the block, or there is none.  *)
(* Bugs: only the block is looked at, not its header; the first block is not  *)
(* asked for.                                                                 *)
Exceeds_NoHeader(a, n) == a.blocks = 0 \/ Block + a.offset + n > a.size
Exceeds_NotFirst(a, n) == Block + a.offset + n >= a.size - Block
Exceeds(a, n) == a.blocks = 0 \/ Block + a.offset + n >= a.size - Block

Grown(a, n) == IF Exceeds(a, n) THEN allocate_block(a) ELSE a

Position(a, n) == Block + a.offset

(* allocate: the position is computed before a block is added, and used in it. *)
(* Bug: the offset does not move.                                              *)
Bumped_Less(a, n) == [Grown(a, n) EXCEPT !.offset = @ + n - 1]
Bumped(a, n) == [Grown(a, n) EXCEPT !.offset = @ + n]

Object(a, n) ==
  [block |-> Grown(a, n).blocks, first |-> Position(a, n), last |-> Position(a, n) + n]

Init ==
  /\ \E n \in Sizes : alloc = Sequential_allocator(n)
  /\ objects = {}

Allocate ==
  /\ Grown(alloc, Rep).blocks <= MaxBlocks
  /\ alloc' = Bumped(alloc, Rep)
  /\ objects' = objects \cup {Object(alloc, Rep)}

Next == Allocate

Spec == Init /\ [][Next]_vars

-----------------------------------------------------------------------------

TypeOK ==
  /\ alloc \in [size : Sizes, offset : Nat, blocks : 0 .. MaxBlocks]
  /\ objects \subseteq [block : 1 .. MaxBlocks, first : Nat, last : Nat]

(* The objects that go between two headers fill the block, as they do with     *)
(* 4096 and 65536 bytes, the sizes of the tests, a header of 8 and objects of  *)
(* 24 bytes.                                                                   *)
Filled(size) == \E m \in 0 .. size : size = 2 * Block + m * Rep

(* What is handed out lies in its block, between two headers.  In a block that *)
(* objects do not fill, the first object of a further block, whose position is *)
(* the one of the block before, ends less than an object later                 *)
(* (memory.cpp:40-60).                                                         *)
InsideBlock ==
  \A o \in objects :
    /\ Block <= o.first
    /\ o.last <= alloc.size - Block
                 + (IF o.block = 1 \/ Filled(alloc.size) THEN 0 ELSE Rep - 1)

(* No two objects share memory (memory.cpp:40-60). *)
Apart(o, p) == o.block # p.block \/ o.last <= p.first \/ p.last <= o.first
ObjectsDisjoint == \A o, p \in objects : o = p \/ Apart(o, p)
=============================================================================
