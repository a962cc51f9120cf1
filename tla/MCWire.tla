------------------------------- MODULE MCWire -------------------------------
(* A small instance of WireProgram.  Names are only compared, so that any      *)
(* permutation of them is a symmetry; port ids are also indices of buckets.    *)
EXTENDS WireProgram, TLC

Symmetry == Permutations(Names)
=============================================================================
