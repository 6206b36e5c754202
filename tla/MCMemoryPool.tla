---------------------------- MODULE MCMemoryPool ----------------------------
(***************************************************************************)
(* A small instance of MemoryPool for TLC.                                 *)
(***************************************************************************)
EXTENDS MemoryPool, TLC

Symmetry == Permutations(Buffers)

=============================================================================
