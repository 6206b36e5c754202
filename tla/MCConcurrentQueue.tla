-------------------------- MODULE MCConcurrentQueue --------------------------
(***************************************************************************)
(* Small instances of ConcurrentQueue for TLC.                             *)
(***************************************************************************)
EXTENDS ConcurrentQueue, TLC

Symmetry == Permutations(Producers) \union Permutations(Consumers)

=============================================================================
