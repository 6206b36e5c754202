-------------------------- MODULE MCDecodeScheduler --------------------------
(***************************************************************************)
(* Small instances of DecodeScheduler for TLC.  Streams and workers are    *)
(* model values: nothing in the code distinguishes two of them.            *)
(***************************************************************************)
EXTENDS DecodeScheduler, TLC

Symmetry == Permutations(Streams) \union Permutations(Workers)

\* For the run that looks for a starved stream: neither stop() nor the choice
\* of the audio stream takes part, so those behaviours are left out.
WatchingOnly == mainPc' = "running" /\ UNCHANGED audioStreamID_

=============================================================================
