--------------------------- MODULE MCStreamServer ---------------------------
(***************************************************************************)
(* A small instance of StreamServer for TLC.                               *)
(***************************************************************************)
EXTENDS StreamServer

\* Smaller queues than the code's 3 and 8, one longer than the other, and for
\* each a frame more than it has room for.
QueSizes    == [k \in Types |-> IF k = "VIDEO" THEN 1 ELSE 2]
FrameBounds == [k \in Types |-> QueSizes[k] + 1]

=============================================================================
