--------------------------- MODULE OrderedStreams ---------------------------
(***************************************************************************)
(* What the decode scheduler promises, without threads, tokens or locks:   *)
(* every stream is a bounded mailbox served by at most one decoder at a    *)
(* time, the frames it accepts are decoded in the order they arrived, and  *)
(* a closed stream accepts nothing more but may still be drained.          *)
(***************************************************************************)
EXTENDS Naturals, Sequences

CONSTANTS Streams,   \* the streams of the grid
          Capacity,  \* how many accepted frames may wait, per stream
          Frames,    \* what arrives
          Idle       \* "no frame is being decoded"

VARIABLES pending,   \* accepted, waiting; one sequence per stream
          current,   \* the frame being decoded, or Idle
          done,      \* the frames decoded so far, in the order they were
          open       \* does the stream still accept frames

vars == <<pending, current, done, open>>

Init ==
    /\ pending = [s \in Streams |-> <<>>]
    /\ current = [s \in Streams |-> Idle]
    /\ done = [s \in Streams |-> <<>>]
    /\ open = [s \in Streams |-> TRUE]

\* A frame that arrives at a full mailbox is lost, which is a stutter here.
Accept(s) ==
    /\ open[s]
    /\ Len(pending[s]) < Capacity
    /\ \E f \in Frames : pending' = [pending EXCEPT ![s] = Append(@, f)]
    /\ UNCHANGED <<current, done, open>>

Begin(s) ==
    /\ current[s] = Idle
    /\ pending[s] # <<>>
    /\ current' = [current EXCEPT ![s] = Head(pending[s])]
    /\ pending' = [pending EXCEPT ![s] = Tail(@)]
    /\ UNCHANGED <<done, open>>

End(s) ==
    /\ current[s] # Idle
    /\ done' = [done EXCEPT ![s] = Append(@, current[s])]
    /\ current' = [current EXCEPT ![s] = Idle]
    /\ UNCHANGED <<pending, open>>

Close(s) ==
    /\ open' = [open EXCEPT ![s] = FALSE]
    /\ UNCHANGED <<pending, current, done>>

Next == \E s \in Streams : Accept(s) \/ Begin(s) \/ End(s) \/ Close(s)

Spec == Init /\ [][Next]_vars

=============================================================================
