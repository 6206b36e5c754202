---------------------------- MODULE BoundedQueue ----------------------------
(***************************************************************************)
(* What ConcurrentQueue promises to the threads that share it: a bounded   *)
(* first-in first-out queue whose operations are atomic, that takes in     *)
(* nothing while it is closed, and that reports "closed" to a reader only  *)
(* when everything put in before has been taken out.                       *)
(***************************************************************************)
EXTENDS Naturals, Sequences

CONSTANTS Values, Capacity

VARIABLES items,    \* the contents
          open,     \* may something be put in
          drained   \* has a reader been told that nothing will come

vars == <<items, open, drained>>

Init == items = <<>> /\ open = TRUE /\ drained = FALSE

Put ==
    /\ open
    /\ Len(items) < Capacity
    /\ \E v \in Values : items' = Append(items, v)
    /\ UNCHANGED <<open, drained>>

Get ==
    /\ items # <<>>
    /\ items' = Tail(items)
    /\ UNCHANGED <<open, drained>>

ReportDrained ==
    /\ ~open
    /\ items = <<>>
    /\ drained' = TRUE
    /\ UNCHANGED <<items, open>>

Close == open' = FALSE /\ UNCHANGED <<items, drained>>

Reopen == open' = TRUE /\ drained' = FALSE /\ UNCHANGED items

Next == Put \/ Get \/ ReportDrained \/ Close \/ Reopen

Spec == Init /\ [][Next]_vars

=============================================================================
