--------------------------- MODULE ConcurrentQueue ---------------------------
(***************************************************************************)
(* common/concurrentQueue.hpp: a queue of at most maxSize_ elements shared *)
(* by threads, with one mutex and two condition variables, cvFull_ for     *)
(* threads that wait for room and cvEmpty_ for threads that wait for an    *)
(* element.                                                                *)
(*                                                                         *)
(* A step is what a call does between taking the mutex and giving it back, *)
(* by returning or by waiting.  try_push_for and try_push_until differ in  *)
(* how the deadline is written and are one operation here, as are          *)
(* try_pop_for and try_pop_until.  empty, size, isClosed, try_peek and     *)
(* visit_front change nothing and wake nobody.                             *)
(***************************************************************************)
EXTENDS Naturals, Sequences, FiniteSets

CONSTANTS
    Producers, Consumers,   \* the threads on either side
    Values,                 \* what is queued
    maxSize_,               \* capacity
    PushOps,                \* the operations producers call
    PopOps,                 \* the operations consumers call
    CanReopen,              \* is reopen() called
    None                    \* no value, no operation

Threads  == Producers \union Consumers

ASSUME QueueConstants ==
    /\ IsFiniteSet(Threads)
    /\ Producers \intersect Consumers = {}
    /\ maxSize_ \in Nat \ {0}
    /\ PushOps \subseteq {"push", "try_push", "try_push_for"}
    /\ PopOps \subseteq {"pop", "try_pop", "try_pop_for", "peek"}
    /\ None \notin Values
    /\ None \notin PushOps \union PopOps
    /\ CanReopen \in BOOLEAN

VARIABLES
    queue_,    \* the elements
    closed_,
    pc,        \* "idle", or inside a call: "waiting" on a condition variable,
               \* "notified" or "expired" and about to take the mutex again
    op,        \* the call a thread is inside of
    value,     \* the element a blocked push holds
    drained    \* history: a pop has returned nullopt since the queue was open

vars == <<queue_, closed_, pc, op, value, drained>>

Init ==
    /\ queue_ = <<>>
    /\ closed_ = FALSE
    /\ pc = [t \in Threads |-> "idle"]
    /\ op = [t \in Threads |-> None]
    /\ value = [t \in Threads |-> None]
    /\ drained = FALSE

----
(* The predicates of the waits, and the condition variables.               *)

Room    == Len(queue_) < maxSize_ \/ closed_
Element == queue_ # <<>> \/ closed_

\* The threads waiting on either condition variable, in pc-function p.
WaitingFull(p)  == {t \in Producers : p[t] = "waiting"}
WaitingEmpty(p) == {t \in Consumers : p[t] = "waiting"}

NotifyOne(p, waiters) ==
    IF waiters = {} THEN {p} ELSE {[p EXCEPT ![t] = "notified"] : t \in waiters}

NotifyAll(p) == [t \in Threads |-> IF p[t] = "waiting" THEN "notified" ELSE p[t]]

Returned(t) == [pc EXCEPT ![t] = "idle"]

\* Bug variants, as in DecodeScheduler: not part of Next.

\* Bug: push after the wait does not look at closed_.
EnqueueClosedBug(t, v) ==
    /\ queue_' = Append(queue_, v)
    /\ pc' \in NotifyOne(Returned(t), WaitingEmpty(pc))
    /\ UNCHANGED drained

\* Bug: an element is put in and nobody is notified.
EnqueueSilentBug(t, v) ==
    /\ IF closed_ THEN UNCHANGED queue_ ELSE queue_' = Append(queue_, v)
    /\ pc' = Returned(t)
    /\ UNCHANGED drained

\* What follows the wait of a push that has not timed out.
Enqueue(t, v) ==
    /\ IF closed_
         THEN /\ pc' = Returned(t)
              /\ UNCHANGED queue_
         ELSE /\ queue_' = Append(queue_, v)
              /\ pc' \in NotifyOne(Returned(t), WaitingEmpty(pc))
    /\ UNCHANGED drained

\* Bug: an element is taken out and nobody is notified.
DequeueSilentBug(t, o) ==
    /\ IF queue_ = <<>>
         THEN drained' = (drained \/ closed_) /\ UNCHANGED queue_
         ELSE queue_' = Tail(queue_) /\ UNCHANGED drained
    /\ pc' = Returned(t)

\* Bug: a closed queue gives nullopt even when elements are left.
DequeueClosedBug(t, o) ==
    IF closed_ \/ queue_ = <<>>
      THEN /\ pc' = Returned(t)
           /\ drained' = (drained \/ closed_)
           /\ UNCHANGED queue_
      ELSE /\ queue_' = Tail(queue_)
           /\ pc' \in NotifyOne(Returned(t), WaitingFull(pc))
           /\ UNCHANGED drained

\* What follows the wait of a pop that has not timed out; peek leaves the
\* element where it is and notifies nobody.
Dequeue(t, o) ==
    CASE queue_ = <<>> ->
           /\ pc' = Returned(t)
           /\ drained' = (drained \/ closed_)
           /\ UNCHANGED queue_
      [] queue_ # <<>> /\ o = "peek" ->
           /\ pc' = Returned(t)
           /\ UNCHANGED <<queue_, drained>>
      [] OTHER ->
           /\ queue_' = Tail(queue_)
           /\ pc' \in NotifyOne(Returned(t), WaitingFull(pc))
           /\ UNCHANGED drained

----
(* The producers' calls.                                                   *)

\* push, try_push_for: through at once, or onto cvFull_.
PushNow(t, v) ==
    /\ pc[t] = "idle"
    /\ PushOps \ {"try_push"} # {}
    /\ Room
    /\ Enqueue(t, v)
    /\ UNCHANGED <<closed_, op, value>>

PushBlocks(t, v, o) ==
    /\ pc[t] = "idle"
    /\ o # "try_push"
    /\ ~Room
    /\ pc' = [pc EXCEPT ![t] = "waiting"]
    /\ op' = [op EXCEPT ![t] = o]
    /\ value' = [value EXCEPT ![t] = v]
    /\ UNCHANGED <<queue_, closed_, drained>>

\* try_push; when it fails nothing changes.
TryPush(t, v) ==
    /\ pc[t] = "idle"
    /\ "try_push" \in PushOps
    /\ ~closed_ /\ Len(queue_) < maxSize_
    /\ Enqueue(t, v)
    /\ UNCHANGED <<closed_, op, value>>

\* Back from cvFull_ with the mutex.
PushResumes(t) ==
    /\ pc[t] \in {"notified", "expired"}
    /\ Room
    /\ Enqueue(t, value[t])
    /\ op' = [op EXCEPT ![t] = None]
    /\ value' = [value EXCEPT ![t] = None]
    /\ UNCHANGED closed_

----
(* The consumers' calls.                                                   *)

PopNow(t, o) ==
    /\ pc[t] = "idle"
    /\ o # "try_pop"
    /\ Element
    /\ Dequeue(t, o)
    /\ UNCHANGED <<closed_, op, value>>

PopBlocks(t, o) ==
    /\ pc[t] = "idle"
    /\ o # "try_pop"
    /\ ~Element
    /\ pc' = [pc EXCEPT ![t] = "waiting"]
    /\ op' = [op EXCEPT ![t] = o]
    /\ UNCHANGED <<queue_, closed_, value, drained>>

\* try_pop; when the queue is empty nothing changes.
TryPop(t) ==
    /\ pc[t] = "idle"
    /\ "try_pop" \in PopOps
    /\ queue_ # <<>>
    /\ Dequeue(t, "try_pop")
    /\ UNCHANGED <<closed_, op, value>>

PopResumes(t) ==
    /\ pc[t] \in {"notified", "expired"}
    /\ Element
    /\ Dequeue(t, op[t])
    /\ op' = [op EXCEPT ![t] = None]
    /\ UNCHANGED <<closed_, value>>

----
(* Waiting.                                                                *)

Satisfied(t) == IF t \in Producers THEN Room ELSE Element

\* Notified, but somebody else was faster: wait again.
WaitsAgain(t) ==
    /\ pc[t] = "notified"
    /\ ~Satisfied(t)
    /\ pc' = [pc EXCEPT ![t] = "waiting"]
    /\ UNCHANGED <<queue_, closed_, op, value, drained>>

\* The deadline is over and the predicate still false: the call fails.
GivesUp(t) ==
    /\ pc[t] = "expired"
    /\ ~Satisfied(t)
    /\ pc' = Returned(t)
    /\ op' = [op EXCEPT ![t] = None]
    /\ value' = [value EXCEPT ![t] = None]
    /\ UNCHANGED <<queue_, closed_, drained>>

Timeout(t) ==
    /\ pc[t] = "waiting"
    /\ op[t] \in {"try_push_for", "try_pop_for"}
    /\ pc' = [pc EXCEPT ![t] = "expired"]
    /\ UNCHANGED <<queue_, closed_, op, value, drained>>

SpuriousWakeup(t) ==
    /\ pc[t] = "waiting"
    /\ pc' = [pc EXCEPT ![t] = "notified"]
    /\ UNCHANGED <<queue_, closed_, op, value, drained>>

----
(* close and reopen.                                                       *)

\* Bug: close() notifies the readers only.
CloseReadersBug ==
    /\ closed_' = TRUE
    /\ pc' = [t \in Threads |-> IF t \in WaitingEmpty(pc) THEN "notified" ELSE pc[t]]
    /\ UNCHANGED <<queue_, op, value, drained>>

Close ==
    /\ closed_' = TRUE
    /\ pc' = NotifyAll(pc)
    /\ UNCHANGED <<queue_, op, value, drained>>

Reopen ==
    /\ CanReopen
    /\ closed_' = FALSE
    /\ drained' = FALSE
    /\ pc' = NotifyAll(pc)
    /\ UNCHANGED <<queue_, op, value>>

----

\* A blocked call that has been woken goes on.
Resume(t) ==
    \/ t \in Producers /\ PushResumes(t)
    \/ t \in Consumers /\ PopResumes(t)
    \/ WaitsAgain(t)
    \/ GivesUp(t)

Next ==
    \/ \E t \in Producers, v \in Values : PushNow(t, v) \/ TryPush(t, v)
    \/ \E t \in Producers, v \in Values, o \in PushOps : PushBlocks(t, v, o)
    \/ \E t \in Consumers, o \in PopOps : PopNow(t, o) \/ PopBlocks(t, o)
    \/ \E t \in Consumers : TryPop(t)
    \/ \E t \in Threads : Resume(t) \/ Timeout(t) \/ SpuriousWakeup(t)
    \/ Close
    \/ Reopen

Spec == Init /\ [][Next]_vars

\* A thread that has been woken gets the mutex: it is held for short times
\* only.  Nobody needs to call anything, and no deadline needs to pass.
Fairness == \A t \in Threads : WF_vars(Resume(t))

FairSpec == Spec /\ Fairness

----
(* Properties.                                                             *)

\* Every variable has its type, a thread is inside a call exactly when it is
\* not idle, and the queue never exceeds its capacity.
TypeOK ==
    /\ queue_ \in Seq(Values) /\ Len(queue_) <= maxSize_
    /\ closed_ \in BOOLEAN
    /\ pc \in [Threads -> {"idle", "waiting", "notified", "expired"}]
    /\ op \in [Threads -> PushOps \union PopOps \union {None}]
    /\ value \in [Threads -> Values \union {None}]
    /\ drained \in BOOLEAN
    /\ \A t \in Threads : op[t] = None <=> pc[t] = "idle"
    /\ \A t \in Producers : value[t] # None <=> pc[t] # "idle"

Notified(S) == {t \in S : pc[t] = "notified"}

\* While a reader waits, as many readers have been notified as there are
\* elements: no notify_one of lines 72-115 is lost, whoever times out, wakes
\* spuriously or takes the element first.
NoLostElement ==
    WaitingEmpty(pc) # {} => Cardinality(Notified(Consumers)) >= Len(queue_)

\* The same of the writers and the room left (lines 130-177).
NoLostRoom ==
    WaitingFull(pc) # {} =>
      Cardinality(Notified(Producers)) >= maxSize_ - Len(queue_)

\* A reader that is told "closed" has not been told too early: as long as the
\* queue is not reopened nothing is left in it and nothing comes (the comment
\* at line 123: "empty only when the queue is empty and closed").
DrainedForGood == drained => closed_ /\ queue_ = <<>>

\* Operations are atomic and keep the order, whoever waits or wakes.
Abstract == INSTANCE BoundedQueue WITH
              Capacity <- maxSize_, items <- queue_, open <- ~closed_

ImplementsBoundedQueue == Abstract!Spec

\* Waiting readers and elements do not stay together.
ReadersServed ==
    WaitingEmpty(pc) # {} /\ queue_ # <<>>
      ~> WaitingEmpty(pc) = {} \/ queue_ = <<>>

\* Neither do waiting writers and room.
WritersServed ==
    WaitingFull(pc) # {} /\ Len(queue_) < maxSize_
      ~> WaitingFull(pc) = {} \/ Len(queue_) = maxSize_

\* close() gets every blocked thread out of its call (lines 44-49).
CloseReleases == closed_ ~> \A t \in Threads : pc[t] = "idle"

\* Together: nobody waits for ever for what is there, or after close().
CallsReturn == ReadersServed /\ WritersServed /\ CloseReleases

=============================================================================
