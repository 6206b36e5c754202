----------------------- MODULE ConcurrentQueue_proofs -----------------------
(***************************************************************************)
(* What a ConcurrentQueue promises for any number of threads and any       *)
(* capacity: it is a bounded queue, whoever waits or wakes; what it says   *)
(* of its end is final; and no notification is lost as long as nobody      *)
(* calls peek: peek may be the one that is notified, and it leaves the     *)
(* element to nobody in particular.                                        *)
(***************************************************************************)
EXTENDS ConcurrentQueue, SequenceTheorems, FiniteSetTheorems, TLAPS

ThreadStates == {"idle", "waiting", "notified", "expired"}

\* A closed queue keeps nobody waiting.
ClosedFree == closed_ => WaitingEmpty(pc) = {} /\ WaitingFull(pc) = {}

----
(* Lemmas on the operators.                                                *)

\* At most one thread, of those waiting, is changed by notify_one.
LEMMA NotifyOneCases ==
    ASSUME NEW p \in [Threads -> ThreadStates], NEW W \in SUBSET Threads,
           NEW q \in NotifyOne(p, W)
    PROVE  \/ W = {} /\ q = p
           \/ \E c \in W : q = [p EXCEPT ![c] = "notified"]
  BY DEF NotifyOne

LEMMA NotifyAllNobodyWaits ==
    ASSUME NEW p \in [Threads -> ThreadStates]
    PROVE  /\ NotifyAll(p) \in [Threads -> ThreadStates]
           /\ WaitingEmpty(NotifyAll(p)) = {}
           /\ WaitingFull(NotifyAll(p)) = {}
           /\ \A t \in Threads : NotifyAll(p)[t] = "idle" <=> p[t] = "idle"
  BY DEF NotifyAll, WaitingEmpty, WaitingFull, ThreadStates, Threads

LEMMA QueueFacts ==
    /\ \A q \in Seq(Values) : Len(q) \in Nat
    /\ \A q \in Seq(Values), v \in Values :
         Append(q, v) \in Seq(Values) /\ Len(Append(q, v)) = Len(q) + 1
    /\ \A q \in Seq(Values) :
         q # <<>> => Tail(q) \in Seq(Values) /\ Len(Tail(q)) = Len(q) - 1
    /\ <<>> \in Seq(Values) /\ Len(<<>>) = 0
  BY LenProperties, AppendProperties, HeadTailProperties, EmptySeq

\* Counting notified threads: one more, none less, one less.
LEMMA Counting ==
    ASSUME NEW N \in SUBSET Threads, NEW M \in SUBSET Threads, NEW k \in Int,
           Cardinality(N) >= k
    PROVE  /\ Cardinality(M) \in Nat
           /\ N \subseteq M => Cardinality(M) >= k
           /\ \A c : c \notin N /\ N \union {c} \subseteq M => Cardinality(M) >= k + 1
           /\ \A c : N \ {c} \subseteq M => Cardinality(M) >= k - 1
  <1>1. IsFiniteSet(N) /\ IsFiniteSet(M)
    BY QueueConstants, FS_Subset
  <1>2. Cardinality(N) \in Nat /\ Cardinality(M) \in Nat
    BY <1>1, FS_CardinalityType
  <1>3. N \subseteq M => Cardinality(M) >= k
    BY <1>1, <1>2, FS_Subset
  <1>4. ASSUME NEW c, c \notin N, N \union {c} \subseteq M
        PROVE  Cardinality(M) >= k + 1
    <2>1. Cardinality(N \union {c}) = Cardinality(N) + 1
      BY <1>1, <1>4, FS_AddElement
    <2>2. Cardinality(N \union {c}) <= Cardinality(M)
      BY <1>1, <1>4, FS_Subset
    <2> QED
      BY <1>2, <2>1, <2>2
  <1>5. ASSUME NEW c, N \ {c} \subseteq M
        PROVE  Cardinality(M) >= k - 1
    <2>1. /\ IsFiniteSet(N \ {c})
          /\ Cardinality(N \ {c}) =
               IF c \in N THEN Cardinality(N) - 1 ELSE Cardinality(N)
      BY <1>1, FS_RemoveElement
    <2>2. Cardinality(N \ {c}) <= Cardinality(M)
      BY <1>1, <1>5, FS_Subset
    <2>3. Cardinality(N \ {c}) \in Nat
      BY <2>1, FS_CardinalityType
    <2> QED
      BY <1>2, <2>1, <2>2, <2>3
  <1> QED
    BY <1>2, <1>3, <1>4, <1>5

----
(* Types.                                                                  *)

LEMMA EnqueueEffect ==
    ASSUME TypeOK, NEW t \in Producers, NEW v \in Values, Enqueue(t, v), Room
    PROVE  /\ queue_' \in Seq(Values) /\ Len(queue_') <= maxSize_
           /\ drained' = drained
           /\ pc' \in [Threads -> ThreadStates]
           /\ pc'[t] = "idle"
           /\ \A u \in Threads \ {t} : pc'[u] = "idle" <=> pc[u] = "idle"
  <1>1. /\ t \in Threads
        /\ queue_ \in Seq(Values) /\ Len(queue_) <= maxSize_
        /\ pc \in [Threads -> ThreadStates]
    BY DEF TypeOK, Threads, ThreadStates
  <1> DEFINE r == Returned(t)
  <1>2. /\ r \in [Threads -> ThreadStates]
        /\ r[t] = "idle"
        /\ \A u \in Threads \ {t} : r[u] = pc[u]
    BY <1>1 DEF Returned, ThreadStates
  <1>3. CASE closed_
    BY <1>1, <1>2, <1>3 DEF Enqueue
  <1>4. CASE ~closed_
    <2>1. /\ queue_' = Append(queue_, v)
          /\ pc' \in NotifyOne(r, WaitingEmpty(pc))
          /\ drained' = drained
      BY <1>4 DEF Enqueue
    <2>2. queue_' \in Seq(Values) /\ Len(queue_') <= maxSize_
      BY <1>1, <1>4, <2>1, QueueFacts, QueueConstants DEF Room
    <2>3. \A c \in WaitingEmpty(pc) : c \in Threads \ {t} /\ pc[c] = "waiting"
      BY QueueConstants DEF WaitingEmpty, Threads
    <2> HIDE DEF r
    <2>4. \/ pc' = r
          \/ \E c \in WaitingEmpty(pc) : pc' = [r EXCEPT ![c] = "notified"]
      BY <1>2, <2>1, <2>3, NotifyOneCases
    <2> QED
      BY <1>1, <1>2, <2>1, <2>2, <2>3, <2>4 DEF ThreadStates
  <1> QED
    BY <1>3, <1>4

LEMMA DequeueEffect ==
    ASSUME TypeOK, NEW t \in Consumers, NEW o, Dequeue(t, o)
    PROVE  /\ queue_' \in Seq(Values) /\ Len(queue_') <= maxSize_
           /\ drained' \in BOOLEAN
           /\ pc' \in [Threads -> ThreadStates]
           /\ pc'[t] = "idle"
           /\ \A u \in Threads \ {t} : pc'[u] = "idle" <=> pc[u] = "idle"
  <1>1. /\ t \in Threads
        /\ queue_ \in Seq(Values) /\ Len(queue_) <= maxSize_
        /\ pc \in [Threads -> ThreadStates]
        /\ closed_ \in BOOLEAN /\ drained \in BOOLEAN
    BY DEF TypeOK, Threads, ThreadStates
  <1> DEFINE r == Returned(t)
  <1>2. /\ r \in [Threads -> ThreadStates]
        /\ r[t] = "idle"
        /\ \A u \in Threads \ {t} : r[u] = pc[u]
    BY <1>1 DEF Returned, ThreadStates
  <1>3. CASE queue_ = <<>> \/ o = "peek"
    BY <1>1, <1>2, <1>3 DEF Dequeue
  <1>4. CASE queue_ # <<>> /\ o # "peek"
    <2>1. /\ queue_' = Tail(queue_)
          /\ pc' \in NotifyOne(r, WaitingFull(pc))
          /\ drained' = drained
      BY <1>4 DEF Dequeue
    <2>2. queue_' \in Seq(Values) /\ Len(queue_') <= maxSize_
      BY <1>1, <1>4, <2>1, QueueFacts, QueueConstants
    <2>3. \A c \in WaitingFull(pc) : c \in Threads \ {t} /\ pc[c] = "waiting"
      BY QueueConstants DEF WaitingFull, Threads
    <2> HIDE DEF r
    <2>4. \/ pc' = r
          \/ \E c \in WaitingFull(pc) : pc' = [r EXCEPT ![c] = "notified"]
      BY <1>2, <2>1, <2>3, NotifyOneCases
    <2> QED
      BY <1>1, <1>2, <2>1, <2>2, <2>3, <2>4 DEF ThreadStates
  <1> QED
    BY <1>3, <1>4

LEMMA TypeNext == TypeOK /\ [Next]_vars => TypeOK'
  <1> SUFFICES ASSUME TypeOK, [Next]_vars PROVE TypeOK'
    OBVIOUS
  <1> USE QueueConstants DEF TypeOK
  <1>1. ASSUME NEW t \in Producers, NEW v \in Values, PushNow(t, v) \/ TryPush(t, v)
        PROVE  TypeOK'
    <2>1. Enqueue(t, v) /\ Room /\ pc[t] = "idle" /\ UNCHANGED <<closed_, op, value>>
      BY <1>1 DEF PushNow, TryPush, Room
    <2> QED
      BY <2>1, EnqueueEffect DEF ThreadStates, Threads
  <1>2. ASSUME NEW t \in Producers, NEW v \in Values, NEW o \in PushOps, PushBlocks(t, v, o)
        PROVE  TypeOK'
    BY <1>2 DEF PushBlocks, Threads
  <1>3. ASSUME NEW t \in Consumers, NEW o \in PopOps, PopNow(t, o)
        PROVE  TypeOK'
    BY <1>3, DequeueEffect DEF PopNow, ThreadStates, Threads
  <1>4. ASSUME NEW t \in Consumers, NEW o \in PopOps, PopBlocks(t, o)
        PROVE  TypeOK'
    BY <1>4 DEF PopBlocks, Threads
  <1>5. ASSUME NEW t \in Consumers, TryPop(t)
        PROVE  TypeOK'
    BY <1>5, DequeueEffect DEF TryPop, ThreadStates, Threads
  <1>6. ASSUME NEW t \in Producers, PushResumes(t)
        PROVE  TypeOK'
    <2>1. /\ value[t] \in Values /\ Enqueue(t, value[t]) /\ Room
          /\ op' = [op EXCEPT ![t] = None] /\ value' = [value EXCEPT ![t] = None]
          /\ UNCHANGED closed_
      BY <1>6 DEF PushResumes, Threads
    <2>2. /\ queue_' \in Seq(Values) /\ Len(queue_') <= maxSize_
          /\ drained' = drained
          /\ pc' \in [Threads -> ThreadStates]
          /\ pc'[t] = "idle"
          /\ \A u \in Threads \ {t} : pc'[u] = "idle" <=> pc[u] = "idle"
      BY <2>1, EnqueueEffect
    <2> QED
      BY <2>1, <2>2 DEF ThreadStates, Threads
  <1>7. ASSUME NEW t \in Consumers, PopResumes(t)
        PROVE  TypeOK'
    <2>1. /\ op[t] \in PopOps \union PushOps /\ Dequeue(t, op[t])
          /\ op' = [op EXCEPT ![t] = None]
          /\ UNCHANGED <<closed_, value>>
      BY <1>7 DEF PopResumes, Threads
    <2>2. /\ queue_' \in Seq(Values) /\ Len(queue_') <= maxSize_
          /\ drained' \in BOOLEAN
          /\ pc' \in [Threads -> ThreadStates]
          /\ pc'[t] = "idle"
          /\ \A u \in Threads \ {t} : pc'[u] = "idle" <=> pc[u] = "idle"
      BY <2>1, DequeueEffect
    <2> QED
      BY <2>1, <2>2 DEF ThreadStates, Threads
  <1>8. ASSUME NEW t \in Threads, WaitsAgain(t) \/ GivesUp(t) \/ Timeout(t) \/ SpuriousWakeup(t)
        PROVE  TypeOK'
    BY <1>8 DEF WaitsAgain, GivesUp, Timeout, SpuriousWakeup, Returned, Threads
  <1>9. CASE Close \/ Reopen
    <2>1. /\ pc' = NotifyAll(pc)
          /\ closed_' \in BOOLEAN /\ drained' \in BOOLEAN
          /\ UNCHANGED <<queue_, op, value>>
      BY <1>9 DEF Close, Reopen
    <2>2. pc \in [Threads -> ThreadStates]
      BY DEF ThreadStates
    <2>3. /\ pc' \in [Threads -> ThreadStates]
          /\ \A t \in Threads : pc'[t] = "idle" <=> pc[t] = "idle"
      BY <2>1, <2>2, NotifyAllNobodyWaits
    <2> QED
      BY <2>1, <2>3 DEF ThreadStates, Threads
  <1>10. CASE UNCHANGED vars
    BY <1>10 DEF vars
  <1> QED
    BY <1>1, <1>2, <1>3, <1>4, <1>5, <1>6, <1>7, <1>8, <1>9, <1>10 DEF Next, Resume

LEMMA TypeInit == Init => TypeOK
  <1> SUFFICES ASSUME Init PROVE TypeOK
    OBVIOUS
  <1>1. queue_ \in Seq(Values) /\ Len(queue_) <= maxSize_
    BY QueueFacts, QueueConstants DEF Init
  <1>2. /\ pc \in [Threads -> {"idle", "waiting", "notified", "expired"}]
        /\ op \in [Threads -> PushOps \union PopOps \union {None}]
        /\ value \in [Threads -> Values \union {None}]
        /\ \A t \in Threads : pc[t] = "idle" /\ op[t] = None /\ value[t] = None
    BY DEF Init
  <1>3. closed_ \in BOOLEAN /\ drained \in BOOLEAN
    BY DEF Init
  <1> QED
    BY <1>1, <1>2, <1>3 DEF TypeOK, Threads

\* In every reachable state the variables have their types and the queue holds
\* at most maxSize_ elements.
THEOREM TypeCorrect == Spec => []TypeOK
  BY TypeInit, TypeNext, PTL DEF Spec

----
(* The steps, by what they do to the counts.                               *)

Same == queue_' = queue_ /\ closed_' = closed_

\* An element is put in by t; a reader is notified if one waits.
Puts(t) ==
    /\ t \in Producers
    /\ pc[t] # "waiting"
    /\ ~closed_ /\ ~closed_'
    /\ Len(queue_') = Len(queue_) + 1
    /\ pc' \in NotifyOne(Returned(t), WaitingEmpty(pc))

\* An element is taken out by t; a writer is notified if one waits.
Takes(t) ==
    /\ t \in Consumers
    /\ pc[t] # "waiting"
    /\ closed_' = closed_
    /\ Len(queue_') = Len(queue_) - 1
    /\ pc' \in NotifyOne(Returned(t), WaitingFull(pc))

\* A call of t ends without effect: closed, or the deadline is over.
Leaves(t) ==
    /\ t \in Threads
    /\ pc[t] # "waiting"
    /\ closed_ \/ pc[t] # "notified"
    /\ pc' = Returned(t)
    /\ Same

\* t starts to wait, or goes on waiting.
Blocks(t) ==
    /\ t \in Threads
    /\ ~Satisfied(t)
    /\ pc' = [pc EXCEPT ![t] = "waiting"]
    /\ Same

\* t stops waiting.
Wakes(t) ==
    /\ t \in Threads
    /\ pc[t] = "waiting"
    /\ pc' \in {[pc EXCEPT ![t] = "notified"], [pc EXCEPT ![t] = "expired"]}
    /\ Same

WakesAll == pc' = NotifyAll(pc) /\ queue_' = queue_

LEMMA StepCases ==
    ASSUME TypeOK, Next, "peek" \notin PopOps
    PROVE  \/ \E t \in Threads :
                Puts(t) \/ Takes(t) \/ Leaves(t) \/ Blocks(t) \/ Wakes(t)
           \/ WakesAll
  <1>0. /\ queue_ \in Seq(Values)
        /\ closed_ \in BOOLEAN
        /\ \A t \in Producers : value[t] \in Values \union {None}
        /\ \A t \in Producers : value[t] # None <=> pc[t] # "idle"
        /\ \A t \in Threads : op[t] \in PushOps \union PopOps \union {None}
        /\ \A t \in Threads : op[t] = None <=> pc[t] = "idle"
    BY DEF TypeOK, Threads
  <1>1. ASSUME NEW t \in Producers, NEW v \in Values, Enqueue(t, v),
               pc[t] # "waiting", UNCHANGED closed_
        PROVE  Puts(t) \/ Leaves(t)
    <2>1. CASE closed_
      BY <1>1, <2>1 DEF Enqueue, Leaves, Same, Threads
    <2>2. CASE ~closed_
      BY <1>0, <1>1, <2>2, QueueFacts DEF Enqueue, Puts
    <2> QED
      BY <2>1, <2>2
  <1>2. ASSUME NEW t \in Consumers, NEW o, o # "peek", Dequeue(t, o), Element,
               pc[t] # "waiting", UNCHANGED closed_
        PROVE  Takes(t) \/ Leaves(t)
    <2>1. CASE queue_ = <<>>
      BY <1>1, <1>2, <2>1 DEF Dequeue, Element, Leaves, Same, Threads
    <2>2. CASE queue_ # <<>>
      BY <1>0, <1>2, <2>2, QueueFacts DEF Dequeue, Takes
    <2> QED
      BY <2>1, <2>2
  <1>3. ASSUME NEW t \in Producers, NEW v \in Values, PushNow(t, v) \/ TryPush(t, v)
        PROVE  Puts(t) \/ Leaves(t)
    BY <1>1, <1>3 DEF PushNow, TryPush
  <1>4. ASSUME NEW t \in Producers, NEW v \in Values, NEW o \in PushOps, PushBlocks(t, v, o)
        PROVE  Blocks(t)
    BY <1>4 DEF PushBlocks, Blocks, Satisfied, Same, Threads
  <1>5. ASSUME NEW t \in Consumers, NEW o \in PopOps, PopNow(t, o)
        PROVE  Takes(t) \/ Leaves(t)
    BY <1>2, <1>5, "peek" \notin PopOps DEF PopNow
  <1>6. ASSUME NEW t \in Consumers, NEW o \in PopOps, PopBlocks(t, o)
        PROVE  Blocks(t)
    BY <1>6, QueueConstants DEF PopBlocks, Blocks, Satisfied, Same, Threads
  <1>7. ASSUME NEW t \in Consumers, TryPop(t)
        PROVE  Takes(t) \/ Leaves(t)
    BY <1>2, <1>7 DEF TryPop, Element
  <1>8. ASSUME NEW t \in Producers, PushResumes(t)
        PROVE  Puts(t) \/ Leaves(t)
    BY <1>0, <1>1, <1>8 DEF PushResumes
  <1>9. ASSUME NEW t \in Consumers, PopResumes(t)
        PROVE  Takes(t) \/ Leaves(t)
    <2>1. op[t] \in PushOps \union PopOps
      BY <1>0, <1>9 DEF PopResumes, Threads
    <2>2. op[t] # "peek"
      BY <2>1, QueueConstants
    <2> QED
      BY <1>2, <1>9, <2>2 DEF PopResumes
  <1>10. ASSUME NEW t \in Threads, WaitsAgain(t) \/ GivesUp(t) \/ Timeout(t) \/ SpuriousWakeup(t)
         PROVE  Blocks(t) \/ Leaves(t) \/ Wakes(t)
    BY <1>10 DEF WaitsAgain, GivesUp, Timeout, SpuriousWakeup, Blocks, Leaves, Wakes, Same
  <1>11. CASE Close \/ Reopen
    BY <1>11 DEF Close, Reopen, WakesAll
  <1>12. Producers \subseteq Threads /\ Consumers \subseteq Threads
    BY DEF Threads
  <1> QED
    BY <1>3, <1>4, <1>5, <1>6, <1>7, <1>8, <1>9, <1>10, <1>11, <1>12
    DEF Next, Resume

LEMMA ClosedFreeNext ==
    ASSUME TypeOK, ClosedFree, Next, "peek" \notin PopOps
    PROVE  ClosedFree'
  <1>0. pc \in [Threads -> ThreadStates]
    BY DEF TypeOK, ThreadStates
  <1>1. ASSUME NEW t \in Threads, NEW W \in SUBSET Threads, pc' \in NotifyOne(Returned(t), W)
        PROVE  /\ WaitingEmpty(pc') \subseteq WaitingEmpty(pc)
               /\ WaitingFull(pc') \subseteq WaitingFull(pc)
    <2>1. Returned(t) \in [Threads -> ThreadStates]
      BY <1>0 DEF Returned, ThreadStates
    <2>2. pc' = Returned(t) \/ \E c \in W : pc' = [Returned(t) EXCEPT ![c] = "notified"]
      BY <1>1, <2>1, NotifyOneCases
    <2> QED
      BY <1>0, <2>2 DEF Returned, WaitingEmpty, WaitingFull, Threads
  <1>2. ASSUME NEW t \in Threads, Takes(t)
        PROVE  ClosedFree'
    <2>1. WaitingFull(pc) \in SUBSET Threads
      BY DEF WaitingFull, Threads
    <2> QED
      BY <1>1, <1>2, <2>1 DEF Takes, ClosedFree
  <1>3. ASSUME NEW t \in Threads, Leaves(t) \/ Wakes(t)
        PROVE  ClosedFree'
    BY <1>0, <1>3
    DEF Leaves, Wakes, Same, Returned, ClosedFree, WaitingEmpty, WaitingFull, Threads
  <1>4. ASSUME NEW t \in Threads, Puts(t) \/ Blocks(t)
        PROVE  ClosedFree'
    BY <1>4 DEF Puts, Blocks, Same, Satisfied, Room, Element, ClosedFree
  <1>5. CASE WakesAll
    BY <1>0, <1>5, NotifyAllNobodyWaits DEF WakesAll, ClosedFree
  <1> QED
    BY <1>2, <1>3, <1>4, <1>5, StepCases

----
(* The two counts.                                                         *)

LEMMA ElementNext ==
    ASSUME TypeOK, ClosedFree, NoLostElement, Next, "peek" \notin PopOps
    PROVE  NoLostElement'
  <1> DEFINE N == Notified(Consumers)
             W == WaitingEmpty(pc)
             k == Len(queue_)
  <1>0. /\ pc \in [Threads -> ThreadStates]
        /\ Len(queue_) \in Nat /\ maxSize_ \in Nat
        /\ Consumers \subseteq Threads /\ Producers \subseteq Threads
        /\ Consumers \intersect Producers = {}
    BY QueueConstants, QueueFacts DEF TypeOK, ThreadStates, Threads
  <1>1. /\ N \in SUBSET Threads /\ N' \in SUBSET Threads /\ k \in Int
        /\ W # {} => Cardinality(N) >= k
    BY <1>0 DEF Notified, NoLostElement
  <1>2. SUFFICES ASSUME W' # {} PROVE Cardinality(N') >= k'
    BY DEF NoLostElement
  <1> HIDE DEF k
  <1>3. ASSUME NEW t \in Threads, Puts(t)
        PROVE  Cardinality(N') >= k'
    <2>1. k' = k + 1
      BY <1>0, <1>3 DEF Puts, k
    <2>2. /\ Returned(t) \in [Threads -> ThreadStates]
          /\ W \in SUBSET Threads
          /\ \A u \in Consumers : Returned(t)[u] = pc[u]
      BY <1>0, <1>3 DEF Puts, Returned, ThreadStates, WaitingEmpty
    <2>3. W # {} /\ \E c \in W : pc' = [Returned(t) EXCEPT ![c] = "notified"]
      <3>1. \/ W = {} /\ pc' = Returned(t)
            \/ \E c \in W : pc' = [Returned(t) EXCEPT ![c] = "notified"]
        BY <1>3, <2>2, NotifyOneCases DEF Puts
      <3>2. ~(W = {} /\ pc' = Returned(t))
        BY <1>2, <2>2 DEF WaitingEmpty
      <3> QED
        BY <3>1, <3>2
    <2>4. PICK c \in W : pc' = [Returned(t) EXCEPT ![c] = "notified"]
      BY <2>3
    <2>5. c \notin N /\ N \union {c} \subseteq N'
      BY <1>0, <2>2, <2>4 DEF Notified, WaitingEmpty
    <2> QED
      BY <1>1, <2>1, <2>3, <2>5, Counting
  <1>4. ASSUME NEW t \in Threads, Takes(t)
        PROVE  Cardinality(N') >= k'
    <2>1. k' = k - 1
      BY <1>0, <1>4 DEF Takes, k
    <2>2. /\ Returned(t) \in [Threads -> ThreadStates]
          /\ WaitingFull(pc) \in SUBSET Producers
          /\ \A u \in Consumers \ {t} : Returned(t)[u] = pc[u]
          /\ Returned(t)[t] = "idle"
      BY <1>0, <1>4 DEF Takes, Returned, ThreadStates, WaitingFull
    <2>3. \A u \in Consumers \ {t} : pc'[u] = pc[u]
      BY <1>0, <1>4, <2>2, NotifyOneCases DEF Takes
    <2>4. pc'[t] # "waiting"
      BY <1>0, <1>4, <2>2, NotifyOneCases DEF Takes
    <2>5. N \ {t} \subseteq N' /\ W # {}
      BY <1>2, <2>3, <2>4 DEF Notified, WaitingEmpty
    <2> QED
      BY <1>1, <2>1, <2>5, Counting
  <1>5. ASSUME NEW t \in Threads, Leaves(t)
        PROVE  Cardinality(N') >= k'
    <2>1. k' = k /\ \A u \in Threads : pc'[u] = IF u = t THEN "idle" ELSE pc[u]
      BY <1>0, <1>5 DEF Leaves, Same, Returned, k
    <2>2. W # {}
      BY <1>0, <1>2, <2>1 DEF WaitingEmpty
    <2>3. pc[t] # "notified"
      BY <1>5, <2>2 DEF Leaves, ClosedFree
    <2>4. N \subseteq N'
      BY <1>0, <2>1, <2>3 DEF Notified
    <2> QED
      BY <1>1, <2>1, <2>2, <2>4, Counting
  <1>6. ASSUME NEW t \in Threads, Blocks(t)
        PROVE  Cardinality(N') >= k'
    <2>1. k' = k /\ \A u \in Threads \ {t} : pc'[u] = pc[u]
      BY <1>0, <1>6 DEF Blocks, Same, k
    <2>2. CASE t \in Consumers
      <3>1. k <= 0
        BY <1>0, <1>6, <2>2 DEF Blocks, Satisfied, Element, k
      <3>2. IsFiniteSet(N')
        BY <1>1, QueueConstants, FS_Subset
      <3> QED
        BY <1>1, <2>1, <3>1, <3>2, FS_CardinalityType
    <2>3. CASE t \notin Consumers
      <3>1. N \subseteq N' /\ W # {}
        BY <1>0, <1>2, <2>1, <2>3 DEF Notified, WaitingEmpty
      <3> QED
        BY <1>1, <2>1, <3>1, Counting
    <2> QED
      BY <2>2, <2>3
  <1>7. ASSUME NEW t \in Threads, Wakes(t)
        PROVE  Cardinality(N') >= k'
    <2>1. /\ k' = k
          /\ pc[t] = "waiting" /\ pc'[t] # "waiting"
          /\ \A u \in Threads \ {t} : pc'[u] = pc[u]
      BY <1>0, <1>7 DEF Wakes, Same, k
    <2>2. N \subseteq N' /\ W # {}
      BY <1>0, <1>2, <2>1 DEF Notified, WaitingEmpty
    <2> QED
      BY <1>1, <2>1, <2>2, Counting
  <1>8. ~WakesAll
    BY <1>0, <1>2, NotifyAllNobodyWaits DEF WakesAll
  <1> QED
    BY <1>3, <1>4, <1>5, <1>6, <1>7, <1>8, StepCases

LEMMA RoomNext ==
    ASSUME TypeOK, ClosedFree, NoLostRoom, Next, "peek" \notin PopOps
    PROVE  NoLostRoom'
  <1> DEFINE N == Notified(Producers)
             W == WaitingFull(pc)
             k == maxSize_ - Len(queue_)
  <1>0. /\ pc \in [Threads -> ThreadStates]
        /\ Len(queue_) \in Nat /\ maxSize_ \in Nat
        /\ Producers \subseteq Threads /\ Consumers \subseteq Threads
        /\ Producers \intersect Consumers = {}
    BY QueueConstants, QueueFacts DEF TypeOK, ThreadStates, Threads
  <1>1. /\ N \in SUBSET Threads /\ N' \in SUBSET Threads /\ k \in Int
        /\ W # {} => Cardinality(N) >= k
    BY <1>0 DEF Notified, NoLostRoom
  <1>2. SUFFICES ASSUME W' # {} PROVE Cardinality(N') >= k'
    BY DEF NoLostRoom
  <1> HIDE DEF k
  <1>3. ASSUME NEW t \in Threads, Takes(t)
        PROVE  Cardinality(N') >= k'
    <2>1. k' = k + 1
      BY <1>0, <1>3 DEF Takes, k
    <2>2. /\ Returned(t) \in [Threads -> ThreadStates]
          /\ W \in SUBSET Threads
          /\ \A u \in Producers : Returned(t)[u] = pc[u]
      BY <1>0, <1>3 DEF Takes, Returned, ThreadStates, WaitingFull
    <2>3. W # {} /\ \E c \in W : pc' = [Returned(t) EXCEPT ![c] = "notified"]
      <3>1. \/ W = {} /\ pc' = Returned(t)
            \/ \E c \in W : pc' = [Returned(t) EXCEPT ![c] = "notified"]
        BY <1>3, <2>2, NotifyOneCases DEF Takes
      <3>2. ~(W = {} /\ pc' = Returned(t))
        BY <1>2, <2>2 DEF WaitingFull
      <3> QED
        BY <3>1, <3>2
    <2>4. PICK c \in W : pc' = [Returned(t) EXCEPT ![c] = "notified"]
      BY <2>3
    <2>5. c \notin N /\ N \union {c} \subseteq N'
      BY <1>0, <2>2, <2>4 DEF Notified, WaitingFull
    <2> QED
      BY <1>1, <2>1, <2>3, <2>5, Counting
  <1>4. ASSUME NEW t \in Threads, Puts(t)
        PROVE  Cardinality(N') >= k'
    <2>1. k' = k - 1
      BY <1>0, <1>4 DEF Puts, k
    <2>2. /\ Returned(t) \in [Threads -> ThreadStates]
          /\ WaitingEmpty(pc) \in SUBSET Consumers
          /\ \A u \in Producers \ {t} : Returned(t)[u] = pc[u]
          /\ Returned(t)[t] = "idle"
      BY <1>0, <1>4 DEF Puts, Returned, ThreadStates, WaitingEmpty
    <2>3. \A u \in Producers \ {t} : pc'[u] = pc[u]
      BY <1>0, <1>4, <2>2, NotifyOneCases DEF Puts
    <2>4. pc'[t] # "waiting"
      BY <1>0, <1>4, <2>2, NotifyOneCases DEF Puts
    <2>5. N \ {t} \subseteq N' /\ W # {}
      BY <1>2, <2>3, <2>4 DEF Notified, WaitingFull
    <2> QED
      BY <1>1, <2>1, <2>5, Counting
  <1>5. ASSUME NEW t \in Threads, Leaves(t)
        PROVE  Cardinality(N') >= k'
    <2>1. k' = k /\ \A u \in Threads : pc'[u] = IF u = t THEN "idle" ELSE pc[u]
      BY <1>0, <1>5 DEF Leaves, Same, Returned, k
    <2>2. W # {}
      BY <1>0, <1>2, <2>1 DEF WaitingFull
    <2>3. pc[t] # "notified"
      BY <1>5, <2>2 DEF Leaves, ClosedFree
    <2>4. N \subseteq N'
      BY <1>0, <2>1, <2>3 DEF Notified
    <2> QED
      BY <1>1, <2>1, <2>2, <2>4, Counting
  <1>6. ASSUME NEW t \in Threads, Blocks(t)
        PROVE  Cardinality(N') >= k'
    <2>1. k' = k /\ \A u \in Threads \ {t} : pc'[u] = pc[u]
      BY <1>0, <1>6 DEF Blocks, Same, k
    <2>2. CASE t \in Producers
      <3>1. k <= 0
        BY <1>0, <1>6, <2>2 DEF Blocks, Satisfied, Room, k
      <3>2. IsFiniteSet(N')
        BY <1>1, QueueConstants, FS_Subset
      <3> QED
        BY <1>1, <2>1, <3>1, <3>2, FS_CardinalityType
    <2>3. CASE t \notin Producers
      <3>1. N \subseteq N' /\ W # {}
        BY <1>0, <1>2, <2>1, <2>3 DEF Notified, WaitingFull
      <3> QED
        BY <1>1, <2>1, <3>1, Counting
    <2> QED
      BY <2>2, <2>3
  <1>7. ASSUME NEW t \in Threads, Wakes(t)
        PROVE  Cardinality(N') >= k'
    <2>1. /\ k' = k
          /\ pc[t] = "waiting" /\ pc'[t] # "waiting"
          /\ \A u \in Threads \ {t} : pc'[u] = pc[u]
      BY <1>0, <1>7 DEF Wakes, Same, k
    <2>2. N \subseteq N' /\ W # {}
      BY <1>0, <1>2, <2>1 DEF Notified, WaitingFull
    <2> QED
      BY <1>1, <2>1, <2>2, Counting
  <1>8. ~WakesAll
    BY <1>0, <1>2, NotifyAllNobodyWaits DEF WakesAll
  <1> QED
    BY <1>3, <1>4, <1>5, <1>6, <1>7, <1>8, StepCases

LEMMA CountsAlways ==
    ASSUME "peek" \notin PopOps
    PROVE  Spec => [](TypeOK /\ ClosedFree /\ NoLostElement /\ NoLostRoom)
  <1> DEFINE Inv == TypeOK /\ ClosedFree /\ NoLostElement /\ NoLostRoom
  <1>1. Init => Inv
    BY TypeInit DEF Init, ClosedFree, NoLostElement, NoLostRoom, WaitingEmpty,
                    WaitingFull, Threads
  <1>2. Inv /\ [Next]_vars => Inv'
    <2>1. CASE Next
      BY <2>1, "peek" \notin PopOps, TypeNext, ClosedFreeNext, ElementNext, RoomNext
    <2>2. CASE UNCHANGED vars
      BY <2>2 DEF vars, TypeOK, ClosedFree, NoLostElement, NoLostRoom, Notified,
                  WaitingEmpty, WaitingFull
    <2> QED
      BY <2>1, <2>2
  <1> QED
    BY <1>1, <1>2, PTL DEF Spec

\* While a reader waits there are as many notified readers as elements.
THEOREM ElementNotificationsKept ==
    ASSUME "peek" \notin PopOps
    PROVE  Spec => []NoLostElement
  BY CountsAlways, "peek" \notin PopOps, PTL

\* While a writer waits there are as many notified writers as free places.
THEOREM RoomNotificationsKept ==
    ASSUME "peek" \notin PopOps
    PROVE  Spec => []NoLostRoom
  BY CountsAlways, "peek" \notin PopOps, PTL

----
(* The queue as its users see it.  Unlike the counts, this holds with peek *)
(* and with reopen.                                                        *)

\* A step is one of the abstract queue, or one that its users do not see.
LEMMA AbstractStep ==
    ASSUME TypeOK, [Next]_vars
    PROVE  [Abstract!Next]_(Abstract!vars)
  <1> USE DEF Abstract!Next, Abstract!vars
  <1>0. /\ closed_ \in BOOLEAN /\ drained \in BOOLEAN
        /\ \A t \in Producers : pc[t] # "idle" => value[t] \in Values
    BY DEF TypeOK, Threads
  <1>1. ASSUME NEW t \in Producers, NEW v \in Values, Enqueue(t, v), Room,
               UNCHANGED closed_
        PROVE  [Abstract!Next]_(Abstract!vars)
    <2>1. CASE closed_
      BY <1>1, <2>1 DEF Enqueue
    <2>2. CASE ~closed_
      <3>1. Len(queue_) < maxSize_ /\ queue_' = Append(queue_, v) /\ drained' = drained
        BY <1>1, <2>2 DEF Enqueue, Room
      <3>2. Abstract!Put
        BY <1>1, <2>2, <3>1 DEF Abstract!Put
      <3> QED
        BY <3>2
    <2> QED
      BY <2>1, <2>2
  <1>2. ASSUME NEW t \in Consumers, NEW o, Dequeue(t, o), Element, UNCHANGED closed_
        PROVE  [Abstract!Next]_(Abstract!vars)
    <2>1. CASE queue_ = <<>>
      <3>1. closed_ /\ queue_' = queue_ /\ drained' = TRUE
        BY <1>2, <2>1 DEF Dequeue, Element
      <3>2. Abstract!ReportDrained
        BY <1>2, <2>1, <3>1 DEF Abstract!ReportDrained
      <3> QED
        BY <3>2
    <2>2. CASE queue_ # <<>> /\ o = "peek"
      BY <1>2, <2>2 DEF Dequeue
    <2>3. CASE queue_ # <<>> /\ o # "peek"
      <3>1. queue_' = Tail(queue_) /\ drained' = drained
        BY <1>2, <2>3 DEF Dequeue
      <3>2. Abstract!Get
        BY <1>2, <2>3, <3>1 DEF Abstract!Get
      <3> QED
        BY <3>2
    <2> QED
      BY <2>1, <2>2, <2>3
  <1>3. ASSUME NEW t \in Producers, NEW v \in Values, PushNow(t, v) \/ TryPush(t, v)
        PROVE  [Abstract!Next]_(Abstract!vars)
    BY <1>1, <1>3 DEF PushNow, TryPush, Room
  <1>4. ASSUME NEW t \in Producers, PushResumes(t)
        PROVE  [Abstract!Next]_(Abstract!vars)
    <2>1. value[t] \in Values
      BY <1>0, <1>4 DEF PushResumes
    <2> QED
      BY <1>1, <1>4, <2>1 DEF PushResumes
  <1>5. ASSUME NEW t \in Consumers, NEW o \in PopOps, PopNow(t, o)
        PROVE  [Abstract!Next]_(Abstract!vars)
    BY <1>2, <1>5 DEF PopNow
  <1>6. ASSUME NEW t \in Consumers, TryPop(t) \/ PopResumes(t)
        PROVE  [Abstract!Next]_(Abstract!vars)
    BY <1>2, <1>6 DEF TryPop, PopResumes, Element
  <1>7. ASSUME UNCHANGED <<queue_, closed_, drained>>
        PROVE  [Abstract!Next]_(Abstract!vars)
    BY <1>7
  <1>8. ASSUME NEW t \in Threads, WaitsAgain(t) \/ GivesUp(t) \/ Timeout(t) \/ SpuriousWakeup(t)
        PROVE  UNCHANGED <<queue_, closed_, drained>>
    BY <1>8 DEF WaitsAgain, GivesUp, Timeout, SpuriousWakeup
  <1>9. ASSUME NEW t \in Threads, NEW v, NEW o, PushBlocks(t, v, o) \/ PopBlocks(t, o)
        PROVE  UNCHANGED <<queue_, closed_, drained>>
    BY <1>9 DEF PushBlocks, PopBlocks
  <1>10. CASE Close
    <2>1. Abstract!Close
      BY <1>10 DEF Close, Abstract!Close
    <2> QED
      BY <2>1
  <1>11. CASE Reopen
    <2>1. Abstract!Reopen
      BY <1>11 DEF Reopen, Abstract!Reopen
    <2> QED
      BY <2>1
  <1>12. CASE UNCHANGED vars
    BY <1>12 DEF vars
  <1>13. Producers \subseteq Threads /\ Consumers \subseteq Threads
    BY DEF Threads
  <1> HIDE DEF Abstract!Next, Abstract!vars
  <1> QED
    BY <1>3, <1>4, <1>5, <1>6, <1>7, <1>8, <1>9, <1>10, <1>11, <1>12, <1>13
    DEF Next, Resume

\* Whatever waits and wakes, the threads see an atomic bounded queue: every
\* operation takes effect at one moment, in order, within the capacity, and
\* nothing enters a closed queue (lines 44-191 of concurrentQueue.hpp).
THEOREM QueueRefinement == Spec => ImplementsBoundedQueue
  <1>1. Init => Abstract!Init
    BY DEF Init, Abstract!Init
  <1>2. TypeOK /\ [Next]_vars => [Abstract!Next]_(Abstract!vars)
    BY AbstractStep
  <1> QED
    BY <1>1, <1>2, TypeCorrect, PTL DEF Spec, ImplementsBoundedQueue, Abstract!Spec

\* What the abstract queue promises of "closed": it is not said too early.
LEMMA DrainedStep ==
    ASSUME DrainedForGood, [Abstract!Next]_(Abstract!vars),
           closed_ \in BOOLEAN, closed_' \in BOOLEAN
    PROVE  DrainedForGood'
  BY DEF DrainedForGood, Abstract!Next, Abstract!vars, Abstract!Put, Abstract!Get,
         Abstract!ReportDrained, Abstract!Close, Abstract!Reopen

\* A reader that was told "closed" has missed nothing, and will miss nothing
\* until the queue is reopened (the comment at line 123).
THEOREM DrainedMeansEmpty == Spec => []DrainedForGood
  <1>1. Init => DrainedForGood
    BY DEF Init, DrainedForGood
  <1>2. TypeOK /\ TypeOK' /\ DrainedForGood /\ [Next]_vars => DrainedForGood'
    BY AbstractStep, DrainedStep DEF TypeOK
  <1> QED
    BY <1>1, <1>2, TypeCorrect, PTL DEF Spec

=============================================================================
