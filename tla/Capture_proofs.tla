---------------------------- MODULE Capture_proofs ----------------------------
(***************************************************************************)
(* What the server's two sources promise.                                  *)
(*                                                                         *)
(* Camera.tla, for any number of buffers and whatever fails: the buffers   *)
(* of a streaming camera are accounted for, the frame that is encoded is   *)
(* the one the driver had filled, and the destructor leaves no mapping.    *)
(*                                                                         *)
(* Microphone.tla, for every frame size and every period: the frames hold  *)
(* nothing that was not read, and nothing read is missing from them but    *)
(* after an irregular read, or with a period that does not divide the      *)
(* frame.                                                                  *)
(***************************************************************************)
EXTENDS Camera, Microphone, Integers, FiniteSetTheorems, TLAPS

(***************************************************************************)
(* The camera: the inductive invariant.                                    *)
(***************************************************************************)

\* The buffer that getBuffer() has and the driver has not.
InHand == IF pc \in {"copy", "requeue", "crashed"} THEN {index} ELSE {}

Apart == /\ queued \intersect done = {}
         /\ queued \intersect InHand = {}
         /\ queued \intersect lost = {}
         /\ done \intersect InHand = {}
         /\ done \intersect lost = {}
         /\ InHand \intersect lost = {}

\* A streaming camera's buffers are in one place each.
OnePlaceEach ==
    streaming => DOMAIN buffers_ = queued \union done \union InHand \union lost /\ Apart

\* buffers_ is empty, or it has a place for every buffer of the driver.
Layout == DOMAIN buffers_ = {} \/ DOMAIN buffers_ = 0..(granted - 1)

\* Where the capture thread stands: nothing moves before it starts, and it has
\* a buffer in its hand only while the camera streams.
Phases ==
    /\ mainPc = "construct" => pc = "none"
    /\ pc \in {"none", "start"} => ~streaming /\ queued = {} /\ done = {} /\ lost = {}
    /\ pc \in {"copy", "requeue"} => streaming

\* The buffer in hand keeps its content, then its copy does.
Untouched ==
    /\ pc = "copy" => content[index] = taken
    /\ pc \in {"requeue", "encode"} => copy = taken

\* The mappings are those of the buffers before the first that has none.
Mapped == {i \in DOMAIN buffers_ : buffers_[i] = "mapped"}

MappedFirst == \A i \in Mapped, j \in DOMAIN buffers_ : j < i => j \in Mapped

Mappings ==
    /\ mainPc \in {"construct", "serve", "wait"} => mappings = Mapped /\ MappedFirst
    /\ mainPc = "destroyed" => mappings = {}

Exchange == TypeOK /\ Layout /\ Phases /\ OnePlaceEach /\ Untouched /\ Mappings

(***************************************************************************)
(* The camera: counting buffers.                                           *)
(***************************************************************************)

LEMMA UpTo ==
  ASSUME NEW n \in Nat
  PROVE  IsFiniteSet(0..(n - 1)) /\ Cardinality(0..(n - 1)) = n
<1>1. CASE n = 0
  <2>1. 0..(n - 1) = {}  BY <1>1
  <2> QED  BY <1>1, <2>1, FS_EmptySet
<1>2. CASE n > 0
  <2>1. 0 \in Int /\ n - 1 \in Int  OBVIOUS
  <2>2. IsFiniteSet(0..(n - 1)) /\
        Cardinality(0..(n - 1)) = IF 0 > n - 1 THEN 0 ELSE (n - 1) - 0 + 1
    BY <2>1, FS_Interval
  <2> QED  BY <1>2, <2>2
<1> QED  BY <1>1, <1>2

\* Sets that have nothing in common count together.
LEMMA Together ==
  ASSUME NEW A, NEW B, IsFiniteSet(A), IsFiniteSet(B), A \intersect B = {}
  PROVE  /\ IsFiniteSet(A \union B)
         /\ Cardinality(A \union B) = Cardinality(A) + Cardinality(B)
         /\ Cardinality(A) \in Nat /\ Cardinality(B) \in Nat
<1>1. Cardinality(A) \in Nat /\ Cardinality(B) \in Nat  BY FS_CardinalityType
<1>2. IsFiniteSet(A \union B) /\
      Cardinality(A \union B)
        = Cardinality(A) + Cardinality(B) - Cardinality(A \intersect B)
  BY FS_Union
<1>3. Cardinality(A \intersect B) = 0  BY FS_EmptySet
<1> QED  BY <1>1, <1>2, <1>3

LEMMA BuffersCounted ==
  ASSUME TypeOK, Layout
  PROVE  /\ Cardinality(DOMAIN buffers_) \in Nat
         /\ DOMAIN buffers_ = 0..(Cardinality(DOMAIN buffers_) - 1)
         /\ Cardinality(DOMAIN buffers_) <= granted
<1>1. granted \in Nat  BY CameraConstants DEF TypeOK
<1>2. CASE DOMAIN buffers_ = {}
  <2>1. Cardinality(DOMAIN buffers_) = 0  BY <1>2, FS_EmptySet
  <2>2. 0..(0 - 1) = {}  OBVIOUS
  <2> QED  BY <1>1, <1>2, <2>1, <2>2
<1>3. CASE DOMAIN buffers_ = 0..(granted - 1)
  <2>1. Cardinality(DOMAIN buffers_) = granted  BY <1>1, <1>3, UpTo
  <2> QED  BY <1>1, <1>3, <2>1
<1> QED  BY <1>2, <1>3 DEF Layout

(***************************************************************************)
(* The camera: the steps.                                                  *)
(***************************************************************************)

LEMMA ExchangeInit == Init => Exchange
<1> SUFFICES ASSUME Init PROVE Exchange  OBVIOUS
<1>1. 0 \in 0..BufferBound /\ 0 \in Indices  BY CameraConstants DEF Indices
<1>2. DOMAIN buffers_ = {}  BY DEF Init
<1>3. content \in [Indices -> {0, 1}]  BY DEF Init
<1>4. TypeOK  BY <1>1, <1>2, <1>3 DEF Init, TypeOK
<1>5. Layout /\ Phases /\ OnePlaceEach /\ Untouched
  BY <1>2 DEF Init, Layout, Phases, OnePlaceEach, Untouched
<1>6. Mapped = {}  BY <1>2 DEF Mapped
<1>7. Mappings  BY <1>6 DEF Init, Mappings, MappedFirst
<1> QED  BY <1>4, <1>5, <1>7 DEF Exchange

\* What the constructor leaves: nothing streams, and a prefix of the buffers is
\* mapped.
LEMMA ConstructedKeeps ==
  ASSUME Exchange, NEW n \in 0..BufferBound, NEW starts, NEW maps, NEW allocated \in BOOLEAN,
         Constructed(n, starts, maps, allocated),
         DOMAIN starts = {} \/ DOMAIN starts = 0..(n - 1),
         \A i \in DOMAIN starts : starts[i] \in {"mapped", "failed", "null"},
         maps = {i \in DOMAIN starts : starts[i] = "mapped"},
         \A i \in maps, j \in DOMAIN starts : j < i => j \in maps
  PROVE  Exchange'
<1>0. TypeOK /\ Phases /\ Untouched  BY DEF Exchange
<1>1. /\ mainPc = "construct" /\ granted' = n /\ buffers_' = starts /\ mappings' = maps
      /\ cameraBuffer_' = allocated /\ mainPc' = "serve" /\ pc' = "start"
      /\ UNCHANGED <<queued, done, streaming, content, index, copy, taken, lost, stopToken>>
  BY DEF Constructed, frames
<1>2. ~streaming /\ queued = {} /\ done = {} /\ lost = {}  BY <1>0, <1>1 DEF Phases
<1>3. n \in Nat /\ n <= BufferBound /\ BufferBound \in Nat  BY CameraConstants
<1>4. DOMAIN starts \subseteq 0..(n - 1) /\ 0..(n - 1) \subseteq Indices
  BY <1>3 DEF Indices
<1>5. TypeOK'  BY <1>0, <1>1, <1>2, <1>4 DEF TypeOK
<1>6. Layout'  BY <1>1 DEF Layout
<1>7. Phases'  BY <1>1, <1>2 DEF Phases
<1>8. OnePlaceEach'  BY <1>1, <1>2 DEF OnePlaceEach
<1>9. Untouched'  BY <1>1 DEF Untouched
<1>10. Mappings'  BY <1>1 DEF Mappings, MappedFirst, Mapped
<1> QED  BY <1>5, <1>6, <1>7, <1>8, <1>9, <1>10 DEF Exchange

LEMMA ExchangeConstruct == Exchange /\ Construct => Exchange'
<1> SUFFICES ASSUME Exchange, Construct PROVE Exchange'  OBVIOUS
<1>0. BufferBound \in Nat \ {0}  BY CameraConstants
<1>1. CASE OpenFails
  <2>1. /\ mainPc = "construct" /\ mainPc' = "exited"
        /\ UNCHANGED <<granted, queued, done, streaming, content, buffers_, mappings,
                       cameraBuffer_, index, copy, taken, lost, pc, stopToken>>
    BY <1>1 DEF OpenFails, driver, memory, frames
  <2>2. TypeOK'  BY <2>1 DEF Exchange, TypeOK
  <2>3. Layout' /\ Phases' /\ Untouched' /\ Mappings'
    BY <2>1 DEF Exchange, Layout, Phases, Untouched, Mappings
  <2>4. OnePlaceEach'  BY <2>1 DEF Exchange, OnePlaceEach, Apart, InHand
  <2> QED  BY <2>2, <2>3, <2>4 DEF Exchange
<1>2. DOMAIN [i \in {} |-> "null"] = {}  OBVIOUS
<1>3. CASE SetupFails
  <2>1. 0 \in 0..BufferBound  BY <1>0
  <2> QED  BY <1>2, <1>3, <2>1, ConstructedKeeps DEF SetupFails
<1>4. CASE TooFewBuffers
  <2>1. PICK n \in {0, 1} : Constructed(n, [i \in {} |-> "null"], {}, TRUE)
    BY <1>4 DEF TooFewBuffers
  <2>2. n \in 0..BufferBound  BY <1>0
  <2> QED  BY <1>2, <2>1, <2>2, ConstructedKeeps
<1>5. CASE MapBuffers
  <2>1. PICK n \in 2..BufferBound : \E k \in 0..n, how \in {"null", "failed"} :
          Constructed(n, [i \in 0..(n - 1) |-> CASE i < k -> "mapped"
                                                [] i = k -> how
                                                [] OTHER -> "null"],
                      0..(k - 1), TRUE)
    BY <1>5 DEF MapBuffers
  <2>0. PICK k \in 0..n, how \in {"null", "failed"} :
          Constructed(n, [i \in 0..(n - 1) |-> CASE i < k -> "mapped"
                                                [] i = k -> how
                                                [] OTHER -> "null"],
                      0..(k - 1), TRUE)
    BY <2>1
  <2> DEFINE starts == [i \in 0..(n - 1) |-> CASE i < k -> "mapped"
                                               [] i = k -> how
                                               [] OTHER -> "null"]
  <2>2. n \in 0..BufferBound /\ n \in Nat /\ k \in Nat /\ k <= n  BY <1>0
  <2>3. DOMAIN starts = 0..(n - 1)  OBVIOUS
  <2>4. \A i \in 0..(n - 1) : starts[i] = IF i < k THEN "mapped"
                                          ELSE IF i = k THEN how ELSE "null"
    BY <2>2
  <2>5. Constructed(n, starts, 0..(k - 1), TRUE)  BY <2>0
  <2> HIDE DEF starts
  <2>6. \A i \in DOMAIN starts : starts[i] \in {"mapped", "failed", "null"}
    BY <2>3, <2>4
  <2>7. 0..(k - 1) = {i \in DOMAIN starts : starts[i] = "mapped"}
    BY <2>2, <2>3, <2>4
  <2>8. \A i \in 0..(k - 1), j \in DOMAIN starts : j < i => j \in 0..(k - 1)
    BY <2>2, <2>3
  <2> QED  BY <2>2, <2>3, <2>5, <2>6, <2>7, <2>8, ConstructedKeeps
<1> QED  BY <1>1, <1>3, <1>4, <1>5 DEF Construct

\* A step that leaves the driver and the memory alone.
LEMMA ThreadKeeps ==
  ASSUME Exchange, TypeOK', Phases', Untouched', OnePlaceEach',
         UNCHANGED <<granted, buffers_, mappings, cameraBuffer_>>,
         mainPc' = mainPc \/ (mainPc = "serve" /\ mainPc' = "wait")
  PROVE  Exchange'
<1>1. Layout'  BY DEF Exchange, Layout
<1>2. Mappings'  BY DEF Exchange, Mappings, MappedFirst, Mapped
<1> QED  BY <1>1, <1>2 DEF Exchange

LEMMA ExchangeStart == Exchange /\ StartCapture => Exchange'
<1> SUFFICES ASSUME Exchange, StartCapture PROVE Exchange'  OBVIOUS
<1>0. TypeOK /\ Layout /\ Phases /\ OnePlaceEach /\ Untouched  BY DEF Exchange
<1> DEFINE size == Cardinality(DOMAIN buffers_)
<1>1. size \in Nat /\ DOMAIN buffers_ = 0..(size - 1) /\ size <= granted /\ granted \in Nat
  BY <1>0, BuffersCounted, CameraConstants DEF TypeOK
<1>2. PICK k \in 0..size :
        /\ queued' = 0..(k - 1)
        /\ \/ UNCHANGED streaming
           \/ k = size /\ streaming' = TRUE
  BY DEF StartCapture
<1>3. /\ pc = "start" /\ pc' = "loop"
      /\ UNCHANGED <<granted, done, content, buffers_, mappings, cameraBuffer_, index, copy,
                     taken, lost, mainPc, stopToken>>
  BY DEF StartCapture, memory, frames
<1>4. ~streaming /\ done = {} /\ lost = {}  BY <1>0, <1>3 DEF Phases
<1>5. TypeOK'
  <2>1. queued' \subseteq 0..(granted - 1)  BY <1>1, <1>2
  <2>2. streaming' \in BOOLEAN  BY <1>0, <1>2 DEF TypeOK
  <2> QED  BY <1>0, <1>3, <2>1, <2>2 DEF TypeOK
<1>6. Phases'  BY <1>0, <1>3 DEF Phases
<1>7. OnePlaceEach'  BY <1>1, <1>2, <1>3, <1>4 DEF OnePlaceEach, Apart, InHand
<1>8. Untouched'  BY <1>3 DEF Untouched
<1> QED  BY <1>3, <1>5, <1>6, <1>7, <1>8, ThreadKeeps

LEMMA ExchangeDequeue == Exchange /\ (\E i \in Indices : Dequeue(i)) => Exchange'
<1> SUFFICES ASSUME Exchange, NEW i \in Indices, Dequeue(i) PROVE Exchange'  OBVIOUS
<1>0. TypeOK /\ Phases /\ OnePlaceEach /\ Untouched  BY DEF Exchange
<1>1. /\ pc = "dequeue" /\ streaming /\ i \in done /\ done' = done \ {i}
      /\ index' = i /\ taken' = content[i] /\ pc' = "copy"
      /\ UNCHANGED <<granted, queued, streaming, content, buffers_, mappings, cameraBuffer_,
                     copy, lost, mainPc, stopToken>>
  BY DEF Dequeue, memory
<1>2. TypeOK'
  <2>1. content[i] \in {0, 1}  BY <1>0 DEF TypeOK
  <2> QED  BY <1>0, <1>1, <2>1 DEF TypeOK
<1>3. Phases'  BY <1>0, <1>1 DEF Phases
<1>4. OnePlaceEach'  BY <1>0, <1>1 DEF OnePlaceEach, Apart, InHand
<1>5. Untouched'  BY <1>1 DEF Untouched
<1> QED  BY <1>1, <1>2, <1>3, <1>4, <1>5, ThreadKeeps

LEMMA ExchangeCopy == Exchange /\ Copy => Exchange'
<1> SUFFICES ASSUME Exchange, Copy PROVE Exchange'  OBVIOUS
<1>0. TypeOK /\ Phases /\ OnePlaceEach /\ Untouched  BY DEF Exchange
<1>1. /\ pc = "copy"
      /\ \/ copy' = content[index] /\ pc' = "requeue"
         \/ pc' = "crashed" /\ copy' = copy
      /\ UNCHANGED <<granted, queued, done, streaming, content, buffers_, mappings,
                     cameraBuffer_, index, taken, lost, mainPc, stopToken>>
  BY DEF Copy, driver, memory
<1>2. TypeOK'
  <2>1. content[index] \in {0, 1}  BY <1>0 DEF TypeOK
  <2> QED  BY <1>0, <1>1, <2>1 DEF TypeOK
<1>3. Phases'  BY <1>0, <1>1 DEF Phases
<1>4. InHand' = InHand  BY <1>1 DEF InHand
<1>5. OnePlaceEach'  BY <1>0, <1>1, <1>4 DEF OnePlaceEach, Apart
<1>6. Untouched'  BY <1>0, <1>1 DEF Untouched
<1> QED  BY <1>1, <1>2, <1>3, <1>5, <1>6, ThreadKeeps

LEMMA ExchangeRequeue == Exchange /\ (Requeue \/ RequeueFails) => Exchange'
<1> SUFFICES ASSUME Exchange, Requeue \/ RequeueFails PROVE Exchange'  OBVIOUS
<1>0. TypeOK /\ Phases /\ OnePlaceEach /\ Untouched  BY DEF Exchange
<1>1. CASE Requeue
  <2>1. /\ pc = "requeue" /\ queued' = queued \union {index} /\ pc' = "encode"
        /\ UNCHANGED <<granted, done, streaming, content, buffers_, mappings, cameraBuffer_,
                       index, copy, taken, lost, mainPc, stopToken>>
    BY <1>1 DEF Requeue, memory, frames
  <2>2. streaming /\ InHand = {index}  BY <1>0, <2>1 DEF Phases, InHand
  <2>3. index \in 0..(granted - 1)  BY <1>0, <2>2 DEF OnePlaceEach, TypeOK
  <2>4. TypeOK'  BY <1>0, <2>1, <2>3 DEF TypeOK
  <2>5. Phases'  BY <1>0, <2>1 DEF Phases
  <2>6. OnePlaceEach'  BY <1>0, <2>1, <2>2 DEF OnePlaceEach, Apart, InHand
  <2>7. Untouched'  BY <1>0, <2>1 DEF Untouched
  <2> QED  BY <2>1, <2>4, <2>5, <2>6, <2>7, ThreadKeeps
<1>2. CASE RequeueFails
  <2>1. /\ pc = "requeue" /\ lost' = lost \union {index} /\ copy' = 0 /\ pc' = "loop"
        /\ UNCHANGED <<granted, queued, done, streaming, content, buffers_, mappings,
                       cameraBuffer_, index, taken, mainPc, stopToken>>
    BY <1>2 DEF RequeueFails, driver, memory
  <2>2. InHand = {index} /\ InHand' = {}  BY <2>1 DEF InHand
  <2>3. TypeOK'  BY <1>0, <2>1 DEF TypeOK
  <2>4. Phases'  BY <1>0, <2>1 DEF Phases
  <2>5. OnePlaceEach'  BY <1>0, <2>1, <2>2 DEF OnePlaceEach, Apart
  <2>6. Untouched'  BY <2>1 DEF Untouched
  <2> QED  BY <2>1, <2>3, <2>4, <2>5, <2>6, ThreadKeeps
<1> QED  BY <1>1, <1>2

\* The steps between two buffers only move the thread on.
LEMMA ExchangeLoop == Exchange /\ (LoopTest \/ DequeueFails \/ DequeueError \/ Encode) => Exchange'
<1> SUFFICES ASSUME Exchange, LoopTest \/ DequeueFails \/ DequeueError \/ Encode PROVE Exchange'  OBVIOUS
<1>0. TypeOK /\ Phases /\ OnePlaceEach /\ Untouched  BY DEF Exchange
<1>1. /\ pc \in {"loop", "dequeue", "encode"} /\ pc' \in {"loop", "dequeue", "stop"}
      /\ UNCHANGED <<granted, queued, done, streaming, content, buffers_, mappings,
                     cameraBuffer_, index, copy, taken, lost, mainPc, stopToken>>
  BY DEF LoopTest, DequeueFails, DequeueError, Encode, driver, memory, frames
<1>2. TypeOK'  BY <1>0, <1>1 DEF TypeOK
<1>3. Phases'  BY <1>0, <1>1 DEF Phases
<1>4. InHand = {} /\ InHand' = {}  BY <1>1 DEF InHand
<1>5. OnePlaceEach'  BY <1>0, <1>1, <1>4 DEF OnePlaceEach, Apart
<1>6. Untouched'  BY <1>1 DEF Untouched
<1> QED  BY <1>1, <1>2, <1>3, <1>5, <1>6, ThreadKeeps

LEMMA ExchangeStop == Exchange /\ StopCapture => Exchange'
<1> SUFFICES ASSUME Exchange, StopCapture PROVE Exchange'  OBVIOUS
<1>0. TypeOK /\ Phases /\ OnePlaceEach /\ Untouched  BY DEF Exchange
<1>1. /\ pc = "stop" /\ pc' = "finished"
      /\ \/ streaming' = FALSE /\ queued' = {} /\ done' = {}
         \/ UNCHANGED <<streaming, queued, done>>
      /\ UNCHANGED <<granted, content, buffers_, mappings, cameraBuffer_, index, copy, taken,
                     lost, mainPc, stopToken>>
  BY DEF StopCapture, memory, frames
<1>2. TypeOK'  BY <1>0, <1>1 DEF TypeOK
<1>3. Phases'  BY <1>0, <1>1 DEF Phases
<1>4. InHand = {} /\ InHand' = {}  BY <1>1 DEF InHand
<1>5. OnePlaceEach'  BY <1>0, <1>1, <1>4 DEF OnePlaceEach, Apart
<1>6. Untouched'  BY <1>1 DEF Untouched
<1> QED  BY <1>1, <1>2, <1>3, <1>5, <1>6, ThreadKeeps

\* The driver fills what it has, which is never the buffer in hand.
LEMMA ExchangeFill == Exchange /\ (\E i \in Indices : Fill(i)) => Exchange'
<1> SUFFICES ASSUME Exchange, NEW i \in Indices, Fill(i) PROVE Exchange'  OBVIOUS
<1>0. TypeOK /\ Phases /\ OnePlaceEach /\ Untouched  BY DEF Exchange
<1>1. /\ streaming /\ i \in queued /\ queued' = queued \ {i} /\ done' = done \union {i}
      /\ content' = [content EXCEPT ![i] = 1 - @]
      /\ UNCHANGED <<granted, streaming, buffers_, mappings, cameraBuffer_, index, copy,
                     taken, lost, pc, mainPc, stopToken>>
  BY DEF Fill, memory, frames, control
<1>2. TypeOK'
  <2>1. content' \in [Indices -> {0, 1}]
    <3>1. content \in [Indices -> {0, 1}]  BY <1>0 DEF TypeOK
    <3>2. 1 - content[i] \in {0, 1}  BY <3>1
    <3> QED  BY <1>1, <3>1, <3>2
  <2> QED  BY <1>0, <1>1, <2>1 DEF TypeOK
<1>3. Phases'
  <2>1. pc \notin {"none", "start"}  BY <1>0, <1>1 DEF Phases
  <2> QED  BY <1>0, <1>1, <2>1 DEF Phases
<1>4. InHand' = InHand  BY <1>1 DEF InHand
<1>5. OnePlaceEach'  BY <1>0, <1>1, <1>4 DEF OnePlaceEach, Apart
<1>6. Untouched'
  <2>1. SUFFICES ASSUME pc = "copy" PROVE content'[index] = content[index]
    BY <1>0, <1>1 DEF Untouched
  <2>2. i # index  BY <1>0, <1>1, <2>1 DEF OnePlaceEach, Apart, InHand
  <2> QED  BY <1>0, <1>1, <2>2 DEF TypeOK
<1> QED  BY <1>1, <1>2, <1>3, <1>5, <1>6, ThreadKeeps

LEMMA ExchangeRequest == Exchange /\ RequestStop => Exchange'
<1> SUFFICES ASSUME Exchange, RequestStop PROVE Exchange'  OBVIOUS
<1>0. TypeOK /\ Phases /\ OnePlaceEach /\ Untouched  BY DEF Exchange
<1>1. /\ mainPc = "serve" /\ stopToken' = TRUE /\ mainPc' = "wait"
      /\ UNCHANGED <<granted, queued, done, streaming, content, buffers_, mappings,
                     cameraBuffer_, index, copy, taken, lost, pc>>
  BY DEF RequestStop, driver, memory, frames
<1>2. TypeOK' /\ Phases'  BY <1>0, <1>1 DEF TypeOK, Phases
<1>3. OnePlaceEach' /\ Untouched'  BY <1>0, <1>1 DEF OnePlaceEach, Apart, InHand, Untouched
<1> QED  BY <1>1, <1>2, <1>3, ThreadKeeps

\* munmap up to the first that fails takes away every mapping there is.
LEMMA ExchangeDestroy == Exchange /\ Destroy => Exchange'
<1> SUFFICES ASSUME Exchange, Destroy PROVE Exchange'  OBVIOUS
<1>0. TypeOK /\ Layout /\ Phases /\ Mappings  BY DEF Exchange
<1> DEFINE bad    == {i \in DOMAIN buffers_ : buffers_[i] # "mapped"}
           before == {i \in DOMAIN buffers_ : \A j \in bad : i < j}
<1>1. /\ mainPc = "wait" /\ pc = "finished"
      /\ mappings' = mappings \ before
      /\ \/ buffers_' = [i \in {} |-> "null"] /\ cameraBuffer_' = FALSE
         \/ UNCHANGED <<buffers_, cameraBuffer_>>
      /\ streaming' = FALSE /\ queued' = {} /\ done' = {}
      /\ mainPc' \in {"destroyed", "exited"}
      /\ UNCHANGED <<granted, content, index, copy, taken, lost, pc, stopToken>>
  BY DEF Destroy, frames
<1>2. mappings' = {}
  <2>1. mappings = Mapped /\ MappedFirst  BY <1>0, <1>1 DEF Mappings
  <2>2. SUFFICES ASSUME NEW i \in Mapped, NEW j \in bad PROVE i < j
    BY <1>1, <2>1 DEF Mapped
  <2>3. i \in Nat /\ j \in Nat
    <3>1. DOMAIN buffers_ \subseteq Nat  BY <1>0 DEF Layout
    <3> QED  BY <3>1 DEF Mapped
  <2>4. ~(j < i) /\ i # j  BY <2>1 DEF MappedFirst, Mapped
  <2> QED  BY <2>3, <2>4
<1> HIDE DEF bad, before
<1>3. DOMAIN buffers_' = {} \/ buffers_' = buffers_  BY <1>1
<1>4. TypeOK'  BY <1>0, <1>1, <1>2, <1>3 DEF TypeOK
<1>5. Layout'  BY <1>0, <1>1, <1>3 DEF Layout
<1>6. Phases' /\ OnePlaceEach' /\ Untouched'
  BY <1>1 DEF Phases, OnePlaceEach, Untouched
<1>7. Mappings'  BY <1>1, <1>2 DEF Mappings
<1> QED  BY <1>4, <1>5, <1>6, <1>7 DEF Exchange

LEMMA ExchangeNext == Exchange /\ [Next]_vars => Exchange'
<1> SUFFICES ASSUME Exchange, [Next]_vars PROVE Exchange'  OBVIOUS
<1>1. CASE Construct  BY <1>1, ExchangeConstruct
<1>2. CASE Capturer
  BY <1>2, ExchangeStart, ExchangeLoop, ExchangeDequeue, ExchangeCopy, ExchangeRequeue,
     ExchangeStop DEF Capturer
<1>3. CASE DequeueError  BY <1>3, ExchangeLoop
<1>4. CASE \E i \in Indices : Fill(i)  BY <1>4, ExchangeFill
<1>5. CASE RequestStop  BY <1>5, ExchangeRequest
<1>6. CASE Destroy  BY <1>6, ExchangeDestroy
<1>7. CASE Ended \/ UNCHANGED vars
  <2>1. UNCHANGED vars  BY <1>7 DEF Ended
  <2>2. UNCHANGED <<granted, queued, done, streaming, content, buffers_, mappings,
                    cameraBuffer_, index, copy, taken, lost, pc, mainPc, stopToken>>
    BY <2>1 DEF vars, driver, memory, frames, control
  <2>3. TypeOK' /\ Phases'  BY <2>2 DEF Exchange, TypeOK, Phases
  <2>4. OnePlaceEach' /\ Untouched'
    BY <2>2 DEF Exchange, OnePlaceEach, Apart, InHand, Untouched
  <2> QED  BY <2>2, <2>3, <2>4, ThreadKeeps
<1> QED  BY <1>1, <1>2, <1>3, <1>4, <1>5, <1>6, <1>7 DEF Next

(***************************************************************************)
(* The camera: the theorems.                                               *)
(***************************************************************************)

LEMMA ExchangeAlways == Spec => []Exchange
BY ExchangeInit, ExchangeNext, PTL DEF Spec

\* Four sets that have nothing in common and their union count the same.
LEMMA BuffersAddUp == Exchange => BufferAccounting
<1> SUFFICES ASSUME Exchange, streaming
             PROVE  /\ DOMAIN buffers_ = queued \union done \union InHand \union lost
                    /\ Cardinality(queued) + Cardinality(done) + Cardinality(InHand)
                         + Cardinality(lost) = Cardinality(DOMAIN buffers_)
  BY DEF BufferAccounting, InHand
<1>1. DOMAIN buffers_ = queued \union done \union InHand \union lost /\ Apart
  BY DEF Exchange, OnePlaceEach
<1>2. IsFiniteSet(DOMAIN buffers_)
  <2>1. Cardinality(DOMAIN buffers_) \in Nat
        /\ DOMAIN buffers_ = 0..(Cardinality(DOMAIN buffers_) - 1)
    BY BuffersCounted DEF Exchange
  <2>2. IsFiniteSet(0..(Cardinality(DOMAIN buffers_) - 1))  BY <2>1, UpTo
  <2> QED  BY <2>1, <2>2
<1>3. /\ IsFiniteSet(queued) /\ IsFiniteSet(done) /\ IsFiniteSet(InHand)
      /\ IsFiniteSet(lost)
  BY <1>1, <1>2, FS_Subset
<1>4. /\ IsFiniteSet(queued \union done)
      /\ Cardinality(queued \union done) = Cardinality(queued) + Cardinality(done)
      /\ Cardinality(queued) \in Nat /\ Cardinality(done) \in Nat
  BY <1>1, <1>3, Together DEF Apart
<1>5. /\ IsFiniteSet(queued \union done \union InHand)
      /\ Cardinality(queued \union done \union InHand)
           = Cardinality(queued \union done) + Cardinality(InHand)
      /\ Cardinality(InHand) \in Nat
  <2>1. (queued \union done) \intersect InHand = {}  BY <1>1 DEF Apart
  <2> QED  BY <1>3, <1>4, <2>1, Together
<1>6. Cardinality(DOMAIN buffers_)
        = Cardinality(queued \union done \union InHand) + Cardinality(lost)
  <2>1. (queued \union done \union InHand) \intersect lost = {}  BY <1>1 DEF Apart
  <2>2. Cardinality((queued \union done \union InHand) \union lost)
          = Cardinality(queued \union done \union InHand) + Cardinality(lost)
    BY <1>3, <1>5, <2>1, Together
  <2> QED  BY <1>1, <2>2
<1> QED  BY <1>1, <1>4, <1>5, <1>6

\* Whatever ioctl fails, a streaming camera's buffers are with the driver, in
\* hand, or lost to a VIDIOC_QBUF, each in one place, and the destructor unmaps
\* what initMmap() had mapped (camera.cpp:67-86, 193-219).
THEOREM BuffersAccounted == Spec => []CameraInv
<1>1. Exchange => CameraInv
  BY BuffersAddUp DEF Exchange, CameraInv, Mappings, AllUnmapped
<1> QED  BY <1>1, ExchangeAlways, PTL

\* The driver does not write to a buffer between VIDIOC_DQBUF and the end of
\* the copy: the frame encoded is the frame filled (camera.cpp:67-86).
THEOREM FramesIntact == Spec => []FrameIntact
<1>1. Exchange => FrameIntact  BY DEF Exchange, Untouched, FrameIntact
<1> QED  BY <1>1, ExchangeAlways, PTL

(***************************************************************************)
(* The microphone: the inductive invariant.                                *)
(***************************************************************************)

\* The samples the encoder has been given, and of these the ones it has in its
\* frames and inside.
Given == IF micPc = "encode" THEN read - numInSamples ELSE read

InFrames == FRAME * handled + inside

NothingMadeUp == InFrames <= Given

\* Samples of a short read that are still on their way to the encoder.
ShortRead == IF micPc = "encode" /\ numInSamples # frames_ THEN numInSamples ELSE 0

\* When a read fills a frame, what the encoder keeps is in its way: it is what
\* will be lost, and like what is lost it has come with an irregular read.
InTheWay == frames_ = FRAME => Given - InFrames + inside + ShortRead <= irregular

\* As long as every read is regular and the period divides the frame, the
\* encoder keeps whole periods, and another one always has room.
WholePeriods ==
    FRAME % frames_ = 0 /\ irregular = 0 =>
      /\ Given = InFrames
      /\ inside % frames_ = 0
      /\ micPc = "encode" => numInSamples = frames_

SampleAccounts == MicTypeOK /\ NothingMadeUp /\ InTheWay /\ WholePeriods

(***************************************************************************)
(* The microphone: arithmetic.                                             *)
(***************************************************************************)

\* A multiple of d has d as a factor, and a product of d is a multiple of it.
LEMMA Multiples ==
  ASSUME NEW d \in Nat \ {0}, NEW x \in Nat
  PROVE  x % d = 0 <=> \E q \in Nat : x = d * q
<1>1. ASSUME x % d = 0 PROVE \E q \in Nat : x = d * q
  <2>1. x \div d \in Int /\ x = d * (x \div d) + (x % d)  OBVIOUS
  <2>2. x \div d >= 0
    <3>1. SUFFICES ASSUME x \div d <= 0 - 1 PROVE FALSE  BY <2>1
    <3>2. d * (x \div d) <= d * (0 - 1)  BY <2>1, <3>1
    <3> QED  BY <1>1, <2>1, <3>2
  <2> QED  BY <1>1, <2>1, <2>2
<1>2. ASSUME NEW q \in Nat, x = d * q PROVE x % d = 0
  BY <1>2
<1> QED  BY <1>1, <1>2

\* Of two different multiples of d the greater has room for another d.
LEMMA RoomForOneMore ==
  ASSUME NEW d \in Nat \ {0}, NEW x \in Nat, NEW y \in Nat,
         x % d = 0, y % d = 0, x < y
  PROVE  x + d <= y /\ (x + d) % d = 0
<1>1. PICK p \in Nat : x = d * p  BY Multiples
<1>2. PICK q \in Nat : y = d * q  BY Multiples
<1>3. p < q
  <2>1. SUFFICES ASSUME q <= p PROVE FALSE  OBVIOUS
  <2>2. d * q <= d * p  BY <2>1
  <2> QED  BY <1>1, <1>2, <2>2
<1>4. d * (p + 1) <= d * q
  <2>1. PICK k \in Nat : q = p + 1 + k  BY <1>3
  <2>2. d * q = d * (p + 1) + d * k  BY <2>1
  <2>3. d * k \in Nat  OBVIOUS
  <2> QED  BY <2>2, <2>3
<1>5. x + d = d * (p + 1)  BY <1>1
<1>6. x + d <= y  BY <1>2, <1>4, <1>5
<1>7. (x + d) % d = 0
  <2>1. p + 1 \in Nat /\ x + d \in Nat  OBVIOUS
  <2> QED  BY <1>5, <2>1, Multiples
<1> QED  BY <1>6, <1>7

\* What the encoder takes is no more than it is given, and what it keeps of it
\* with what it had is a whole frame or less than one.
LEMMA EncoderTakes ==
  ASSUME FRAME \in Nat \ {0}, inside \in 0..(FRAME - 1), NEW n \in Nat
  PROVE  /\ Taken(n) \in 0..n
         /\ inside + Taken(n) <= FRAME
         /\ Kept(n) \in 0..(FRAME - 1)
         /\ Kept(n) = IF inside + Taken(n) = FRAME THEN 0 ELSE inside + Taken(n)
<1>1. Taken(n) \in 0..n /\ inside + Taken(n) <= FRAME  BY DEF Taken
<1>2. CASE inside + Taken(n) = FRAME
  <2>1. FRAME % FRAME = 0  BY Multiples
  <2> QED  BY <1>1, <1>2, <2>1 DEF Kept
<1>3. CASE inside + Taken(n) < FRAME
  <2>1. (inside + Taken(n)) % FRAME = inside + Taken(n)  BY <1>1, <1>3
  <2> QED  BY <1>1, <1>3, <2>1 DEF Kept
<1> QED  BY <1>1, <1>2, <1>3

(***************************************************************************)
(* The microphone: the steps.                                              *)
(***************************************************************************)

\* The types that the arithmetic needs: a span is a whole number of samples.
LEMMA SampleTypes ==
  ASSUME MicTypeOK
  PROVE  /\ FRAME \in Nat \ {0} /\ frames_ \in Nat \ {0} /\ inside \in 0..(FRAME - 1)
         /\ numInSamples \in 0..frames_
         /\ irregular \in Nat /\ handled \in Nat /\ read \in Nat /\ FRAME * handled \in Nat
<1>1. PICK n \in 0..frames_ : data = 2 * n  BY DEF MicTypeOK, frameBytes_
<1>2. frames_ \in Nat  BY MicrophoneConstants DEF MicTypeOK
<1>3. n \in Nat  BY <1>2
<1>4. numInSamples = n  BY <1>1, <1>3 DEF numInSamples
<1> QED  BY <1>4, MicrophoneConstants DEF MicTypeOK

\* The encoder is told of as many samples as were read.
LEMMA SpanCounts ==
  ASSUME NEW n \in Nat, data' = Bytes(n)
  PROVE  numInSamples' = n
BY DEF Bytes, frameBytes_, numInSamples

LEMMA AccountsInit == MicInit => SampleAccounts
<1> SUFFICES ASSUME MicInit PROVE SampleAccounts  OBVIOUS
<1>1. frames_ \in Nat \ {0}  BY MicrophoneConstants DEF MicInit
<1>2. MicTypeOK
  <2>1. 0 \in 0..frames_ /\ 0 \in 0..(FRAME - 1) /\ 0 \in Nat
    BY <1>1, MicrophoneConstants
  <2>2. frames_ \in Periods  BY DEF MicInit
  <2>3. data = frameBytes_ * 0  BY DEF MicInit, frameBytes_
  <2> QED  BY <2>1, <2>2, <2>3 DEF MicInit, MicTypeOK
<1>3. FRAME * 0 = 0  BY MicrophoneConstants
<1>4. Given = 0 /\ InFrames = 0  BY <1>3 DEF MicInit, Given, InFrames
<1>5. NothingMadeUp  BY <1>4 DEF NothingMadeUp
<1>6. InTheWay  BY <1>4 DEF MicInit, InTheWay, ShortRead
<1>7. 0 % frames_ = 0  BY <1>1
<1>8. WholePeriods  BY <1>4, <1>7 DEF MicInit, WholePeriods
<1> QED  BY <1>2, <1>5, <1>6, <1>8 DEF SampleAccounts

\* The encoder is given a read.
LEMMA AccountsEncode == SampleAccounts /\ EncodeSamples => SampleAccounts'
<1> SUFFICES ASSUME SampleAccounts, EncodeSamples PROVE SampleAccounts'  OBVIOUS
<1>0. MicTypeOK /\ NothingMadeUp /\ InTheWay /\ WholePeriods  BY DEF SampleAccounts
<1> DEFINE n == numInSamples
           took == Taken(n)
<1>1. /\ FRAME \in Nat \ {0} /\ frames_ \in Nat \ {0} /\ inside \in 0..(FRAME - 1)
      /\ n \in 0..frames_
      /\ irregular \in Nat /\ handled \in Nat /\ read \in Nat /\ FRAME * handled \in Nat
  BY <1>0, SampleTypes
<1>2. /\ took \in 0..n /\ inside + took <= FRAME
      /\ Kept(n) \in 0..(FRAME - 1)
      /\ Kept(n) = IF inside + took = FRAME THEN 0 ELSE inside + took
  BY <1>1, EncoderTakes
<1>3. took = IF inside + n <= FRAME THEN n ELSE FRAME - inside
  BY DEF Taken
<1>4. /\ micPc = "encode" /\ micPc' = "loop"
      /\ inside' = Kept(n)
      /\ handled' = IF inside + took = FRAME THEN handled + 1 ELSE handled
      /\ UNCHANGED <<stop, device, frames_, data, read, irregular>>
  BY DEF EncodeSamples, Goto
<1>5. Given = read - n /\ Given' = read  BY <1>4 DEF Given
<1>6. ShortRead = (IF n # frames_ THEN n ELSE 0) /\ ShortRead' = 0
  BY <1>4 DEF ShortRead
<1> HIDE DEF took, n
<1>7. MicTypeOK'
  <2>1. handled' \in Nat /\ inside' \in 0..(FRAME - 1)  BY <1>1, <1>2, <1>4
  <2> QED  BY <1>0, <1>4, <2>1 DEF MicTypeOK
<1>8. InFrames \in Nat /\ InFrames' = InFrames + took
  <2>1. InFrames = FRAME * handled + inside /\ InFrames' = FRAME * handled' + inside'
    BY DEF InFrames
  <2>2. CASE inside + took = FRAME
    <3>1. FRAME * (handled + 1) = FRAME * handled + FRAME  BY <1>1
    <3> QED  BY <1>1, <1>2, <1>4, <2>1, <2>2, <3>1
  <2>3. CASE inside + took # FRAME
    BY <1>1, <1>2, <1>4, <2>1, <2>3
  <2> QED  BY <2>2, <2>3
<1>9. NothingMadeUp'
  <2>1. InFrames <= read - n  BY <1>0, <1>5 DEF NothingMadeUp
  <2>2. InFrames + took <= read  BY <1>1, <1>2, <1>8, <2>1
  <2> QED  BY <1>5, <1>8, <2>2 DEF NothingMadeUp
<1>10. InTheWay'
  <2>1. SUFFICES ASSUME frames_ = FRAME
                 PROVE  read - (InFrames + took) + inside' + 0 <= irregular
    BY <1>4, <1>5, <1>6, <1>8 DEF InTheWay
  <2>2. read - n - InFrames + inside + (IF n # frames_ THEN n ELSE 0) <= irregular
    BY <1>0, <1>5, <1>6, <2>1 DEF InTheWay
  <2> QED  BY <1>1, <1>2, <1>3, <1>4, <1>8, <2>1, <2>2
<1>11. WholePeriods'
  <2>1. SUFFICES ASSUME FRAME % frames_ = 0, irregular = 0
                 PROVE  read = InFrames + took /\ inside' % frames_ = 0
    BY <1>4, <1>5, <1>8 DEF WholePeriods
  <2>2. read - n = InFrames /\ inside % frames_ = 0 /\ n = frames_
    BY <1>0, <1>4, <1>5, <2>1 DEF WholePeriods, n
  <2>3. inside + frames_ <= FRAME /\ (inside + frames_) % frames_ = 0
    <3>1. inside \in Nat /\ FRAME \in Nat /\ inside < FRAME  BY <1>1
    <3> QED  BY <1>1, <2>1, <2>2, <3>1, RoomForOneMore
  <2>4. 0 % frames_ = 0  BY <1>1
  <2>5. took = frames_  BY <1>3, <2>2, <2>3
  <2>6. read = InFrames + took  BY <1>1, <1>8, <2>2, <2>5
  <2>7. inside' = 0 \/ inside' = inside + frames_  BY <1>2, <1>4, <2>5
  <2> QED  BY <2>3, <2>4, <2>6, <2>7
<1> QED  BY <1>7, <1>9, <1>10, <1>11 DEF SampleAccounts

\* A read.
LEMMA AccountsRead == SampleAccounts /\ Reading => SampleAccounts'
<1> SUFFICES ASSUME SampleAccounts, NEW n \in 1..frames_, ReadSamples(n)
             PROVE  SampleAccounts'
  BY DEF Reading
<1>0. MicTypeOK /\ NothingMadeUp /\ InTheWay /\ WholePeriods  BY DEF SampleAccounts
<1>1. /\ FRAME \in Nat \ {0} /\ frames_ \in Nat \ {0} /\ inside \in 0..(FRAME - 1)
      /\ irregular \in Nat /\ handled \in Nat /\ read \in Nat /\ FRAME * handled \in Nat
  BY <1>0, SampleTypes
<1>2. /\ micPc = "read" /\ micPc' = "encode" /\ data' = Bytes(n) /\ read' = read + n
      /\ irregular' = IF n = frames_ THEN irregular ELSE irregular + n
      /\ UNCHANGED <<stop, device, frames_, inside, handled>>
  BY DEF ReadSamples, Goto, encoderVars
<1>3. n \in Nat /\ n >= 1 /\ n \in 0..frames_  BY <1>1
<1>4. numInSamples' = n  BY <1>2, <1>3, SpanCounts
<1>5. Given = read /\ Given' = read  BY <1>1, <1>2, <1>3, <1>4 DEF Given
<1>6. ShortRead = 0 /\ ShortRead' = (IF n # frames_ THEN n ELSE 0)
  BY <1>2, <1>4 DEF ShortRead
<1>7. InFrames' = InFrames /\ InFrames \in Nat  BY <1>1, <1>2 DEF InFrames
<1>8. MicTypeOK'
  <2>1. read' \in Nat /\ irregular' \in Nat  BY <1>1, <1>2, <1>3
  <2>2. data' = frameBytes_ * n  BY <1>2 DEF Bytes
  <2>3. data' \in {frameBytes_ * k : k \in 0..frames_}'  BY <1>2, <1>3, <2>2 DEF frameBytes_
  <2> QED  BY <1>0, <1>2, <2>1, <2>3 DEF MicTypeOK
<1>9. NothingMadeUp'  BY <1>0, <1>5, <1>7 DEF NothingMadeUp
<1>10. InTheWay'
  BY <1>0, <1>1, <1>2, <1>3, <1>5, <1>6, <1>7 DEF InTheWay
<1>11. WholePeriods'
  BY <1>0, <1>1, <1>2, <1>3, <1>4, <1>5, <1>7 DEF WholePeriods
<1> QED  BY <1>8, <1>9, <1>10, <1>11 DEF SampleAccounts

\* An encoder that refuses a read.
LEMMA AccountsRefused == SampleAccounts /\ EncodeFails => SampleAccounts'
<1> SUFFICES ASSUME SampleAccounts, EncodeFails PROVE SampleAccounts'  OBVIOUS
<1>0. MicTypeOK /\ NothingMadeUp /\ InTheWay /\ WholePeriods  BY DEF SampleAccounts
<1>1. /\ FRAME \in Nat \ {0} /\ frames_ \in Nat \ {0} /\ inside \in 0..(FRAME - 1)
      /\ numInSamples \in 0..frames_
      /\ irregular \in Nat /\ handled \in Nat /\ read \in Nat /\ FRAME * handled \in Nat
  BY <1>0, SampleTypes
<1>2. /\ micPc = "encode" /\ micPc' = "loop"
      /\ irregular' = IF numInSamples = frames_ THEN irregular + numInSamples ELSE irregular
      /\ UNCHANGED <<stop, device, frames_, data, inside, handled, read>>
  BY DEF EncodeFails, Goto, encoderVars
<1>3. Given = read - numInSamples /\ Given' = read  BY <1>2 DEF Given
<1>4. ShortRead = (IF numInSamples # frames_ THEN numInSamples ELSE 0) /\ ShortRead' = 0
  BY <1>2 DEF ShortRead
<1>5. InFrames' = InFrames /\ InFrames \in Nat  BY <1>1, <1>2 DEF InFrames
<1>6. MicTypeOK'
  <2>1. irregular' \in Nat  BY <1>1, <1>2
  <2> QED  BY <1>0, <1>2, <2>1 DEF MicTypeOK
<1>7. NothingMadeUp'  BY <1>0, <1>1, <1>3, <1>5 DEF NothingMadeUp
<1>8. InTheWay'  BY <1>0, <1>1, <1>2, <1>3, <1>4, <1>5 DEF InTheWay
<1>9. WholePeriods'
  <2>1. SUFFICES ASSUME FRAME % frames_ = 0, irregular' = 0 PROVE FALSE
    BY <1>2 DEF WholePeriods
  <2> QED  BY <1>0, <1>1, <1>2, <2>1 DEF WholePeriods
<1> QED  BY <1>6, <1>7, <1>8, <1>9 DEF SampleAccounts

\* The steps that no sample takes part in do not enter or leave "encode".
LEMMA AccountsIdle ==
  ASSUME SampleAccounts, MicTypeOK',
         UNCHANGED <<frames_, data, encoderVars, read, irregular>>,
         micPc = micPc' \/ "encode" \notin {micPc, micPc'}
  PROVE  SampleAccounts'
<1>0. MicTypeOK /\ NothingMadeUp /\ InTheWay /\ WholePeriods  BY DEF SampleAccounts
<1>1. Given' = Given /\ InFrames' = InFrames /\ ShortRead' = ShortRead
  BY DEF Given, InFrames, ShortRead, numInSamples, encoderVars
<1>2. NothingMadeUp'  BY <1>0, <1>1 DEF NothingMadeUp
<1>3. InTheWay'  BY <1>0, <1>1 DEF InTheWay, encoderVars
<1>4. WholePeriods'  BY <1>0, <1>1 DEF WholePeriods, numInSamples, encoderVars
<1> QED  BY <1>2, <1>3, <1>4 DEF SampleAccounts

LEMMA AccountsNext == SampleAccounts /\ [MicNext]_micVars => SampleAccounts'
<1> SUFFICES ASSUME SampleAccounts, [MicNext]_micVars PROVE SampleAccounts'  OBVIOUS
<1>0. MicTypeOK  BY DEF SampleAccounts
<1>1. CASE Reading  BY <1>1, AccountsRead
<1>2. CASE EncodeSamples  BY <1>2, AccountsEncode
<1>3. CASE EncodeFails  BY <1>3, AccountsRefused
<1>4. CASE Start("loop") \/ Start("exit")
  <2>1. MicTypeOK'  BY <1>0, <1>4 DEF MicTypeOK, Start, Goto, encoderVars
  <2> QED  BY <1>4, <2>1, AccountsIdle DEF Start, Goto, encoderVars
<1>5. CASE Loop
  <2>1. MicTypeOK'  BY <1>0, <1>5 DEF MicTypeOK, Loop, Goto, encoderVars
  <2> QED  BY <1>5, <2>1, AccountsIdle DEF Loop, Goto, encoderVars
<1>6. CASE ReadError
  <2>1. MicTypeOK'  BY <1>0, <1>6 DEF MicTypeOK, ReadError, Prepare, Goto, encoderVars
  <2> QED  BY <1>6, <2>1, AccountsIdle DEF ReadError, Goto, encoderVars
<1>7. CASE \E how \in {"overrun", "failed"} : DeviceFails(how)
  <2>1. MicTypeOK'  BY <1>0, <1>7 DEF MicTypeOK, DeviceFails, encoderVars
  <2> QED  BY <1>7, <2>1, AccountsIdle DEF DeviceFails, encoderVars
<1>8. CASE RequestMicStop
  <2>1. MicTypeOK'  BY <1>0, <1>8 DEF MicTypeOK, RequestMicStop, encoderVars
  <2> QED  BY <1>8, <2>1, AccountsIdle DEF RequestMicStop, encoderVars
<1>9. CASE MicEnded \/ UNCHANGED micVars
  <2>1. UNCHANGED micVars  BY <1>9 DEF MicEnded
  <2>2. MicTypeOK'  BY <1>0, <2>1 DEF MicTypeOK, micVars, encoderVars
  <2> QED  BY <2>1, <2>2, AccountsIdle DEF micVars, encoderVars
<1> QED  BY <1>1, <1>2, <1>3, <1>4, <1>5, <1>6, <1>7, <1>8, <1>9 DEF MicNext, Running

(***************************************************************************)
(* The microphone: the theorem.                                            *)
(***************************************************************************)

\* The AAC frames hold nothing that was not read; of the samples read no more
\* are missing than came with irregular reads when a period is a frame, and none
\* without such a read when periods divide the frame (audio.cpp:57-64, 88-97;
\* fdkAACEncoder.cpp:44-68).
THEOREM SamplesCounted == MicSpec => []MicrophoneInv
<1>1. SampleAccounts => MicrophoneInv
  <2> SUFFICES ASSUME SampleAccounts PROVE MicrophoneInv  OBVIOUS
  <2>0. MicTypeOK /\ NothingMadeUp /\ InTheWay /\ WholePeriods  BY DEF SampleAccounts
  <2>1. /\ frames_ \in Nat \ {0} /\ inside \in 0..(FRAME - 1) /\ numInSamples \in 0..frames_
        /\ irregular \in Nat /\ read \in Nat /\ FRAME \in Nat
        /\ FRAME * handled \in Nat
    BY <2>0, SampleTypes
  <2>2. InFrames \in Nat /\ Given \in Int /\ Given <= read  BY <2>1 DEF InFrames, Given
  <2>3. InFrames <= read  BY <2>0, <2>1, <2>2 DEF NothingMadeUp
  <2>4. ASSUME micPc # "encode"
        PROVE  /\ frames_ = FRAME => read <= InFrames + irregular
               /\ FRAME % frames_ = 0 /\ irregular = 0 => read = InFrames
    <3>1. Given = read /\ ShortRead = 0  BY <2>4 DEF Given, ShortRead
    <3>2. frames_ = FRAME => read - InFrames + inside <= irregular
      BY <2>0, <2>1, <2>2, <3>1 DEF InTheWay
    <3>3. frames_ = FRAME => read <= InFrames + irregular  BY <2>1, <2>2, <3>2
    <3> QED  BY <2>0, <3>1, <3>3 DEF WholePeriods
  <2>5. SamplesAccounted  BY <2>3, <2>4 DEF SamplesAccounted, InFrames
  <2> QED  BY <2>0, <2>5 DEF MicrophoneInv
<1> QED  BY <1>1, AccountsInit, AccountsNext, PTL DEF MicSpec

=============================================================================
