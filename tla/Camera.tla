------------------------------- MODULE Camera -------------------------------
(***************************************************************************)
(* The V4L2 camera (streamServer/src/camera/camera.cpp) and the thread     *)
(* that uses it (CameraCapturer::run): the buffers that the driver and the *)
(* program exchange, from the constructor to the destructor, with every    *)
(* ioctl that can fail.                                                    *)
(*                                                                         *)
(* The driver is external: it fills queued buffers in any order, VIDIOC_   *)
(* DQBUF takes a filled one, waits while streaming without one, and fails  *)
(* when not streaming; VIDIOC_STREAMON needs at least one buffer.          *)
(* Encoding and handing over a frame are one step here (StreamServer has   *)
(* them in detail).                                                        *)
(***************************************************************************)
EXTENDS Naturals, FiniteSets

CONSTANTS
    BufferBound,   \* bound: buffers the driver grants; the code asks for 4
    Failing        \* the calls that may fail

ASSUME CameraConstants ==
    /\ BufferBound \in Nat \ {0}
    /\ Failing \subseteq {"open", "setup", "map", "queue", "streamOn", "dequeue",
                          "requeue", "streamOff", "close"}

VARIABLES
    granted,        \* buffers the driver has granted
    buffers_,       \* index -> its start: "mapped", "failed" or "null"
    mappings,       \* the mappings that exist
    cameraBuffer_,  \* is the copy buffer allocated
    queued, done,   \* the driver's buffers: to be filled, and filled
    streaming,
    content,        \* what is in a buffer, to tell one filling from the next
    index,          \* getBuffer(): the dequeued buffer
    copy,           \* what is in cameraBuffer_
    taken,          \* history: the content when the buffer was dequeued
    lost,           \* history: buffers whose VIDIOC_QBUF in getBuffer() failed
    pc,             \* the capture thread
    mainPc,         \* the thread that owns the Camera
    stopToken

driver  == <<granted, queued, done, streaming, content>>
memory  == <<buffers_, mappings, cameraBuffer_>>
frames  == <<index, copy, taken, lost>>
control == <<pc, mainPc, stopToken>>
vars    == <<driver, memory, frames, control>>

Indices == 0..(BufferBound - 1)

Init ==
    /\ granted = 0 /\ queued = {} /\ done = {} /\ streaming = FALSE
    /\ content = [i \in Indices |-> 0]
    /\ buffers_ = [i \in {} |-> "null"]
    /\ mappings = {}
    /\ cameraBuffer_ = FALSE
    /\ index = 0 /\ copy = 0 /\ taken = 0
    /\ lost = {}
    /\ pc = "none"
    /\ mainPc = "construct"
    /\ stopToken = FALSE

May(call) == call \in Failing

----
(* The constructor.                                                        *)

\* open() exits the process when it fails.
OpenFails ==
    /\ mainPc = "construct"
    /\ May("open")
    /\ mainPc' = "exited"
    /\ UNCHANGED <<driver, memory, frames, pc, stopToken>>

Constructed(n, starts, maps, allocated) ==
    /\ mainPc = "construct"
    /\ granted' = n
    /\ buffers_' = starts
    /\ mappings' = maps
    /\ cameraBuffer_' = allocated
    /\ mainPc' = "serve"
    /\ pc' = "start"
    /\ UNCHANGED <<queued, done, streaming, content, frames, stopToken>>

\* init() returns before initMmap(): no capture device, no format.
SetupFails ==
    May("setup") /\ Constructed(0, [i \in {} |-> "null"], {}, FALSE)

\* initMmap() returns early, with too few buffers or none: init() goes on.
TooFewBuffers ==
    \E n \in {0, 1} :
      (n = 0 => May("map")) /\ Constructed(n, [i \in {} |-> "null"], {}, TRUE)

\* Bug variants, not part of Next.

\* Bug: initMmap() skips the buffer that fails and goes on.
MapBuffersBug ==
    \E n \in 2..BufferBound, k \in Indices, how \in {"null", "failed"} :
      /\ k < n /\ May("map")
      /\ Constructed(n, [i \in 0..(n - 1) |-> IF i = k THEN how ELSE "mapped"],
                     0..(n - 1) \ {k}, TRUE)

\* The first k buffers are mapped; if not all are, VIDIOC_QUERYBUF or mmap has
\* failed for buffer k and the rest is left as resize() made it.
MapBuffers ==
    \E n \in 2..BufferBound : \E k \in 0..n, how \in {"null", "failed"} :
      /\ k < n => May("map")
      /\ Constructed(n, [i \in 0..(n - 1) |-> CASE i < k -> "mapped"
                                               [] i = k -> how
                                               [] OTHER -> "null"],
                     0..(k - 1), TRUE)

Construct == OpenFails \/ SetupFails \/ TooFewBuffers \/ MapBuffers

----
(* The capture thread.                                                     *)

\* startCapture(): k buffers are queued; STREAMON only after all of them.
StartCapture ==
    /\ pc = "start"
    /\ \E k \in 0..Cardinality(DOMAIN buffers_) :
         /\ queued' = 0..(k - 1)
         /\ \/ k < Cardinality(DOMAIN buffers_) /\ May("queue") /\ UNCHANGED streaming
            \/ /\ k = Cardinality(DOMAIN buffers_)
               /\ granted = 0 \/ May("streamOn")
               /\ UNCHANGED streaming
            \/ k = Cardinality(DOMAIN buffers_) /\ granted > 0 /\ streaming' = TRUE
    /\ pc' = "loop"
    /\ UNCHANGED <<granted, done, content, memory, frames, mainPc, stopToken>>

\* Bug: the loop does not look at the stop_token.
LoopTestBug ==
    /\ pc = "loop"
    /\ pc' = "dequeue"
    /\ UNCHANGED <<driver, memory, frames, mainPc, stopToken>>

LoopTest ==
    /\ pc = "loop"
    /\ pc' = IF stopToken THEN "stop" ELSE "dequeue"
    /\ UNCHANGED <<driver, memory, frames, mainPc, stopToken>>

\* VIDIOC_DQBUF fails at once when the camera does not stream.
DequeueFails ==
    /\ pc = "dequeue"
    /\ ~streaming
    /\ pc' = "loop"
    /\ UNCHANGED <<driver, memory, frames, mainPc, stopToken>>

\* External: it fails while it streams.  The driver may do that, and need not:
\* no fairness makes a VIDIOC_DQBUF that waits come to an end.
DequeueError ==
    /\ pc = "dequeue"
    /\ streaming
    /\ May("dequeue")
    /\ pc' = "loop"
    /\ UNCHANGED <<driver, memory, frames, mainPc, stopToken>>

\* Bug: the buffer goes back to the driver before it is copied.
DequeueBug(i) ==
    /\ pc = "dequeue"
    /\ streaming
    /\ i \in done
    /\ done' = done \ {i}
    /\ queued' = queued \union {i}
    /\ index' = i
    /\ taken' = content[i]
    /\ pc' = "copy"
    /\ UNCHANGED <<granted, streaming, content, memory, copy, lost, mainPc, stopToken>>

Dequeue(i) ==
    /\ pc = "dequeue"
    /\ streaming
    /\ i \in done
    /\ done' = done \ {i}
    /\ index' = i
    /\ taken' = content[i]
    /\ pc' = "copy"
    /\ UNCHANGED <<granted, queued, streaming, content, memory, copy, lost,
                   mainPc, stopToken>>

\* memcpy; without a mapping or a copy buffer it is the end of the process.
Copy ==
    /\ pc = "copy"
    /\ IF buffers_[index] = "mapped" /\ cameraBuffer_
         THEN copy' = content[index] /\ pc' = "requeue"
         ELSE pc' = "crashed" /\ UNCHANGED copy
    /\ UNCHANGED <<driver, memory, index, taken, lost, mainPc, stopToken>>

Requeue ==
    /\ pc = "requeue"
    /\ queued' = queued \union {index}
    /\ pc' = "encode"
    /\ UNCHANGED <<granted, done, streaming, content, memory, frames, mainPc, stopToken>>

\* The driver does not get the buffer back, and the frame is given up.
RequeueFails ==
    /\ pc = "requeue"
    /\ May("requeue")
    /\ lost' = lost \union {index}
    /\ copy' = 0
    /\ pc' = "loop"
    /\ UNCHANGED <<driver, memory, index, taken, mainPc, stopToken>>

\* The span of cameraBuffer_ is encoded before the next getBuffer().
Encode ==
    /\ pc = "encode"
    /\ pc' = "loop"
    /\ UNCHANGED <<driver, memory, frames, mainPc, stopToken>>

StopCapture ==
    /\ pc = "stop"
    /\ \/ streaming' = FALSE /\ queued' = {} /\ done' = {}
       \/ May("streamOff") /\ UNCHANGED <<streaming, queued, done>>
    /\ pc' = "finished"
    /\ UNCHANGED <<granted, content, memory, frames, mainPc, stopToken>>

Capturer == \/ StartCapture \/ LoopTest \/ DequeueFails
            \/ (\E i \in Indices : Dequeue(i))
            \/ Copy \/ Requeue \/ RequeueFails \/ Encode \/ StopCapture

\* External: the driver fills a buffer.
Fill(i) ==
    /\ streaming
    /\ i \in queued
    /\ queued' = queued \ {i}
    /\ done' = done \union {i}
    /\ content' = [content EXCEPT ![i] = 1 - @]
    /\ UNCHANGED <<granted, streaming, memory, frames, control>>

----
(* The owner: exit() and wait(), then the destructor.                      *)

RequestStop ==
    /\ mainPc = "serve"
    /\ stopToken' = TRUE
    /\ mainPc' = "wait"
    /\ UNCHANGED <<driver, memory, frames, pc>>

\* uninit(): munmap of every buffer in order, up to the first that fails, and
\* only when none has failed buffers_ and cameraBuffer_ are freed; then close(),
\* which takes the buffers from the driver and exits the process when it fails.
Destroy ==
    /\ mainPc = "wait"
    /\ pc = "finished"
    /\ LET bad    == {i \in DOMAIN buffers_ : buffers_[i] # "mapped"}
           before == {i \in DOMAIN buffers_ : \A j \in bad : i < j}
       IN /\ mappings' = mappings \ before
          /\ IF bad = {} THEN buffers_' = [i \in {} |-> "null"] /\ cameraBuffer_' = FALSE
                         ELSE UNCHANGED <<buffers_, cameraBuffer_>>
    /\ streaming' = FALSE /\ queued' = {} /\ done' = {}
    /\ \/ mainPc' = "destroyed"
       \/ May("close") /\ mainPc' = "exited"
    /\ UNCHANGED <<granted, content, frames, pc, stopToken>>

Ended == (mainPc \in {"destroyed", "exited"} \/ pc = "crashed") /\ UNCHANGED vars

----

Next ==
    \/ Construct
    \/ Capturer
    \/ DequeueError
    \/ \E i \in Indices : Fill(i)
    \/ RequestStop
    \/ Destroy
    \/ Ended

Spec == Init /\ [][Next]_vars

\* The capture thread runs, the driver fills what it is given while it streams,
\* and the destructor follows the join.  Nobody has to ask for the stop, and
\* nothing has to fail.
Fairness ==
    /\ WF_vars(Capturer)
    /\ WF_vars(\E i \in Indices : Fill(i))
    /\ WF_vars(Destroy)

FairSpec == Spec /\ Fairness

----
(* Properties.                                                             *)

\* Every variable has its type.
TypeOK ==
    /\ granted \in 0..BufferBound
    /\ DOMAIN buffers_ \subseteq 0..(granted - 1)
    /\ \A i \in DOMAIN buffers_ : buffers_[i] \in {"mapped", "failed", "null"}
    /\ mappings \subseteq Indices
    /\ cameraBuffer_ \in BOOLEAN /\ streaming \in BOOLEAN /\ stopToken \in BOOLEAN
    /\ queued \subseteq 0..(granted - 1) /\ done \subseteq 0..(granted - 1)
    /\ content \in [Indices -> {0, 1}]
    /\ index \in Indices /\ copy \in {0, 1} /\ taken \in {0, 1}
    /\ lost \subseteq Indices
    /\ pc \in {"none", "start", "loop", "dequeue", "copy", "requeue", "encode",
               "stop", "finished", "crashed"}
    /\ mainPc \in {"construct", "serve", "wait", "destroyed", "exited"}

\* A streaming camera's buffers are accounted for: each is with the driver, in
\* getBuffer()'s hand, or lost to a VIDIOC_QBUF that failed (lines 67-86).
BufferAccounting ==
    LET inHand == IF pc \in {"copy", "requeue", "crashed"} THEN {index} ELSE {}
    IN streaming =>
         /\ DOMAIN buffers_ = queued \union done \union inHand \union lost
         /\ Cardinality(queued) + Cardinality(done) + Cardinality(inHand)
              + Cardinality(lost) = Cardinality(DOMAIN buffers_)

\* What is encoded is what the driver had filled the buffer with when it was
\* dequeued: the driver has not written to it again before the copy.
FrameIntact == pc = "encode" => copy = taken

\* No mapping outlives the Camera, also when initMmap() had stopped half way
\* and uninit() stops at the first munmap that fails (lines 193-219).
AllUnmapped == mainPc = "destroyed" => mappings = {}

\* Types, and the accounts of buffers and mappings.
CameraInv == TypeOK /\ BufferAccounting /\ AllUnmapped

\* VIDIOC_DQBUF waits, and the driver has no buffer to fill.
Starved == pc = "dequeue" /\ streaming /\ queued = {} /\ done = {}

\* A stop ends the capture thread, whatever has failed, unless it is left for
\* ever in a VIDIOC_DQBUF that waits for a driver with no buffer: all were lost
\* to a VIDIOC_QBUF that failed (line 80), or none was queued and STREAMON
\* succeeded nevertheless, as when the driver grants one (lines 41-54, 186-189).
EndsUnlessStarved ==
    stopToken ~> (pc \in {"finished", "crashed"} \/ []Starved)

=============================================================================
