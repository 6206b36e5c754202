------------------------------ MODULE AudioPath ------------------------------
(***************************************************************************)
(* The selected stream's sound: an AudioDecoder per stream on the workers, *)
(* one AudioBufferDevice they all write to, and the QAudioSink that reads  *)
(* it.  Writers and reader share one condition variable and notify_one(),  *)
(* and the frame being written is a member of the device, so a writer that *)
(* has waited finds the frame of whoever came last.                        *)
(*                                                                         *)
(* Sound is counted in bytes.  A stream has one worker at a time           *)
(* (OneWorkerPerStream in DecodeScheduler), so streams stand for workers;  *)
(* a payload holds one AAC frame, as the server sends them, and one that   *)
(* FFmpeg refuses or cannot convert never gets as far as the device.       *)
(***************************************************************************)
EXTENDS Naturals, FiniteSets

CONSTANTS
    Streams,
    FrameSizes,       \* bytes of a converted frame
    ReadSizes,        \* what the sink asks for
    MAX_BUFFER_SIZE,
    FrameBound,       \* bound: frames delivered
    SwitchBound       \* bound: changes of the selected stream

Sink == "sink"    \* the reader

ASSUME AudioConstants ==
    /\ IsFiniteSet(Streams) /\ Sink \notin Streams
    /\ FrameSizes \subseteq Nat \ {0} /\ ReadSizes \subseteq Nat \ {0}
    /\ MAX_BUFFER_SIZE \in Nat /\ \A n \in FrameSizes : n <= MAX_BUFFER_SIZE
    /\ FrameBound \in Nat /\ SwitchBound \in Nat

VARIABLES
    audioStreamID_,
    decoded,      \* stream -> its AudioDecoder's audioFrame_
    audioFrame_,  \* AudioBufferDevice's, and (history) whose it is: from
    audioData_,   \* bytes in the device
    pc,           \* actor -> "idle", "call", "wait" (on cv_), "woken", "stopped"
    delivered,    \* history: frames delivered
    lost,         \* history: frames another took the place of
    switches      \* history: changes of the selected stream

selectVars == <<audioStreamID_, switches>>
deviceVars == <<audioFrame_, audioData_, delivered, lost>>
vars == <<selectVars, decoded, deviceVars, pc>>

NoFrame == [from |-> Sink, fresh |-> 0, stride |-> 0, len |-> 0]

Init ==
    /\ audioStreamID_ \in Streams
    /\ decoded = [s \in Streams |-> NoFrame]
    /\ audioFrame_ = NoFrame
    /\ audioData_ = 0
    /\ pc = [a \in Streams \union {Sink} |-> "idle"]
    /\ delivered = 0
    /\ lost = 0
    /\ switches = 0

----
(* The condition variable.                                                 *)

\* Actor a goes on to "next"; one of the others that wait, if any, is woken.
NotifyOne(a, next) ==
    LET waiting == {b \in DOMAIN pc \ {a} : pc[b] = "wait"}
    IN IF waiting = {} THEN pc' = [pc EXCEPT ![a] = next]
       ELSE \E b \in waiting : pc' = [pc EXCEPT ![a] = next, ![b] = "woken"]

Sleep(a) == pc' = [pc EXCEPT ![a] = "wait"]

\* External: wait() may wake with nobody having called notify_one(), and tests
\* its condition again.
SpuriousWakeup(a) ==
    /\ pc[a] = "wait"
    /\ pc' = [pc EXCEPT ![a] = "woken"]
    /\ UNCHANGED <<selectVars, decoded, deviceVars>>

----
(* The workers.                                                            *)

\* Bug: the stride stays what it was.
UpdateAudioFrameSizeBug(f, n) == IF f.len >= n THEN f ELSE [f EXCEPT !.len = n]

\* The buffer only grows, and its stride with it.
updateAudioFrameSize(f, n) ==
    IF f.len >= n THEN f ELSE [f EXCEPT !.len = n, !.stride = n]

\* A frame of n bytes is decoded, converted and copied; what the last frame
\* left behind it in the buffer stays.
DecodeFrame(s, n) ==
    /\ pc[s] = "idle"
    /\ delivered + Cardinality({t \in Streams : pc[t] = "call"}) < FrameBound
    /\ decoded' = [decoded EXCEPT ![s] = [updateAudioFrameSize(@, n) EXCEPT !.fresh = n]]
    /\ pc' = [pc EXCEPT ![s] = "call"]
    /\ UNCHANGED <<selectVars, deviceVars>>

\* Bug: every stream is heard.
DecodeBug(s, n) == DecodeFrame(s, n)

\* Only the stream that is selected now.
Decode(s, n) == audioStreamID_ = s /\ DecodeFrame(s, n)

\* AudioFrame::operator=: the target's buffer only grows.
CopyFrame(to, from) == [from EXCEPT !.len = IF to.len < from.len THEN from.len ELSE to.len]

HasRoom(f) == audioData_ + f.stride <= MAX_BUFFER_SIZE

\* Worker s appends frame f, whosever it is, or waits for room.
AppendOrWait(s, f) ==
    \/ /\ HasRoom(f)
       /\ audioData_' = audioData_ + f.stride
       /\ lost' = lost + (IF f.from = s THEN 0 ELSE 1)
       /\ NotifyOne(s, "idle")
    \/ /\ ~HasRoom(f)
       /\ Sleep(s)
       /\ UNCHANGED <<audioData_, lost>>

\* onAudioFrame() as far as it gets at once.
OnAudioFrame(s) ==
    /\ pc[s] = "call"
    /\ delivered' = delivered + 1
    /\ audioFrame_' = [CopyFrame(audioFrame_, decoded[s]) EXCEPT !.from = s]
    /\ AppendOrWait(s, audioFrame_')
    /\ UNCHANGED <<selectVars, decoded>>

\* A worker woken in its wait.
Resume(s) ==
    /\ pc[s] = "woken"
    /\ UNCHANGED <<selectVars, decoded, audioFrame_, delivered>>
    /\ AppendOrWait(s, audioFrame_)

----
(* The sink and the main thread.                                           *)

TakeOut(n) ==
    /\ pc[Sink] \in {"idle", "woken"}
    /\ audioData_' = audioData_ - (IF n < audioData_ THEN n ELSE audioData_)
    /\ UNCHANGED <<selectVars, decoded, audioFrame_, delivered, lost>>

\* Bug: the workers are not told of the room.
ReadBug(n) ==
    TakeOut(n) /\ IF audioData_ = 0 THEN Sleep(Sink) ELSE pc' = [pc EXCEPT ![Sink] = "idle"]

\* readData(n), by the sink or woken in its wait for data.
Read(n) == TakeOut(n) /\ IF audioData_ = 0 THEN Sleep(Sink) ELSE NotifyOne(Sink, "idle")

\* exec() returns: a sink that is driven by the main thread's event loop reads
\* no more (external).
StopReading ==
    /\ pc[Sink] = "idle"
    /\ pc' = [pc EXCEPT ![Sink] = "stopped"]
    /\ UNCHANGED <<selectVars, decoded, deviceVars>>

setAudioStreamID(s) ==
    /\ s # audioStreamID_
    /\ switches < SwitchBound
    /\ audioStreamID_' = s
    /\ switches' = switches + 1
    /\ UNCHANGED <<decoded, deviceVars, pc>>

----

Worker(s) == OnAudioFrame(s) \/ Resume(s)
Reading   == \E n \in ReadSizes : Read(n)

Next ==
    \/ \E s \in Streams, n \in FrameSizes : Decode(s, n)
    \/ \E s \in Streams : Worker(s) \/ setAudioStreamID(s)
    \/ Reading
    \/ StopReading
    \/ \E a \in DOMAIN pc : SpuriousWakeup(a)

Spec == Init /\ [][Next]_vars

----
(* Properties.                                                             *)

FrameType == [from : Streams \union {Sink}, fresh : Nat, stride : Nat, len : Nat]

\* Every variable has its type; the device never holds more than
\* MAX_BUFFER_SIZE (audioBufferDevice.cpp:9: at most 64k).
TypeOK ==
    /\ audioStreamID_ \in Streams
    /\ decoded \in [Streams -> FrameType] /\ audioFrame_ \in FrameType
    /\ audioData_ \in 0..MAX_BUFFER_SIZE
    /\ pc \in [Streams \union {Sink} -> {"idle", "call", "wait", "woken", "stopped"}]
    /\ delivered \in 0..FrameBound /\ lost \in Nat
    /\ switches \in 0..SwitchBound

\* No frame is cut short, and none is read past its buffer: the bytes appended
\* are at least the fresh ones and at most the allocated ones, although the
\* stride is only set when a buffer grows (audioDecoder.cpp:24-31).
NothingCut ==
    \A f \in {decoded[s] : s \in Streams} \union {audioFrame_} :
      f.fresh <= f.stride /\ f.stride <= f.len

\* Types, the device's limit, and the sizes of frames.
SoundInv == TypeOK /\ NothingCut

\* A frame is lost, and another played twice, only where the selection went
\* from one stream to another with a frame of the first still on its way: that
\* frame, and one that it takes the place of (audioBufferDevice.cpp:21-25).
LostBySwitching == lost <= 2 * switches

\* The sink sleeps with no worker awake to wake it in two cases only: the
\* device is empty and no worker waits, or a worker waits because the device is
\* too full for the frame at hand; then a wakeup went to a worker that could not
\* use it, and all sleep until another stream's frame fits or a wait ends by
\* itself.  Otherwise one condition variable and notify_one() do for both
\* sides (audioBufferDevice.cpp:23-27, 38-44).
AsleepOnlyIfFull ==
    pc[Sink] = "wait" /\ (\A s \in Streams : pc[s] # "woken") =>
      IF \E s \in Streams : pc[s] = "wait" THEN ~HasRoom(audioFrame_)
                                           ELSE audioData_ = 0

=============================================================================
