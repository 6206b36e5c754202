---------------------------- MODULE StreamServer ----------------------------
(***************************************************************************)
(* The server (streamServer/src): a camera thread and an audio thread      *)
(* capture, encode and queue frames; the "stream-push" thread merges the   *)
(* two queues by time and broadcasts; a signal watcher runs stopServer();  *)
(* the main thread starts everything, runs the event loop and destroys     *)
(* everything.                                                             *)
(*                                                                         *)
(* The queues' operations are single steps (module ConcurrentQueue), and   *)
(* getFrame() is one step per queue operation, because the capturers can   *)
(* put frames in between.  The devices, the encoders and the network are   *)
(* external: they return, with or without data.                            *)
(***************************************************************************)
EXTENDS Naturals, Sequences

CONSTANTS
    QUE_SIZE,    \* AUDIO_QUE_SIZE and VIDEO_QUE_SIZE, by frame type
    FrameBound,  \* bound: frames captured, by frame type
    ClockBound,  \* bound: milliseconds since baseTime_
    None         \* no frame

Types   == {"VIDEO", "AUDIO"}
Threads == Types \union {"PUSH", "WATCHER", "MAIN"}

ASSUME ServerConstants ==
    /\ QUE_SIZE \in [Types -> Nat \ {0}]
    /\ FrameBound \in [Types -> Nat]
    /\ ClockBound \in Nat

Frames == [type : Types, id : Nat \ {0}, pts : 0..ClockBound]

ASSUME NoneIsNoFrame == None \notin Frames

VARIABLES
    clock,        \* steady_clock, as milliseconds since baseTime_
    que,          \* audioQue_ and videoQue_
    closed,       \* their closed_
    stopToken,    \* has exit() been called for a thread
    pc,           \* where every thread is
    hand,         \* the frame a capturer is about to queue
    captured,     \* frames captured so far
    outgoing,     \* the frame getFrame() has returned to run()
    frontPts,     \* currentVideoPts and currentAudioPts, 0 outside their scope
    outstanding,  \* buffers taken from a capturer's pool and not returned
    sent,         \* history: ids broadcast, per type
    seen          \* history: the times of the frames queued at line 109, until send

queues    == <<que, closed>>
capturing == <<hand, captured, clock>>
merging   == <<outgoing, frontPts, sent, seen>>
vars      == <<queues, capturing, merging, stopToken, pc, outstanding>>

Init ==
    /\ clock = 0
    /\ que = [k \in Types |-> <<>>]
    /\ closed = [k \in Types |-> FALSE]
    /\ stopToken = [t \in Types \union {"PUSH"} |-> FALSE]
    /\ pc = [t \in Threads |-> IF t = "MAIN" THEN "startPush" ELSE "none"]
    /\ hand = [k \in Types |-> None]
    /\ captured = [k \in Types |-> 0]
    /\ outgoing = None
    /\ frontPts = [k \in Types |-> 0]
    /\ outstanding = [k \in Types |-> 0]
    /\ sent = [k \in Types |-> <<>>]
    /\ seen = {}

Goto(t, label) == pc' = [pc EXCEPT ![t] = label]

Tick ==
    /\ clock < ClockBound
    /\ clock' = clock + 1
    /\ UNCHANGED <<queues, hand, captured, merging, stopToken, pc, outstanding>>

----
(* The capture threads: run() of CameraCapturer and AudioCapturer.         *)

CaptureLoop(k) ==
    /\ pc[k] = "loop"
    /\ Goto(k, IF stopToken[k] THEN "finished" ELSE "capture")
    /\ UNCHANGED <<queues, capturing, merging, stopToken, outstanding>>

\* No data from the device, or none from the encoder.
CaptureNothing(k) ==
    /\ pc[k] = "capture"
    /\ Goto(k, "loop")
    /\ UNCHANGED <<queues, capturing, merging, stopToken, outstanding>>

\* Data: stamped with the time, encoded, copied to a buffer of the pool.
Capture(k) ==
    /\ pc[k] = "capture"
    /\ captured[k] < FrameBound[k]
    /\ captured' = [captured EXCEPT ![k] = @ + 1]
    /\ hand' = [hand EXCEPT ![k] =
                  [type |-> k, id |-> captured[k] + 1, pts |-> clock]]
    /\ outstanding' = [outstanding EXCEPT ![k] = @ + 1]
    /\ Goto(k, "push")
    /\ UNCHANGED <<queues, clock, merging, stopToken>>

\* Bug variants, not part of Next.

\* Bug: a full queue costs the frame, as with try_push.
QueueFrameDropBug(k) ==
    /\ pc[k] = "push"
    /\ IF closed[k] \/ Len(que[k]) >= QUE_SIZE[k]
         THEN /\ outstanding' = [outstanding EXCEPT ![k] = @ - 1]
              /\ UNCHANGED que
         ELSE /\ que' = [que EXCEPT ![k] = Append(@, hand[k])]
              /\ UNCHANGED outstanding
    /\ hand' = [hand EXCEPT ![k] = None]
    /\ Goto(k, "loop")
    /\ UNCHANGED <<closed, captured, clock, merging, stopToken>>

\* Bug: the frame a closed queue refuses keeps its buffer.
QueueFrameLeakBug(k) ==
    /\ pc[k] = "push"
    /\ closed[k] \/ Len(que[k]) < QUE_SIZE[k]
    /\ que' = IF closed[k] THEN que ELSE [que EXCEPT ![k] = Append(@, hand[k])]
    /\ hand' = [hand EXCEPT ![k] = None]
    /\ Goto(k, "loop")
    /\ UNCHANGED <<closed, captured, clock, merging, stopToken, outstanding>>

\* handle(): push blocks while the queue is full; a closed queue refuses the
\* frame, whose buffer goes back to the pool when handle() returns.
QueueFrame(k) ==
    /\ pc[k] = "push"
    /\ IF closed[k]
         THEN /\ outstanding' = [outstanding EXCEPT ![k] = @ - 1]
              /\ UNCHANGED que
         ELSE /\ Len(que[k]) < QUE_SIZE[k]
              /\ que' = [que EXCEPT ![k] = Append(@, hand[k])]
              /\ UNCHANGED outstanding
    /\ hand' = [hand EXCEPT ![k] = None]
    /\ Goto(k, "loop")
    /\ UNCHANGED <<closed, captured, clock, merging, stopToken>>

----
(* The push thread: run() and getFrame() of StreamServer.                  *)

Empty(k) == que[k] = <<>>

QueuedTimes == UNION {{que[k][i].pts : i \in DOMAIN que[k]} : k \in Types}

\* run(): look at the stop_token, then call getFrame().
PushLoop ==
    /\ pc["PUSH"] = "loop"
    /\ Goto("PUSH", IF stopToken["PUSH"] THEN "finished" ELSE "109video")
    /\ seen' = IF stopToken["PUSH"] THEN seen ELSE QueuedTimes
    /\ UNCHANGED <<queues, capturing, outgoing, frontPts, sent, stopToken,
                   outstanding>>

\* The conditions of getFrame(), one empty() at a time: line, what is asked,
\* and where each answer leads.  A getFrame() without result is "loop".
Ask(label, answer, yes, no) ==
    /\ pc["PUSH"] = label
    /\ Goto("PUSH", IF answer THEN yes ELSE no)
    /\ UNCHANGED <<queues, capturing, merging, stopToken, outstanding>>

\* Bug: getFrame() goes on although both queues are empty.
AskQueuesBothEmptyBug ==
    \/ Ask("109video", Empty("VIDEO"),  "113video", "113video")
    \/ Ask("113video", ~Empty("VIDEO"), "113audio", "117video")
    \/ Ask("113audio", Empty("AUDIO"),  "popVideo", "117video")
    \/ Ask("117video", Empty("VIDEO"),  "117audio", "frontVideo")
    \/ Ask("117audio", ~Empty("AUDIO"), "popAudio", "frontVideo")

\* Bug: audio without video gives no frame.
AskQueuesNoAudioBug ==
    \/ Ask("109video", Empty("VIDEO"),  "loop", "113video")
    \/ Ask("113video", ~Empty("VIDEO"), "113audio", "117video")
    \/ Ask("113audio", Empty("AUDIO"),  "popVideo", "117video")
    \/ Ask("117video", Empty("VIDEO"),  "loop",     "frontVideo")

AskQueues ==
    \/ Ask("109video", Empty("VIDEO"),  "109audio", "113video")
    \/ Ask("109audio", Empty("AUDIO"),  "loop",     "113video")
    \/ Ask("113video", ~Empty("VIDEO"), "113audio", "117video")
    \/ Ask("113audio", Empty("AUDIO"),  "popVideo", "117video")
    \/ Ask("117video", Empty("VIDEO"),  "117audio", "frontVideo")
    \/ Ask("117audio", ~Empty("AUDIO"), "popAudio", "frontVideo")

\* visit_front leaves the time 0 when the queue is empty.
FrontTime(k) == IF Empty(k) THEN 0 ELSE Head(que[k]).pts

VisitFronts ==
    \/ /\ pc["PUSH"] = "frontVideo"
       /\ frontPts' = [frontPts EXCEPT !["VIDEO"] = FrontTime("VIDEO")]
       /\ Goto("PUSH", "frontAudio")
       /\ UNCHANGED <<queues, capturing, outgoing, sent, seen, stopToken, outstanding>>
    \/ /\ pc["PUSH"] = "frontAudio"
       /\ frontPts' = [frontPts EXCEPT !["AUDIO"] = FrontTime("AUDIO")]
       /\ Goto("PUSH", "choose")
       /\ UNCHANGED <<queues, capturing, outgoing, sent, seen, stopToken, outstanding>>

\* Bug: the comparison is the wrong way round.
ChooseOldestBug ==
    /\ pc["PUSH"] = "choose"
    /\ Goto("PUSH", IF frontPts["AUDIO"] < frontPts["VIDEO"]
                      THEN "popVideo" ELSE "popAudio")
    /\ frontPts' = [k \in Types |-> 0]
    /\ UNCHANGED <<queues, capturing, outgoing, sent, seen, stopToken, outstanding>>

ChooseOldest ==
    /\ pc["PUSH"] = "choose"
    /\ Goto("PUSH", IF frontPts["AUDIO"] < frontPts["VIDEO"]
                      THEN "popAudio" ELSE "popVideo")
    /\ frontPts' = [k \in Types |-> 0]
    /\ UNCHANGED <<queues, capturing, outgoing, sent, seen, stopToken, outstanding>>

Pop(k) ==
    /\ pc["PUSH"] = IF k = "VIDEO" THEN "popVideo" ELSE "popAudio"
    /\ ~Empty(k)
    /\ outgoing' = Head(que[k])
    /\ que' = [que EXCEPT ![k] = Tail(@)]
    /\ Goto("PUSH", "send")
    /\ UNCHANGED <<closed, capturing, frontPts, sent, seen, stopToken, outstanding>>

\* sendBroadcast; the frame's buffer is returned at the end of the iteration.
Send ==
    /\ pc["PUSH"] = "send"
    /\ sent' = [sent EXCEPT ![outgoing.type] = Append(@, outgoing.id)]
    /\ outstanding' = [outstanding EXCEPT ![outgoing.type] = @ - 1]
    /\ outgoing' = None
    /\ seen' = {}
    /\ Goto("PUSH", "loop")
    /\ UNCHANGED <<queues, capturing, frontPts, stopToken>>

PushStep == PushLoop \/ AskQueues \/ VisitFronts \/ ChooseOldest
              \/ (\E k \in Types : Pop(k)) \/ Send

----
(* The signal watcher: stopServer().                                       *)

\* SIGINT or SIGTERM; stopped_ is still false, for the destructor's call to
\* stopServer() comes after this thread is joined.
Signal ==
    /\ pc["WATCHER"] = "watch"
    /\ Goto("WATCHER", "exitCamera")
    /\ UNCHANGED <<queues, capturing, merging, stopToken, outstanding>>

\* Any other error of sigtimedwait ends the watcher: no shutdown any more.
WatcherFails ==
    /\ pc["WATCHER"] = "watch"
    /\ Goto("WATCHER", "finished")
    /\ UNCHANGED <<queues, capturing, merging, stopToken, outstanding>>

\* Bug: a thread that is joined was never asked to stop.
RequestExitBug(label, t, next) ==
    /\ pc["WATCHER"] = label
    /\ Goto("WATCHER", next)
    /\ UNCHANGED <<queues, capturing, merging, stopToken, outstanding>>

RequestExit(label, t, next) ==
    /\ pc["WATCHER"] = label
    /\ stopToken' = [stopToken EXCEPT ![t] = TRUE]
    /\ Goto("WATCHER", next)
    /\ UNCHANGED <<queues, capturing, merging, outstanding>>

CloseQue(label, k, next) ==
    /\ pc["WATCHER"] = label
    /\ closed' = [closed EXCEPT ![k] = TRUE]
    /\ Goto("WATCHER", next)
    /\ UNCHANGED <<que, capturing, merging, stopToken, outstanding>>

Wait(label, t, next) ==
    /\ pc["WATCHER"] = label
    /\ pc[t] = "finished"
    /\ Goto("WATCHER", next)
    /\ UNCHANGED <<queues, capturing, merging, stopToken, outstanding>>

\* The buffers of the frames that are left go back to the pool.
Drain(label, k, next) ==
    /\ pc["WATCHER"] = label
    /\ que' = [que EXCEPT ![k] = <<>>]
    /\ outstanding' = [outstanding EXCEPT ![k] = @ - Len(que[k])]
    /\ Goto("WATCHER", next)
    /\ UNCHANGED <<closed, capturing, merging, stopToken>>

\* loop_->quit() lets the main thread out of loop().
Quit ==
    /\ pc["WATCHER"] = "quit"
    /\ pc' = [pc EXCEPT !["WATCHER"] = "finished", !["MAIN"] = "joinWatcher"]
    /\ UNCHANGED <<queues, capturing, merging, stopToken, outstanding>>

StopServer ==
    \/ RequestExit("exitCamera", "VIDEO", "exitAudio")
    \/ RequestExit("exitAudio", "AUDIO", "closeAudio")
    \/ CloseQue("closeAudio", "AUDIO", "closeVideo")
    \/ CloseQue("closeVideo", "VIDEO", "waitCamera")
    \/ Wait("waitCamera", "VIDEO", "waitAudio")
    \/ Wait("waitAudio", "AUDIO", "exitPush")
    \/ RequestExit("exitPush", "PUSH", "waitPush")
    \/ Wait("waitPush", "PUSH", "drainVideo")
    \/ Drain("drainVideo", "VIDEO", "drainAudio")
    \/ Drain("drainAudio", "AUDIO", "quit")
    \/ Quit

----
(* The main thread: startServer(), loop(), the destructors.                *)

Start(label, t, at, next) ==
    /\ pc["MAIN"] = label
    /\ pc' = [pc EXCEPT !["MAIN"] = next, ![t] = at]
    /\ UNCHANGED <<queues, capturing, merging, stopToken, outstanding>>

\* ~jthread of the watcher, after the loop.
JoinWatcher ==
    /\ pc["MAIN"] = "joinWatcher"
    /\ pc["WATCHER"] = "finished"
    /\ Goto("MAIN", "destroyQueues")
    /\ UNCHANGED <<queues, capturing, merging, stopToken, outstanding>>

\* ~StreamServer: members in reverse order, the queues before the capturers
\* and their pools.
DestroyQueues ==
    /\ pc["MAIN"] = "destroyQueues"
    /\ que' = [k \in Types |-> <<>>]
    /\ outstanding' = [k \in Types |-> outstanding[k] - Len(que[k])]
    /\ Goto("MAIN", "destroyCapturers")
    /\ UNCHANGED <<closed, capturing, merging, stopToken>>

DestroyCapturers ==
    /\ pc["MAIN"] = "destroyCapturers"
    /\ Goto("MAIN", "finished")
    /\ UNCHANGED <<queues, capturing, merging, stopToken, outstanding>>

MainStep ==
    \/ Start("startPush", "PUSH", "loop", "startCamera")
    \/ Start("startCamera", "VIDEO", "loop", "startAudio")
    \/ Start("startAudio", "AUDIO", "loop", "startWatcher")
    \/ Start("startWatcher", "WATCHER", "watch", "serve")
    \/ JoinWatcher
    \/ DestroyQueues
    \/ DestroyCapturers

Exited == pc["MAIN"] = "finished" /\ UNCHANGED vars

----

CapturerStep(k) == CaptureLoop(k) \/ CaptureNothing(k) \/ Capture(k) \/ QueueFrame(k)

Next ==
    \/ Tick
    \/ \E k \in Types : CapturerStep(k)
    \/ PushStep
    \/ Signal
    \/ WatcherFails
    \/ StopServer
    \/ MainStep
    \/ Exited

Spec == Init /\ [][Next]_vars

\* Every thread goes on when it can: devices, encoders, sleeps and sendBroadcast
\* return.  No signal needs to come, and time need not pass.
Fairness ==
    /\ \A k \in Types : WF_vars(CapturerStep(k))
    /\ WF_vars(PushStep)
    /\ WF_vars(StopServer)
    /\ WF_vars(MainStep)

FairSpec == Spec /\ Fairness

----
(* Properties.                                                             *)

\* Every variable has its type; in particular no buffer is returned to its
\* pool more often than it was taken.
TypeOK ==
    /\ clock \in 0..ClockBound
    /\ que \in [Types -> Seq(Frames)]
    /\ closed \in [Types -> BOOLEAN]
    /\ stopToken \in [Types \union {"PUSH"} -> BOOLEAN]
    /\ hand \in [Types -> Frames \union {None}]
    /\ captured \in [Types -> Nat] /\ \A k \in Types : captured[k] <= FrameBound[k]
    /\ outgoing \in Frames \union {None}
    /\ frontPts \in [Types -> 0..ClockBound]
    /\ outstanding \in [Types -> Nat]
    /\ sent \in [Types -> Seq(Nat \ {0})]
    /\ seen \subseteq 0..ClockBound

\* getFrame() looks and then acts with the lock released in between; still,
\* when it reads the fronts both queues have one, and when it pops a queue the
\* pop cannot block on an empty queue, which would hold up the other one
\* (lines 109-134: only this thread takes frames out).
MergeNeverBlocks ==
    /\ pc["PUSH"] \in {"frontVideo", "frontAudio", "choose"}
         => ~Empty("VIDEO") /\ ~Empty("AUDIO")
    /\ pc["PUSH"] = "popVideo" => ~Empty("VIDEO")
    /\ pc["PUSH"] = "popAudio" => ~Empty("AUDIO")

\* The frame getFrame() returns is not newer than any frame that was queued
\* when it was called, though frames are queued while it looks (lines 121-134).
OldestFirst == pc["PUSH"] = "send" => \A t \in seen : outgoing.pts <= t

\* Types, and the order of the merge.
ServerInv == TypeOK /\ OldestFirst

\* Per type, the clients get frames 1, 2, 3, ... without a gap and in order;
\* until stopServer() everything captured is on its way (back-pressure: a full
\* queue holds the capturer up and loses nothing, lines 72-86).
Pipeline(k) ==
    LET ids(q) == [i \in DOMAIN q |-> q[i].id]
        out == IF outgoing # None /\ outgoing.type = k THEN <<outgoing.id>> ELSE <<>>
        inHand == IF hand[k] # None THEN <<hand[k].id>> ELSE <<>>
    IN sent[k] \o out \o ids(que[k]) \o inHand

GaplessStream ==
    \A k \in Types :
      /\ \A i \in DOMAIN Pipeline(k) : Pipeline(k)[i] = i
      /\ ~closed[k] => Len(Pipeline(k)) = captured[k]

\* Every buffer is returned exactly once, whatever way its frame goes: sent,
\* refused by a closed queue, or left over; none is out when the capturers and
\* their pools are destroyed (the comment in streamServer.h, lines 43-45).
BuffersReturned ==
    /\ \A k \in Types : outstanding[k] + Len(sent[k]) <= captured[k]
    /\ pc["MAIN"] = "destroyCapturers" => \A k \in Types : outstanding[k] = 0

\* What is captured is sent, unless the server is stopped.
EveryFrameSent ==
    \A k \in Types : \A n \in 1..FrameBound[k] :
      captured[k] >= n ~> Len(sent[k]) >= n \/ stopToken["VIDEO"]

\* After a signal the process ends: every join returns, whatever the threads
\* were doing, blocked on a full queue included (lines 50-70).
ShutdownTerminates == pc["WATCHER"] = "exitCamera" ~> pc["MAIN"] = "finished"

=============================================================================
