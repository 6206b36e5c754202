------------------------ MODULE StreamServer_proofs ------------------------
(***************************************************************************)
(* Theorems about StreamServer, for any queue sizes, numbers of frames and *)
(* times: what getFrame() merges, what happens to every frame and every    *)
(* buffer, and the order in which stopServer() ends the threads.           *)
(***************************************************************************)
EXTENDS StreamServer, SequenceTheorems, TLAPS

\* What push and pop do to a queue.
LEMMA Appended ==
    ASSUME NEW S, NEW q \in Seq(S), NEW x \in S
    PROVE  /\ Append(q, x) \in Seq(S) /\ Append(q, x) # <<>>
           /\ Len(q) \in Nat /\ Len(Append(q, x)) = Len(q) + 1
           /\ \A i \in DOMAIN Append(q, x) :
                /\ i \in Nat \ {0}
                /\ \/ i \in DOMAIN q /\ Append(q, x)[i] = q[i]
                   \/ i = Len(q) + 1 /\ Append(q, x)[i] = x
           /\ \A i \in DOMAIN q : i \in DOMAIN Append(q, x) /\ Append(q, x)[i] = q[i]
  <1> DEFINE r == Append(q, x)
  <1>1. /\ r \in Seq(S) /\ Len(r) = Len(q) + 1 /\ r # <<>>
        /\ \A i \in 1..Len(q) : r[i] = q[i]
        /\ r[Len(q) + 1] = x
    BY AppendProperties
  <1>2. Len(q) \in Nat /\ DOMAIN q = 1..Len(q) /\ DOMAIN r = 1..(Len(q) + 1)
    BY <1>1, LenProperties
  <1> HIDE DEF r
  <1> QED
    BY <1>1, <1>2 DEF r

LEMMA Shortened ==
    ASSUME NEW S, NEW q \in Seq(S), q # <<>>
    PROVE  /\ Head(q) \in S /\ Tail(q) \in Seq(S)
           /\ Len(q) \in Nat \ {0} /\ Len(Tail(q)) = Len(q) - 1
           /\ 1 \in DOMAIN q /\ Head(q) = q[1]
           /\ \A i \in DOMAIN Tail(q) :
                i \in Nat \ {0} /\ i + 1 \in DOMAIN q /\ Tail(q)[i] = q[i + 1]
           /\ \A i \in DOMAIN q : i = 1 \/ (i - 1 \in DOMAIN Tail(q) /\ Tail(q)[i - 1] = q[i])
  <1>1. /\ Head(q) \in S /\ Tail(q) \in Seq(S)
        /\ Len(Tail(q)) = Len(q) - 1
        /\ Head(q) = q[1]
        /\ \A i \in 1..Len(Tail(q)) : Tail(q)[i] = q[i + 1]
    BY HeadTailProperties
  <1>2. Len(q) \in Nat \ {0} /\ DOMAIN q = 1..Len(q)
    BY EmptySeq, LenProperties
  <1>3. DOMAIN Tail(q) = 1..(Len(q) - 1)
    BY <1>1, LenProperties
  <1> QED
    BY <1>1, <1>2, <1>3

LEMMA NoElements ==
    ASSUME NEW S
    PROVE  <<>> \in Seq(S) /\ Len(<<>>) = 0 /\ DOMAIN <<>> = {}
  BY EmptySeq

LEMMA FrameFields ==
    /\ \A f \in Frames : /\ f.type \in Types
                         /\ f.id \in Nat \ {0}
                         /\ f.pts \in 0..ClockBound
    /\ \A k \in Types, i \in Nat \ {0}, t \in 0..ClockBound :
         [type |-> k, id |-> i, pts |-> t] \in Frames
  BY DEF Frames

----
(* Where the threads are.                                                  *)

CapturerLabels == {"none", "loop", "capture", "push", "finished"}
MergeLabels    == {"109video", "109audio", "113video", "113audio", "117video",
                   "117audio", "frontVideo", "frontAudio", "choose",
                   "popVideo", "popAudio"}
PushLabels     == MergeLabels \union {"none", "loop", "send", "finished"}
WatcherLabels  == {"none", "watch", "exitCamera", "exitAudio", "closeAudio",
                   "closeVideo", "waitCamera", "waitAudio", "exitPush",
                   "waitPush", "drainVideo", "drainAudio", "quit", "finished"}
MainLabels     == {"startPush", "startCamera", "startAudio", "startWatcher",
                   "serve", "joinWatcher", "destroyQueues", "destroyCapturers",
                   "finished"}

\* TypeOK without outstanding, which Accounted below fixes, but with pc.
Typed ==
    /\ clock \in 0..ClockBound
    /\ que \in [Types -> Seq(Frames)]
    /\ closed \in [Types -> BOOLEAN]
    /\ stopToken \in [Types \union {"PUSH"} -> BOOLEAN]
    /\ hand \in [Types -> Frames \union {None}]
    /\ captured \in [Types -> Nat] /\ \A k \in Types : captured[k] <= FrameBound[k]
    /\ outgoing \in Frames \union {None}
    /\ frontPts \in [Types -> 0..ClockBound]
    /\ sent \in [Types -> Seq(Nat \ {0})]
    /\ seen \subseteq 0..ClockBound
    /\ DOMAIN pc = Threads
    /\ \A k \in Types : pc[k] \in CapturerLabels
    /\ pc["PUSH"] \in PushLabels
    /\ pc["WATCHER"] \in WatcherLabels
    /\ pc["MAIN"] \in MainLabels

\* No thread runs before the main thread has started it.
Startup ==
    /\ pc["MAIN"] = "startPush" => pc["PUSH"] = "none"
    /\ pc["MAIN"] \in {"startPush", "startCamera"} => pc["VIDEO"] = "none"
    /\ pc["MAIN"] \in {"startPush", "startCamera", "startAudio"} => pc["AUDIO"] = "none"
    /\ pc["MAIN"] \in {"startPush", "startCamera", "startAudio", "startWatcher"}
         => pc["WATCHER"] = "none"

Over   == pc["MAIN"] \in {"joinWatcher", "destroyQueues", "destroyCapturers", "finished"}
Joined == pc["WATCHER"] \in {"drainVideo", "drainAudio", "quit"} \/ Over

\* stopServer() ends the threads in this order: a queue is closed only after
\* its capturer was asked to stop, and drained after everybody has finished.
Shutdown ==
    /\ pc["WATCHER"] \in {"exitAudio", "closeAudio", "closeVideo"} => stopToken["VIDEO"]
    /\ pc["WATCHER"] \in {"closeAudio", "closeVideo"} => stopToken["AUDIO"]
    /\ \A k \in Types : closed[k] => stopToken[k]
    /\ pc["WATCHER"] = "closeVideo" => closed["AUDIO"]
    /\ pc["WATCHER"] \in {"waitCamera", "waitAudio", "exitPush", "waitPush"} \/ Joined
         => closed["VIDEO"] /\ closed["AUDIO"]
    /\ pc["WATCHER"] \in {"waitAudio", "exitPush", "waitPush"} \/ Joined
         => pc["VIDEO"] = "finished"
    /\ pc["WATCHER"] \in {"exitPush", "waitPush"} \/ Joined => pc["AUDIO"] = "finished"
    /\ Joined => pc["PUSH"] = "finished"
    /\ Over => pc["WATCHER"] = "finished"
    /\ pc["MAIN"] \in {"destroyCapturers", "finished"} => \A k \in Types : que[k] = <<>>

\* A thread has a frame of its own exactly where the code uses it.
HandsAgree ==
    /\ \A k \in Types : /\ hand[k] # None <=> pc[k] = "push"
                        /\ hand[k] # None => hand[k].type = k
    /\ \A k \in Types : \A i \in DOMAIN que[k] : que[k][i].type = k
    /\ outgoing # None <=> pc["PUSH"] = "send"

Control == Typed /\ Startup /\ Shutdown /\ HandsAgree

LEMMA ControlInit == Init => Control
  <1> SUFFICES ASSUME Init PROVE Control
    OBVIOUS
  <1>1. Typed
    BY ServerConstants, NoElements
    DEF Init, Typed, Types, Threads, CapturerLabels, PushLabels, WatcherLabels, MainLabels
  <1>2. Startup /\ Shutdown /\ HandsAgree
    BY NoElements DEF Init, Startup, Shutdown, Over, Joined, HandsAgree, Types, Threads
  <1> QED
    BY <1>1, <1>2 DEF Control

\* Most steps only move one thread on.
LEMMA ControlNext == Control /\ [Next]_vars => Control'
  <1> SUFFICES ASSUME Control, [Next]_vars PROVE Control'
    OBVIOUS
  <1> USE DEF Control, Goto, queues, capturing, merging
  <1>1. CASE Tick
    BY <1>1, ServerConstants
    DEF Tick, Typed, Startup, Shutdown, Over, Joined, HandsAgree
  <1>2. ASSUME NEW k \in Types, CaptureLoop(k) \/ CaptureNothing(k)
        PROVE  Control'
    <2>1. /\ pc[k] \in {"loop", "capture"}
          /\ \E l \in {"loop", "capture", "finished"} : pc' = [pc EXCEPT ![k] = l]
          /\ UNCHANGED <<queues, capturing, merging, stopToken>>
      BY <1>2 DEF CaptureLoop, CaptureNothing
    <2> QED
      BY <2>1 DEF Typed, Startup, Shutdown, Over, Joined, HandsAgree, Types, Threads,
                  CapturerLabels
  <1>3. ASSUME NEW k \in Types, Capture(k)
        PROVE  Control'
    <2> DEFINE f == [type |-> k, id |-> captured[k] + 1, pts |-> clock]
    <2>1. f \in Frames /\ f.type = k
      BY FrameFields DEF Typed
    <2>2. /\ pc[k] = "capture" /\ pc' = [pc EXCEPT ![k] = "push"]
          /\ captured[k] < FrameBound[k] /\ captured' = [captured EXCEPT ![k] = @ + 1]
          /\ hand' = [hand EXCEPT ![k] = f]
          /\ UNCHANGED <<queues, clock, merging, stopToken>>
      BY <1>3 DEF Capture
    <2> HIDE DEF f
    <2> QED
      BY <2>1, <2>2, ServerConstants, NoneIsNoFrame
      DEF Typed, Startup, Shutdown, Over, Joined, HandsAgree, Types, Threads, CapturerLabels
  <1>4. ASSUME NEW k \in Types, QueueFrame(k)
        PROVE  Control'
    <2>1. /\ pc[k] = "push" /\ hand[k] \in Frames /\ hand[k].type = k
          /\ pc' = [pc EXCEPT ![k] = "loop"]
          /\ hand' = [hand EXCEPT ![k] = None]
          /\ UNCHANGED <<closed, captured, clock, merging, stopToken>>
      BY <1>4 DEF QueueFrame, Typed, HandsAgree
    <2>2. que' = que \/ (~closed[k] /\ que' = [que EXCEPT ![k] = Append(@, hand[k])])
      BY <1>4 DEF QueueFrame
    <2>3. que' \in [Types -> Seq(Frames)] /\ (closed[k] => que' = que)
      <3>1. Append(que[k], hand[k]) \in Seq(Frames) /\ que \in [Types -> Seq(Frames)]
        BY <2>1, Appended DEF Typed
      <3> QED
        BY <2>2, <3>1
    <2>4. ASSUME NEW j \in Types, NEW i \in DOMAIN que'[j]
          PROVE  que'[j][i].type = j
      <3>1. CASE que'[j] = que[j]
        BY <3>1 DEF HandsAgree
      <3>2. CASE j = k /\ que'[k] = Append(que[k], hand[k])
        BY <2>1, <3>2, Appended DEF HandsAgree, Typed
      <3> QED
        BY <2>1, <2>2, <3>1, <3>2 DEF Typed
    <2> QED
      BY <2>1, <2>3, <2>4 DEF Typed, Startup, Shutdown, Over, Joined, HandsAgree,
                              Types, Threads, CapturerLabels
  <1>5. CASE PushLoop
    <2>1. QueuedTimes \subseteq 0..ClockBound
      BY FrameFields DEF QueuedTimes, Typed
    <2>2. /\ pc["PUSH"] = "loop"
          /\ \E l \in {"109video", "finished"} : pc' = [pc EXCEPT !["PUSH"] = l]
          /\ seen' \subseteq 0..ClockBound
          /\ UNCHANGED <<queues, capturing, outgoing, frontPts, sent, stopToken>>
      BY <1>5, <2>1 DEF PushLoop, Typed
    <2> QED
      BY <2>2 DEF Typed, Startup, Shutdown, Over, Joined, HandsAgree, Types, Threads,
                  PushLabels, MergeLabels, CapturerLabels
  <1>6. CASE AskQueues \/ ChooseOldest \/ VisitFronts
    <2>1. /\ pc["PUSH"] \in MergeLabels
          /\ \E l \in MergeLabels \union {"loop"} : pc' = [pc EXCEPT !["PUSH"] = l]
          /\ UNCHANGED <<queues, capturing, outgoing, sent, seen, stopToken>>
      BY <1>6 DEF AskQueues, Ask, ChooseOldest, VisitFronts, MergeLabels
    <2>2. \A k \in Types : FrontTime(k) \in 0..ClockBound
      BY Shortened, FrameFields, ServerConstants DEF FrontTime, Empty, Typed
    <2>3. frontPts' \in [Types -> 0..ClockBound]
      BY <1>6, <2>2, ServerConstants
      DEF AskQueues, Ask, ChooseOldest, VisitFronts, Typed, Types
    <2> QED
      BY <2>1, <2>3 DEF Typed, Startup, Shutdown, Over, Joined, HandsAgree, Types,
                        Threads, PushLabels, MergeLabels, CapturerLabels
  <1>7. ASSUME NEW k \in Types, Pop(k)
        PROVE  Control'
    <2>1. /\ pc["PUSH"] \in MergeLabels /\ que[k] # <<>>
          /\ pc' = [pc EXCEPT !["PUSH"] = "send"]
          /\ outgoing' = Head(que[k])
          /\ que' = [que EXCEPT ![k] = Tail(@)]
          /\ UNCHANGED <<closed, capturing, frontPts, sent, seen, stopToken>>
      BY <1>7 DEF Pop, Empty, MergeLabels
    <2>2. /\ outgoing' \in Frames
          /\ que' \in [Types -> Seq(Frames)]
          /\ \A j \in Types : \A i \in DOMAIN que'[j] : que'[j][i].type = j
      BY <2>1, Shortened DEF Typed, HandsAgree
    <2> QED
      BY <2>1, <2>2, NoneIsNoFrame
      DEF Typed, Startup, Shutdown, Over, Joined, HandsAgree, Types,
          Threads, PushLabels, MergeLabels, CapturerLabels
  <1>8. CASE Send
    <2>1. /\ pc["PUSH"] = "send" /\ outgoing \in Frames
          /\ pc' = [pc EXCEPT !["PUSH"] = "loop"]
          /\ sent' = [sent EXCEPT ![outgoing.type] = Append(@, outgoing.id)]
          /\ outgoing' = None /\ seen' = {}
          /\ UNCHANGED <<queues, capturing, frontPts, stopToken>>
      BY <1>8 DEF Send, Typed, HandsAgree
    <2>2. sent' \in [Types -> Seq(Nat \ {0})]
      BY <2>1, FrameFields, Appended DEF Typed
    <2> QED
      BY <2>1, <2>2 DEF Typed, Startup, Shutdown, Over, Joined, HandsAgree, Types,
                        Threads, PushLabels, CapturerLabels
  <1>9. ASSUME NEW l \in WatcherLabels \ {"none"}, pc["WATCHER"] # "none",
               pc' = [pc EXCEPT !["WATCHER"] = l],
               UNCHANGED <<capturing, merging>>,
               que' \in [Types -> Seq(Frames)],
               \A k \in Types : que'[k] = que[k] \/ que'[k] = <<>>,
               closed' \in [Types -> BOOLEAN],
               stopToken' \in [Types \union {"PUSH"} -> BOOLEAN],
               Shutdown'
        PROVE  Control'
    <2>1. \A t \in Threads \ {"WATCHER"} : pc'[t] = pc[t]
      BY <1>9 DEF Typed
    <2>2. \A k \in Types : pc'[k] = pc[k]
      BY <2>1 DEF Types, Threads
    <2>3. /\ pc'["MAIN"] = pc["MAIN"] /\ pc'["PUSH"] = pc["PUSH"]
          /\ pc'["WATCHER"] = l /\ DOMAIN pc' = Threads
      BY <1>9, <2>1 DEF Types, Threads, Typed
    <2>4. Typed'
      BY <1>9, <2>2, <2>3 DEF Typed
    <2>5. Startup'
      BY <1>9, <2>2, <2>3 DEF Startup, Types
    <2>6. \A j \in Types : \A i \in DOMAIN que'[j] : que'[j][i].type = j
      BY <1>9, NoElements DEF HandsAgree
    <2>7. HandsAgree'
      BY <1>9, <2>2, <2>3, <2>6 DEF HandsAgree
    <2> QED
      BY <1>9, <2>4, <2>5, <2>7
  <1>10. CASE Signal \/ WatcherFails
    <2>1. Shutdown'
      BY <1>10 DEF Signal, WatcherFails, Typed, Shutdown, Over, Joined, Types, Threads
    <2> QED
      BY <1>9, <1>10, <2>1 DEF Signal, WatcherFails, Typed, WatcherLabels
  <1>11. CASE StopServer
    <2>1. ASSUME NEW l, NEW t \in Types \union {"PUSH"}, NEW n \in WatcherLabels \ {"none"},
                 RequestExit(l, t, n),
                 <<l, t, n>> \in {<<"exitCamera", "VIDEO", "exitAudio">>,
                                  <<"exitAudio", "AUDIO", "closeAudio">>,
                                  <<"exitPush", "PUSH", "waitPush">>}
          PROVE  Control'
      <3>1. /\ stopToken' = [stopToken EXCEPT ![t] = TRUE]
            /\ pc' = [pc EXCEPT !["WATCHER"] = n]
            /\ pc["WATCHER"] = l
            /\ UNCHANGED <<queues, capturing, merging>>
        BY <2>1 DEF RequestExit
      <3>2. /\ stopToken'[t] = TRUE
            /\ \A u \in Types \union {"PUSH"} : stopToken'[u] = TRUE \/ stopToken'[u] = stopToken[u]
        BY <3>1 DEF Typed
      <3>3. stopToken' \in [Types \union {"PUSH"} -> BOOLEAN]
        BY <3>1 DEF Typed
      <3>4. Shutdown'
        BY <2>1, <3>1, <3>2 DEF Typed, Shutdown, Over, Joined, Types, Threads
      <3> QED
        BY <1>9, <2>1, <3>1, <3>3, <3>4 DEF Typed
    <2>2. ASSUME NEW l, NEW k \in Types, NEW n \in WatcherLabels \ {"none"},
                 CloseQue(l, k, n),
                 <<l, k, n>> \in {<<"closeAudio", "AUDIO", "closeVideo">>,
                                  <<"closeVideo", "VIDEO", "waitCamera">>}
          PROVE  Control'
      <3>1. /\ closed' = [closed EXCEPT ![k] = TRUE]
            /\ pc' = [pc EXCEPT !["WATCHER"] = n]
            /\ pc["WATCHER"] = l
            /\ UNCHANGED <<que, capturing, merging, stopToken>>
        BY <2>2 DEF CloseQue
      <3>2. /\ closed'[k] = TRUE
            /\ \A u \in Types \ {k} : closed'[u] = closed[u]
            /\ closed' \in [Types -> BOOLEAN]
        BY <3>1 DEF Typed
      <3>4. Shutdown'
        BY <2>2, <3>1, <3>2 DEF Typed, Shutdown, Over, Joined, Types, Threads
      <3> QED
        BY <1>9, <2>2, <3>1, <3>2, <3>4 DEF Typed
    <2>3. ASSUME NEW l, NEW t \in Threads, NEW n \in WatcherLabels \ {"none"},
                 Wait(l, t, n),
                 <<l, t, n>> \in {<<"waitCamera", "VIDEO", "waitAudio">>,
                                  <<"waitAudio", "AUDIO", "exitPush">>,
                                  <<"waitPush", "PUSH", "drainVideo">>}
          PROVE  Control'
      <3>1. /\ pc[t] = "finished"
            /\ pc' = [pc EXCEPT !["WATCHER"] = n]
            /\ pc["WATCHER"] = l
            /\ UNCHANGED <<queues, capturing, merging, stopToken>>
        BY <2>3 DEF Wait
      <3>4. Shutdown'
        BY <2>3, <3>1 DEF Typed, Shutdown, Over, Joined, Types, Threads
      <3> QED
        BY <1>9, <2>3, <3>1, <3>4 DEF Typed
    <2>4. ASSUME NEW l, NEW k \in Types, NEW n \in WatcherLabels \ {"none"},
                 Drain(l, k, n),
                 <<l, k, n>> \in {<<"drainVideo", "VIDEO", "drainAudio">>,
                                  <<"drainAudio", "AUDIO", "quit">>}
          PROVE  Control'
      <3>1. /\ que' = [que EXCEPT ![k] = <<>>]
            /\ pc' = [pc EXCEPT !["WATCHER"] = n]
            /\ pc["WATCHER"] = l
            /\ UNCHANGED <<closed, capturing, merging, stopToken>>
        BY <2>4 DEF Drain
      <3>2. /\ que' \in [Types -> Seq(Frames)]
            /\ \A j \in Types : que'[j] = que[j] \/ que'[j] = <<>>
        BY <3>1, NoElements DEF Typed
      <3>4. Shutdown'
        BY <2>4, <3>1, <3>2 DEF Typed, Shutdown, Over, Joined, Types, Threads
      <3> QED
        BY <1>9, <2>4, <3>1, <3>2, <3>4 DEF Typed
    <2>5. CASE Quit
      BY <2>5 DEF Quit, Typed, Startup, Shutdown, Over, Joined,
                  HandsAgree, Types, Threads, WatcherLabels, MainLabels
    <2> QED
      BY <1>11, <2>1, <2>2, <2>3, <2>4, <2>5 DEF StopServer, WatcherLabels, Types, Threads
  <1>12. CASE MainStep
    <2>1. ASSUME NEW l, NEW t \in Threads, NEW at, NEW n \in MainLabels,
                 Start(l, t, at, n),
                 <<l, t, at, n>> \in {<<"startPush", "PUSH", "loop", "startCamera">>,
                                      <<"startCamera", "VIDEO", "loop", "startAudio">>,
                                      <<"startAudio", "AUDIO", "loop", "startWatcher">>,
                                      <<"startWatcher", "WATCHER", "watch", "serve">>}
          PROVE  Control'
      <3>1. /\ pc["MAIN"] = l /\ t # "MAIN"
            /\ pc' = [pc EXCEPT !["MAIN"] = n, ![t] = at]
            /\ UNCHANGED <<queues, capturing, merging, stopToken>>
        BY <2>1 DEF Start
      <3>2. /\ pc'["MAIN"] = n /\ pc'[t] = at /\ DOMAIN pc' = Threads
            /\ \A u \in Threads \ {"MAIN", t} : pc'[u] = pc[u]
        BY <3>1 DEF Typed, Threads
      <3>3. /\ pc[t] = "none"
            /\ n \in {"startCamera", "startAudio", "startWatcher", "serve"}
        BY <2>1, <3>1 DEF Startup
      <3>4. Startup'
        BY <2>1, <3>1, <3>2 DEF Startup, Types, Threads
      <3>5. Typed'
        <4>1. /\ \A k \in Types : pc'[k] \in CapturerLabels
              /\ pc'["PUSH"] \in PushLabels
              /\ pc'["WATCHER"] \in WatcherLabels
              /\ pc'["MAIN"] \in MainLabels
          BY <2>1, <3>2 DEF Typed, Types, Threads, CapturerLabels, PushLabels, WatcherLabels
        <4> QED
          BY <3>1, <3>2, <4>1 DEF Typed
      <3>6. HandsAgree'
        BY <2>1, <3>1, <3>2, <3>3 DEF HandsAgree, Types, Threads
      <3>7. Shutdown'
        BY <2>1, <3>1, <3>2, <3>3 DEF Shutdown, Over, Joined, Types, Threads
      <3> QED
        BY <3>4, <3>5, <3>6, <3>7
    <2>2. CASE JoinWatcher \/ DestroyCapturers
      BY <2>2 DEF JoinWatcher, DestroyCapturers, Typed, Startup, Shutdown, Over,
                  Joined, HandsAgree, Types, Threads, MainLabels
    <2>3. CASE DestroyQueues
      <3>1. /\ que' \in [Types -> Seq(Frames)]
            /\ \A j \in Types : que'[j] = <<>>
            /\ \A j \in Types : \A i \in DOMAIN que'[j] : que'[j][i].type = j
        BY <2>3, NoElements DEF DestroyQueues
      <3> QED
        BY <2>3, <3>1 DEF DestroyQueues, Typed, Startup, Shutdown, Over,
                          Joined, HandsAgree, Types, Threads, MainLabels
    <2> QED
      BY <1>12, <2>1, <2>2, <2>3 DEF MainStep, MainLabels, Threads, Types
  <1>13. CASE UNCHANGED vars
    BY <1>13 DEF vars, Typed, Startup, Shutdown, Over, Joined, HandsAgree
  <1> QED
    BY <1>1, <1>2, <1>3, <1>4, <1>5, <1>6, <1>7, <1>8, <1>10, <1>11, <1>12, <1>13
    DEF Next, CapturerStep, PushStep, Exited

LEMMA ControlAlways == Spec => []Control
  BY ControlInit, ControlNext, PTL DEF Spec

\* What the other threads do to the push thread: they start it, put frames into
\* its queues, and empty the queues when it has finished.
LEMMA OtherThreads ==
    ASSUME Control,
           \/ Tick \/ Signal \/ WatcherFails \/ StopServer \/ MainStep
           \/ \E k \in Types : CapturerStep(k)
           \/ UNCHANGED vars
    PROVE  /\ UNCHANGED merging
           /\ pc'["PUSH"] = pc["PUSH"] \/ (pc["PUSH"] = "none" /\ pc'["PUSH"] = "loop")
           /\ \A k \in Types : \/ que'[k] = que[k]
                               \/ pc[k] = "push" /\ que'[k] = Append(que[k], hand[k])
                               \/ pc["PUSH"] = "finished" /\ que'[k] = <<>>
  <1> USE DEF Control, Typed, Goto, queues, capturing, merging, Types, Threads
  <1>1. CASE Tick \/ UNCHANGED vars
    BY <1>1 DEF Tick, vars
  <1>2. ASSUME NEW k \in Types, CapturerStep(k)
        PROVE  /\ UNCHANGED merging
               /\ pc'["PUSH"] = pc["PUSH"]
               /\ \A j \in Types :
                    \/ que'[j] = que[j]
                    \/ pc[j] = "push" /\ que'[j] = Append(que[j], hand[j])
    <2>1. CASE CaptureLoop(k) \/ CaptureNothing(k) \/ Capture(k)
      BY <2>1 DEF CaptureLoop, CaptureNothing, Capture
    <2>2. CASE QueueFrame(k)
      BY <2>2 DEF QueueFrame
    <2> QED
      BY <1>2, <2>1, <2>2 DEF CapturerStep
  <1>3. CASE Signal \/ WatcherFails \/ StopServer
    <2>1. pc'["PUSH"] = pc["PUSH"] /\ UNCHANGED merging
      BY <1>3 DEF Signal, WatcherFails, StopServer, RequestExit, CloseQue, Wait, Drain, Quit
    <2>2. \/ que' = que
          \/ /\ pc["WATCHER"] \in {"drainVideo", "drainAudio"}
             /\ \E k \in Types : que' = [que EXCEPT ![k] = <<>>]
      BY <1>3 DEF Signal, WatcherFails, StopServer, RequestExit, CloseQue, Wait, Drain, Quit
    <2>3. \A k \in Types : \/ que'[k] = que[k]
                           \/ pc["PUSH"] = "finished" /\ que'[k] = <<>>
      BY <2>2 DEF Shutdown, Joined
    <2> QED
      BY <2>1, <2>3
  <1>4. CASE MainStep
    <2>1. UNCHANGED merging
      BY <1>4 DEF MainStep, Start, JoinWatcher, DestroyQueues, DestroyCapturers
    <2>2. pc'["PUSH"] = pc["PUSH"] \/ (pc["PUSH"] = "none" /\ pc'["PUSH"] = "loop")
      BY <1>4 DEF MainStep, Start, JoinWatcher, DestroyQueues, DestroyCapturers, Startup
    <2>3. que' = que \/ (pc["MAIN"] = "destroyQueues" /\ que' = [k \in Types |-> <<>>])
      BY <1>4 DEF MainStep, Start, JoinWatcher, DestroyQueues, DestroyCapturers
    <2>4. \A k \in Types : \/ que'[k] = que[k]
                           \/ pc["PUSH"] = "finished" /\ que'[k] = <<>>
      BY <2>3 DEF Shutdown, Joined, Over
    <2> QED
      BY <2>1, <2>2, <2>4
  <1> QED
    BY <1>1, <1>2, <1>3, <1>4

----
(* getFrame() never waits for a frame.                                     *)

\* What the answers of the earlier empty() calls still say.
SomeFrame ==
    /\ pc["PUSH"] = "113video" => ~Empty("VIDEO") \/ ~Empty("AUDIO")
    /\ pc["PUSH"] \in {"113audio", "popVideo", "frontVideo", "frontAudio", "choose"}
         => ~Empty("VIDEO")
    /\ pc["PUSH"] \in {"117video", "117audio", "popAudio", "frontVideo", "frontAudio",
                       "choose"}
         => ~Empty("AUDIO")

LEMMA SomeFrameNext == Control /\ SomeFrame /\ [Next]_vars => SomeFrame'
  <1> SUFFICES ASSUME Control, SomeFrame, [Next]_vars PROVE SomeFrame'
    OBVIOUS
  <1>0. /\ DOMAIN pc = Threads
        /\ \A k \in Types : que[k] \in Seq(Frames) /\ hand[k] \in Frames \union {None}
        /\ \A k \in Types : pc[k] = "push" => hand[k] \in Frames
    BY DEF Control, Typed, HandsAgree
  <1>1. ASSUME pc'["PUSH"] \in {"none", "loop", "109video", "109audio", "send", "finished"}
        PROVE  SomeFrame'
    BY <1>1 DEF SomeFrame
  <1>2. CASE \/ Tick \/ Signal \/ WatcherFails \/ StopServer \/ MainStep
             \/ \E k \in Types : CapturerStep(k)
             \/ UNCHANGED vars
    <2>1. /\ pc'["PUSH"] = pc["PUSH"] \/ pc'["PUSH"] = "loop"
          /\ \A k \in Types : \/ que'[k] = que[k]
                              \/ pc[k] = "push" /\ que'[k] = Append(que[k], hand[k])
                              \/ pc["PUSH"] = "finished"
      BY <1>2, OtherThreads
    <2>2. CASE pc["PUSH"] = "finished"
      BY <1>1, <2>1, <2>2
    <2>3. CASE pc["PUSH"] # "finished"
      <3>1. ASSUME NEW k \in Types, que[k] # <<>>
            PROVE  que'[k] # <<>>
        <4>1. pc[k] = "push" => Append(que[k], hand[k]) # <<>>
          BY <1>0, Appended
        <4> QED
          BY <2>1, <2>3, <3>1, <4>1
      <3>2. \A k \in Types : ~Empty(k) => ~Empty(k)'
        BY <3>1 DEF Empty
      <3> QED
        BY <2>1, <3>2 DEF SomeFrame, Types
    <2> QED
      BY <2>2, <2>3
  <1>3. CASE PushLoop \/ Send \/ \E k \in Types : Pop(k)
    BY <1>0, <1>1, <1>3 DEF PushLoop, Send, Pop, Goto, Threads
  <1>4. CASE AskQueues
    BY <1>0, <1>4 DEF AskQueues, Ask, Goto, Threads, SomeFrame, Empty, queues
  <1>5. CASE VisitFronts \/ ChooseOldest
    BY <1>0, <1>5 DEF VisitFronts, ChooseOldest, Goto, Threads, SomeFrame, Empty, queues
  <1> QED
    BY <1>2, <1>3, <1>4, <1>5 DEF Next, PushStep, Exited

\* getFrame() never blocks on an empty queue, and never compares the times of
\* frames that are not there, whatever the capturers do between its empty()
\* calls.
THEOREM NeverBlocks == Spec => []MergeNeverBlocks
  <1>1. Init => SomeFrame
    BY DEF Init, SomeFrame, Threads
  <1>2. SomeFrame => MergeNeverBlocks
    BY DEF SomeFrame, MergeNeverBlocks
  <1> QED
    BY <1>1, <1>2, ControlAlways, SomeFrameNext, PTL DEF Spec

----
(* Every frame and every buffer is somewhere, exactly once.                *)

Sent(k)     == Len(sent[k])
Queued(k)   == Len(que[k])
InHand(k)   == IF hand[k] = None THEN 0 ELSE 1
Outgoing(k) == IF outgoing # None /\ outgoing.type = k THEN 1 ELSE 0
Total(k)    == Sent(k) + Outgoing(k) + Queued(k) + InHand(k)

\* The frames of type k are numbered 1, 2, 3, ... from the first one sent to
\* the one in the capturer's hand; each that is not sent has a buffer; and
\* nothing captured is missing while it still matters.
Ledger(k) ==
    /\ outstanding[k] = Queued(k) + InHand(k) + Outgoing(k)
    /\ \A i \in DOMAIN sent[k] : sent[k][i] = i
    /\ Outgoing(k) = 1 => outgoing.id = Sent(k) + 1
    /\ \A i \in DOMAIN que[k] : que[k][i].id = Sent(k) + Outgoing(k) + i
    /\ hand[k] # None => hand[k].id = Total(k)
    /\ Total(k) <= captured[k]
    /\ ~closed[k] \/ pc[k] \in {"capture", "push"} => Total(k) = captured[k]

Books == outstanding \in [Types -> Int] /\ \A k \in Types : Ledger(k)

\* What the sums are made of.
LEMMA Amounts ==
    ASSUME Control, NEW k \in Types
    PROVE  /\ Sent(k) \in Nat /\ Queued(k) \in Nat /\ captured[k] \in Nat
           /\ DOMAIN sent[k] = 1..Sent(k) /\ DOMAIN que[k] = 1..Queued(k)
           /\ InHand(k) \in {0, 1} /\ Outgoing(k) \in {0, 1}
  <1>1. que[k] \in Seq(Frames) /\ sent[k] \in Seq(Nat \ {0}) /\ captured[k] \in Nat
    BY DEF Control, Typed
  <1> QED
    BY <1>1, LenProperties DEF Sent, Queued, InHand, Outgoing

\* A step that does not touch the frames of type k keeps its ledger.
LEMMA SameLedger ==
    ASSUME NEW k \in Types, Ledger(k),
           que'[k] = que[k], hand'[k] = hand[k], sent'[k] = sent[k],
           captured'[k] = captured[k], outstanding'[k] = outstanding[k],
           closed[k] => closed'[k],
           \/ outgoing' = outgoing
           \/ Outgoing(k) = 0 /\ Outgoing(k)' = 0,
           pc'[k] \in {"capture", "push"} => pc[k] \in {"capture", "push"} \/ ~closed[k]
    PROVE  Ledger(k)'
  <1>1. InHand(k)' = InHand(k)
    BY DEF InHand
  <1>2. Outgoing(k)' = Outgoing(k) /\ (Outgoing(k)' = 1 => outgoing' = outgoing)
    BY DEF Outgoing
  <1>3. Sent(k)' = Sent(k) /\ Queued(k)' = Queued(k)
    BY DEF Sent, Queued
  <1>4. Total(k)' = Total(k)
    BY <1>1, <1>2, <1>3 DEF Total
  <1> QED
    BY <1>1, <1>2, <1>3, <1>4 DEF Ledger

LEMMA BooksNext == Control /\ Control' /\ Books /\ [Next]_vars => Books'
  <1> SUFFICES ASSUME Control, Control', Books, [Next]_vars PROVE Books'
    OBVIOUS
  <1>0. /\ DOMAIN pc = Threads /\ outstanding \in [Types -> Int]
        /\ que \in [Types -> Seq(Frames)]
        /\ hand \in [Types -> Frames \union {None}]
        /\ sent \in [Types -> Seq(Nat \ {0})]
        /\ closed \in [Types -> BOOLEAN]
        /\ captured \in [Types -> Nat]
        /\ \A k \in Types : hand[k] # None <=> pc[k] = "push"
        /\ outgoing # None <=> pc["PUSH"] = "send"
        /\ outgoing \in Frames \union {None}
    BY DEF Control, Typed, HandsAgree, Books
  <1>1. ASSUME UNCHANGED <<que, hand, outgoing, sent, captured, outstanding>>,
               \A k \in Types :
                 /\ closed[k] => closed'[k]
                 /\ pc'[k] \in {"capture", "push"}
                      => pc[k] \in {"capture", "push"} \/ ~closed[k]
        PROVE  Books'
    BY <1>1, SameLedger DEF Books
  <1>2. CASE Tick \/ PushLoop \/ AskQueues \/ VisitFronts \/ ChooseOldest
    BY <1>0, <1>1, <1>2
    DEF Tick, PushLoop, AskQueues, Ask, VisitFronts, ChooseOldest, Goto, Threads,
        Types, queues, capturing, merging
  <1>3. ASSUME NEW k \in Types, CaptureLoop(k) \/ CaptureNothing(k)
        PROVE  Books'
    <2>1. closed[k] => stopToken[k]
      BY DEF Control, Shutdown
    <2>2. /\ UNCHANGED <<que, hand, outgoing, sent, captured, outstanding, closed>>
          /\ \A j \in Types \ {k} : pc'[j] = pc[j]
          /\ pc'[k] \in {"capture", "push"} => ~stopToken[k]
      BY <1>0, <1>3 DEF CaptureLoop, CaptureNothing, Goto, Threads, queues, capturing, merging
    <2> QED
      BY <1>1, <2>1, <2>2
  <1>4. ASSUME NEW k \in Types, Capture(k)
        PROVE  Books'
    <2>1. /\ pc[k] = "capture" /\ pc'[k] = "push" /\ hand[k] = None
          /\ captured' = [captured EXCEPT ![k] = @ + 1]
          /\ hand' = [hand EXCEPT ![k] = [type |-> k, id |-> captured[k] + 1, pts |-> clock]]
          /\ outstanding' = [outstanding EXCEPT ![k] = @ + 1]
          /\ UNCHANGED <<que, closed, outgoing, sent>>
          /\ \A j \in Types \ {k} : pc'[j] = pc[j]
      BY <1>0, <1>4 DEF Capture, Goto, Threads, queues, merging
    <2>2. hand'[k] # None /\ hand'[k].id = captured[k] + 1
      BY <1>0, <2>1 DEF Control, HandsAgree
    <2>3. Ledger(k)'
      <3>1. /\ captured'[k] = captured[k] + 1 /\ outstanding'[k] = outstanding[k] + 1
            /\ Sent(k)' = Sent(k) /\ Queued(k)' = Queued(k)
            /\ Outgoing(k)' = Outgoing(k) /\ InHand(k) = 0 /\ InHand(k)' = 1
        BY <1>0, <2>1, <2>2 DEF Sent, Queued, InHand, Outgoing
      <3>2. Total(k) = captured[k] /\ outstanding[k] = Queued(k) + InHand(k) + Outgoing(k)
        BY <2>1 DEF Books, Ledger
      <3>3. Total(k)' = captured'[k] /\ outstanding'[k] = Queued(k)' + InHand(k)' + Outgoing(k)'
        BY <3>1, <3>2, Amounts DEF Total
      <3> QED
        BY <2>1, <2>2, <3>1, <3>3, Amounts DEF Books, Ledger
    <2>4. \A j \in Types \ {k} : Ledger(j)'
      BY <1>0, <2>1, SameLedger DEF Books
    <2> QED
      BY <1>0, <2>1, <2>3, <2>4 DEF Books
  <1>5. ASSUME NEW k \in Types, QueueFrame(k)
        PROVE  Books'
    <2>1. /\ pc[k] = "push" /\ pc'[k] = "loop" /\ hand[k] \in Frames /\ hand[k] # None
          /\ hand' = [hand EXCEPT ![k] = None]
          /\ UNCHANGED <<closed, captured, outgoing, sent>>
          /\ \A j \in Types \ {k} : pc'[j] = pc[j]
      BY <1>0, <1>5 DEF QueueFrame, Goto, Threads, merging
    <2>2. /\ InHand(k) = 1 /\ InHand(k)' = 0 /\ Outgoing(k)' = Outgoing(k)
          /\ Sent(k)' = Sent(k) /\ sent'[k] = sent[k]
          /\ captured'[k] = captured[k] /\ hand'[k] = None
      BY <1>0, <2>1 DEF InHand, Outgoing, Sent
    <2>3. Total(k) = captured[k] /\ hand[k].id = Total(k)
      BY <2>1 DEF Books, Ledger
    <2>4. CASE closed[k]
      <3>1. outstanding' = [outstanding EXCEPT ![k] = @ - 1] /\ que' = que
        BY <1>5, <2>4 DEF QueueFrame
      <3>2. /\ outstanding'[k] = outstanding[k] - 1 /\ que'[k] = que[k]
            /\ closed'[k] = TRUE /\ pc'[k] = "loop" /\ Queued(k)' = Queued(k)
        BY <1>0, <2>1, <2>4, <3>1 DEF Queued
      <3>3. Total(k)' = Total(k) - 1
        BY <2>2, <3>2, Amounts DEF Total
      <3>6. outstanding'[k] = Queued(k)' + InHand(k)' + Outgoing(k)'
        <4>1. outstanding[k] = Queued(k) + InHand(k) + Outgoing(k)
          BY DEF Books, Ledger
        <4> QED
          BY <2>2, <3>2, <4>1, Amounts
      <3>7. Total(k)' <= captured'[k]
        BY <2>2, <2>3, <3>3, Amounts
      <3>4. Ledger(k)'
        BY <2>1, <2>2, <3>2, <3>6, <3>7 DEF Books, Ledger
      <3>5. \A j \in Types \ {k} : Ledger(j)'
        BY <1>0, <2>1, <3>1, SameLedger DEF Books
      <3> QED
        BY <1>0, <3>1, <3>4, <3>5 DEF Books
    <2>5. CASE ~closed[k]
      <3>1. que' = [que EXCEPT ![k] = Append(@, hand[k])] /\ outstanding' = outstanding
        BY <1>5, <2>5 DEF QueueFrame
      <3>2. /\ Queued(k)' = Queued(k) + 1
            /\ \A i \in DOMAIN que'[k] :
                 \/ i \in DOMAIN que[k] /\ que'[k][i] = que[k][i]
                 \/ i = Queued(k) + 1 /\ que'[k][i] = hand[k]
        BY <1>0, <2>1, <3>1, Appended DEF Queued
      <3>7. Sent(k) \in Nat /\ Queued(k) \in Nat /\ Outgoing(k) \in Nat
        BY Amounts
      <3>8. Queued(k)' = Queued(k) + 1
        BY <3>2
      <3>3. Total(k)' = Total(k)
        BY <2>2, <3>7, <3>8 DEF Total
      <3>4. \A i \in DOMAIN que'[k] : que'[k][i].id = Sent(k) + Outgoing(k) + i
        <4>1. hand[k].id = Sent(k) + Outgoing(k) + (Queued(k) + 1)
          BY <2>2, <2>3, <3>7 DEF Total
        <4> QED
          BY <3>2, <4>1 DEF Books, Ledger
      <3>5. Ledger(k)'
        <4>1. outstanding'[k] = Queued(k)' + InHand(k)' + Outgoing(k)'
          <5>1. outstanding'[k] = Queued(k) + InHand(k) + Outgoing(k)
            BY <3>1 DEF Books, Ledger
          <5> QED
            BY <2>2, <3>2, <5>1, Amounts
        <4> QED
          BY <2>1, <2>2, <2>3, <3>3, <3>4, <4>1 DEF Books, Ledger
      <3>6. \A j \in Types \ {k} : Ledger(j)'
        BY <1>0, <2>1, <3>1, SameLedger DEF Books
      <3> QED
        BY <1>0, <3>1, <3>5, <3>6 DEF Books
    <2> QED
      BY <2>4, <2>5
  <1>6. ASSUME NEW k \in Types, Pop(k)
        PROVE  Books'
    <2>1. /\ outgoing = None /\ que[k] # <<>>
          /\ outgoing' = Head(que[k])
          /\ que' = [que EXCEPT ![k] = Tail(@)]
          /\ UNCHANGED <<closed, hand, captured, sent, outstanding>>
          /\ \A j \in Types : pc'[j] = pc[j]
      BY <1>0, <1>6 DEF Pop, Empty, Goto, Threads, Types, capturing
    <2>2. /\ que[k][1] \in Frames /\ outgoing' = que[k][1] /\ 1 \in DOMAIN que[k]
          /\ Queued(k)' = Queued(k) - 1
          /\ \A i \in DOMAIN que'[k] :
               i \in Nat \ {0} /\ i + 1 \in DOMAIN que[k] /\ que'[k][i] = que[k][i + 1]
      BY <1>0, <2>1, Shortened DEF Queued
    <2>3. que[k][1].type = k
      BY <2>2 DEF Control, HandsAgree
    <2>4. /\ \A j \in Types : Outgoing(j) = 0
          /\ Outgoing(k)' = 1 /\ \A j \in Types \ {k} : Outgoing(j)' = 0
          /\ \A j \in Types : InHand(j)' = InHand(j)
      BY <2>1, <2>2, <2>3, NoneIsNoFrame DEF Outgoing, InHand
    <2>5. /\ Sent(k)' = Sent(k) /\ sent'[k] = sent[k] /\ captured'[k] = captured[k]
          /\ hand'[k] = hand[k] /\ outstanding'[k] = outstanding[k]
          /\ closed'[k] = closed[k] /\ pc'[k] = pc[k]
          /\ InHand(k)' = InHand(k) /\ Outgoing(k) = 0 /\ Outgoing(k)' = 1
      BY <2>1, <2>4 DEF Sent
    <2>6. Total(k)' = Total(k)
      BY <2>2, <2>5, Amounts DEF Total
    <2>7. \A i \in DOMAIN que[k] : que[k][i].id = Sent(k) + 0 + i
      BY <2>5 DEF Books, Ledger
    <2>8. outgoing'.id = Sent(k) + 1
      BY <2>2, <2>7, Amounts
    <2>9. \A i \in DOMAIN que'[k] : que'[k][i].id = Sent(k) + 1 + i
      <3> SUFFICES ASSUME NEW i \in DOMAIN que'[k]
                   PROVE  que'[k][i].id = Sent(k) + 1 + i
        OBVIOUS
      <3>1. i \in Nat /\ que'[k][i].id = Sent(k) + 0 + (i + 1)
        BY <2>2, <2>7
      <3> QED
        BY <3>1, Amounts
    <2>10. outstanding'[k] = Queued(k)' + InHand(k)' + Outgoing(k)'
      <3>1. outstanding[k] = Queued(k) + InHand(k) + Outgoing(k)
        BY DEF Books, Ledger
      <3> QED
        BY <2>2, <2>5, <3>1, Amounts
    <2>11. Ledger(k)'
      BY <2>5, <2>6, <2>8, <2>9, <2>10 DEF Books, Ledger
    <2>12. \A j \in Types \ {k} : Ledger(j)'
      BY <1>0, <2>1, <2>4, SameLedger DEF Books
    <2> QED
      BY <1>0, <2>1, <2>11, <2>12 DEF Books
  <1>7. CASE Send
    <2>0. PICK k \in Types : k = outgoing.type
      BY <1>0, <1>7, FrameFields DEF Send
    <2>1. /\ outgoing \in Frames /\ outgoing # None
          /\ sent' = [sent EXCEPT ![k] = Append(@, outgoing.id)]
          /\ outstanding' = [outstanding EXCEPT ![k] = @ - 1]
          /\ outgoing' = None
          /\ UNCHANGED <<que, closed, hand, captured>>
          /\ \A j \in Types : pc'[j] = pc[j]
      BY <1>0, <1>7, <2>0 DEF Send, Goto, Threads, Types, queues, capturing
    <2>2. /\ Outgoing(k) = 1 /\ \A j \in Types \ {k} : Outgoing(j) = 0
          /\ \A j \in Types : Outgoing(j)' = 0 /\ InHand(j)' = InHand(j)
      BY <2>0, <2>1 DEF Outgoing, InHand
    <2>3. outgoing.id = Sent(k) + 1 /\ outgoing.id \in Nat \ {0}
      BY <2>1, <2>2, FrameFields DEF Books, Ledger
    <2>4. /\ Sent(k)' = Sent(k) + 1
          /\ \A i \in DOMAIN sent'[k] : \/ i \in DOMAIN sent[k] /\ sent'[k][i] = sent[k][i]
                                        \/ i = Sent(k) + 1 /\ sent'[k][i] = outgoing.id
      BY <1>0, <2>1, <2>3, Appended DEF Sent
    <2>5. \A i \in DOMAIN sent'[k] : sent'[k][i] = i
      BY <2>3, <2>4 DEF Books, Ledger
    <2>6. /\ Queued(k)' = Queued(k)
          /\ que'[k] = que[k] /\ captured'[k] = captured[k] /\ hand'[k] = hand[k]
          /\ outstanding'[k] = outstanding[k] - 1 /\ closed'[k] = closed[k] /\ pc'[k] = pc[k]
          /\ InHand(k)' = InHand(k) /\ Outgoing(k) = 1 /\ Outgoing(k)' = 0
      BY <1>0, <2>1, <2>2 DEF Queued
    <2>7. Total(k)' = Total(k)
      BY <2>4, <2>6, Amounts DEF Total
    <2>8. \A i \in DOMAIN que'[k] : que'[k][i].id = Sent(k)' + Outgoing(k)' + i
      <3> SUFFICES ASSUME NEW i \in DOMAIN que[k]
                   PROVE  que[k][i].id = Sent(k)' + Outgoing(k)' + i
        BY <2>6
      <3>1. i \in Nat /\ que[k][i].id = Sent(k) + 1 + i
        BY <2>6, Amounts DEF Books, Ledger
      <3> QED
        BY <2>4, <2>6, <3>1, Amounts
    <2>9. outstanding'[k] = Queued(k)' + InHand(k)' + Outgoing(k)'
      <3>1. outstanding[k] = Queued(k) + InHand(k) + Outgoing(k)
        BY DEF Books, Ledger
      <3> QED
        BY <2>6, <3>1, Amounts
    <2>10. Ledger(k)'
      BY <2>5, <2>6, <2>7, <2>8, <2>9 DEF Books, Ledger
    <2>11. \A j \in Types \ {k} : Ledger(j)'
      BY <1>0, <2>1, <2>2, SameLedger DEF Books
    <2>12. outstanding' \in [Types -> Int]
      BY <1>0, <2>1
    <2> QED
      BY <2>10, <2>11, <2>12 DEF Books
  <1>8. CASE Signal \/ WatcherFails
    BY <1>0, <1>1, <1>8 DEF Signal, WatcherFails, Goto, Threads, Types, queues,
                            capturing, merging
  \* The threads have finished: whatever is in the queues goes back to its pool.
  <1>9. ASSUME NEW K \in SUBSET Types,
               UNCHANGED <<closed, hand, captured, outgoing, sent>>,
               \A k \in K : /\ que'[k] = <<>>
                            /\ outstanding'[k] = outstanding[k] - Queued(k)
                            /\ closed[k] /\ pc[k] = "finished",
               \A k \in Types \ K : que'[k] = que[k] /\ outstanding'[k] = outstanding[k],
               \A k \in Types : pc'[k] = pc[k],
               outstanding' \in [Types -> Int]
        PROVE  Books'
    <2>1. ASSUME NEW k \in Types, k \in K
          PROVE  Ledger(k)'
      <3>1. /\ hand[k] = None /\ InHand(k) = 0 /\ InHand(k)' = 0
            /\ Outgoing(k)' = Outgoing(k) /\ Sent(k)' = Sent(k)
        BY <1>0, <1>9, <2>1 DEF InHand, Outgoing, Sent
      <3>2. /\ Queued(k)' = 0 /\ DOMAIN que'[k] = {}
            /\ outstanding'[k] = outstanding[k] - Queued(k)
            /\ closed'[k] = TRUE /\ pc'[k] = "finished" /\ hand'[k] = None
            /\ sent'[k] = sent[k] /\ captured'[k] = captured[k] /\ outgoing' = outgoing
        BY <1>9, <2>1, <3>1, NoElements DEF Queued
      <3>3. Total(k)' = Total(k) - Queued(k)
        BY <3>1, <3>2, Amounts DEF Total
      <3>4. Ledger(k)
        BY DEF Books
      <3>5. outstanding'[k] = Queued(k)' + InHand(k)' + Outgoing(k)'
        BY <3>1, <3>2, <3>4, Amounts DEF Ledger
      <3>6. Total(k)' <= captured'[k]
        BY <3>2, <3>3, <3>4, Amounts DEF Ledger, Total
      <3> QED
        BY <3>1, <3>2, <3>4, <3>5, <3>6 DEF Ledger
    <2>2. \A k \in Types \ K : Ledger(k)'
      BY <1>9, SameLedger DEF Books
    <2> QED
      BY <1>9, <2>1, <2>2 DEF Books
  <1>10. CASE StopServer
    <2>1. CASE \/ RequestExit("exitCamera", "VIDEO", "exitAudio")
               \/ RequestExit("exitAudio", "AUDIO", "closeAudio")
               \/ RequestExit("exitPush", "PUSH", "waitPush")
               \/ Wait("waitCamera", "VIDEO", "waitAudio")
               \/ Wait("waitAudio", "AUDIO", "exitPush")
               \/ Wait("waitPush", "PUSH", "drainVideo")
               \/ Quit
      BY <1>0, <1>1, <2>1 DEF RequestExit, Wait, Quit, Goto, Threads, Types, queues,
                              capturing, merging
    <2>2. CASE \/ CloseQue("closeAudio", "AUDIO", "closeVideo")
               \/ CloseQue("closeVideo", "VIDEO", "waitCamera")
      <3>1. /\ UNCHANGED <<que, hand, outgoing, sent, captured, outstanding>>
            /\ \A k \in Types : pc'[k] = pc[k] /\ (closed[k] => closed'[k])
        BY <1>0, <2>2 DEF CloseQue, Goto, Threads, Types, capturing, merging
      <3> QED
        BY <1>1, <3>1
    <2>3. ASSUME NEW l \in {"drainVideo", "drainAudio"}, NEW k \in Types, NEW n, Drain(l, k, n)
          PROVE  Books'
      <3>1. /\ que' = [que EXCEPT ![k] = <<>>]
            /\ outstanding' = [outstanding EXCEPT ![k] = @ - Queued(k)]
            /\ UNCHANGED <<closed, hand, captured, outgoing, sent>>
            /\ \A j \in Types : pc'[j] = pc[j]
        BY <1>0, <2>3 DEF Drain, Goto, Threads, Types, capturing, merging, Queued
      <3>2. \A j \in Types : closed[j] /\ pc[j] = "finished"
        BY <2>3 DEF Drain, Control, Shutdown, Joined, Types
      <3>3. /\ que'[k] = <<>> /\ outstanding'[k] = outstanding[k] - Queued(k)
            /\ \A j \in Types \ {k} : que'[j] = que[j] /\ outstanding'[j] = outstanding[j]
            /\ outstanding' \in [Types -> Int]
        BY <1>0, <3>1, Amounts
      <3> DEFINE K == {k}
      <3>4. /\ K \in SUBSET Types
            /\ \A j \in K : /\ que'[j] = <<>>
                            /\ outstanding'[j] = outstanding[j] - Queued(j)
                            /\ closed[j] /\ pc[j] = "finished"
            /\ \A j \in Types \ K : que'[j] = que[j] /\ outstanding'[j] = outstanding[j]
        BY <3>2, <3>3
      <3> HIDE DEF K
      <3> QED
        BY <1>9, <3>1, <3>3, <3>4
    <2> QED
      BY <1>10, <2>1, <2>2, <2>3 DEF StopServer, Types
  <1>11. CASE MainStep
    <2>1. CASE \/ Start("startPush", "PUSH", "loop", "startCamera")
               \/ Start("startCamera", "VIDEO", "loop", "startAudio")
               \/ Start("startAudio", "AUDIO", "loop", "startWatcher")
               \/ Start("startWatcher", "WATCHER", "watch", "serve")
               \/ JoinWatcher \/ DestroyCapturers
      BY <1>0, <1>1, <2>1 DEF Start, JoinWatcher, DestroyCapturers, Goto, Threads, Types,
                              queues, capturing, merging
    <2>2. CASE DestroyQueues
      <3>1. /\ que' = [k \in Types |-> <<>>]
            /\ outstanding' = [k \in Types |-> outstanding[k] - Queued(k)]
            /\ UNCHANGED <<closed, hand, captured, outgoing, sent>>
            /\ \A j \in Types : pc'[j] = pc[j]
        BY <1>0, <2>2 DEF DestroyQueues, Goto, Threads, Types, capturing, merging, Queued
      <3>2. \A j \in Types : closed[j] /\ pc[j] = "finished"
        BY <2>2 DEF DestroyQueues, Control, Shutdown, Joined, Over, Types
      <3>3. outstanding' \in [Types -> Int]
        <4>1. \A k \in Types : outstanding[k] - Queued(k) \in Int
          BY <1>0, Amounts
        <4> QED
          BY <3>1, <4>1
      <3> QED
        BY <1>9, <3>1, <3>2, <3>3
    <2> QED
      BY <1>11, <2>1, <2>2 DEF MainStep
  <1>12. CASE UNCHANGED vars
    BY <1>1, <1>12 DEF vars, queues, capturing, merging
  <1> QED
    BY <1>2, <1>3, <1>4, <1>5, <1>6, <1>7, <1>8, <1>10, <1>11, <1>12
    DEF Next, CapturerStep, PushStep, Exited

LEMMA BooksAlways == Spec => []Books
  <1>1. Init => Books
    BY NoElements DEF Init, Books, Ledger, Total, Sent, Queued, InHand, Outgoing, Types
  <1> QED
    BY <1>1, ControlAlways, BooksNext, PTL DEF Spec

----
(* What the ledger says to the clients and to the pools.                   *)

\* A queue's ids follow on what was sent before them.
LEMMA Consecutive ==
    ASSUME NEW a \in Seq(Nat), NEW b \in Seq(Nat),
           \A i \in DOMAIN a : a[i] = i,
           \A i \in DOMAIN b : b[i] = Len(a) + i
    PROVE  /\ a \o b \in Seq(Nat)
           /\ Len(a \o b) = Len(a) + Len(b)
           /\ \A i \in DOMAIN (a \o b) : (a \o b)[i] = i
  <1> DEFINE c == a \o b
  <1>1. /\ c \in Seq(Nat) /\ Len(c) = Len(a) + Len(b)
        /\ \A i \in 1..Len(c) : c[i] = IF i <= Len(a) THEN a[i] ELSE b[i - Len(a)]
    BY ConcatProperties
  <1>2. /\ Len(a) \in Nat /\ DOMAIN a = 1..Len(a)
        /\ Len(b) \in Nat /\ DOMAIN b = 1..Len(b)
        /\ DOMAIN c = 1..Len(c)
    BY <1>1, LenProperties
  <1> HIDE DEF c
  <1>3. ASSUME NEW i \in DOMAIN c
        PROVE  c[i] = i
    <2>1. CASE i <= Len(a)
      <3>1. i \in DOMAIN a
        BY <1>2, <1>3, <2>1
      <3> QED
        BY <1>1, <1>2, <1>3, <2>1, <3>1
    <2>2. CASE ~(i <= Len(a))
      <3>1. i - Len(a) \in DOMAIN b
        BY <1>1, <1>2, <1>3, <2>2
      <3>2. c[i] = b[i - Len(a)]
        BY <1>1, <1>2, <1>3, <2>2
      <3>3. b[i - Len(a)] = Len(a) + (i - Len(a))
        BY <3>1
      <3>4. i \in Nat /\ Len(a) \in Nat
        BY <1>2, <1>3
      <3> QED
        BY ONLY <3>2, <3>3, <3>4
    <2> QED
      BY <2>1, <2>2
  <1> QED
    BY <1>1, <1>3 DEF c

LEMMA OneElement ==
    ASSUME NEW n \in Nat
    PROVE  <<n>> \in Seq(Nat) /\ Len(<<n>>) = 1 /\ \A i \in DOMAIN <<n>> : i = 1 /\ <<n>>[i] = n
  OBVIOUS

LEMMA PipelineNumbered ==
    ASSUME Control, NEW k \in Types, Ledger(k)
    PROVE  /\ Len(Pipeline(k)) = Total(k)
           /\ \A i \in DOMAIN Pipeline(k) : Pipeline(k)[i] = i
  <1> DEFINE ids == [i \in DOMAIN que[k] |-> que[k][i].id]
             out == IF outgoing # None /\ outgoing.type = k THEN <<outgoing.id>> ELSE <<>>
             inHand == IF hand[k] # None THEN <<hand[k].id>> ELSE <<>>
  <1>1. /\ que[k] \in Seq(Frames) /\ hand[k] \in Frames \union {None}
        /\ outgoing \in Frames \union {None}
        /\ sent[k] \in Seq(Nat \ {0})
    BY DEF Control, Typed
  <1>2. Pipeline(k) = ((sent[k] \o out) \o ids) \o inHand
    BY DEF Pipeline
  <1>3. /\ sent[k] \in Seq(Nat) /\ Len(sent[k]) = Sent(k)
        /\ \A i \in DOMAIN sent[k] : sent[k][i] = i
    BY <1>1 DEF Sent, Ledger
  <1>4. /\ out \in Seq(Nat) /\ Len(out) = Outgoing(k)
        /\ \A i \in DOMAIN out : out[i] = Sent(k) + i
    <2>1. CASE outgoing # None /\ outgoing.type = k
      <3>1. out = <<outgoing.id>> /\ Outgoing(k) = 1
        BY <2>1 DEF Outgoing
      <3>2. outgoing.id \in Nat /\ outgoing.id = Sent(k) + 1
        BY <1>1, <2>1, <3>1, FrameFields DEF Ledger
      <3> QED
        BY <3>1, <3>2, OneElement
    <2>2. CASE ~(outgoing # None /\ outgoing.type = k)
      BY <2>2, NoElements DEF Outgoing
    <2> QED
      BY <2>1, <2>2
  <1>5. /\ ids \in Seq(Nat) /\ Len(ids) = Queued(k)
        /\ \A i \in DOMAIN ids : ids[i] = Sent(k) + Outgoing(k) + i
    <2>1. \A i \in DOMAIN que[k] : que[k][i].id \in Nat
      BY <1>1, FrameFields
    <2>2. DOMAIN que[k] = 1..Queued(k) /\ Queued(k) \in Nat
      BY <1>1, LenProperties DEF Queued
    <2>3. ids \in Seq(Nat) /\ Len(ids) = Queued(k)
      BY <2>1, <2>2
    <2> QED
      BY <2>3 DEF Ledger
  <1>6. /\ inHand \in Seq(Nat) /\ Len(inHand) = InHand(k)
        /\ \A i \in DOMAIN inHand : inHand[i] = Sent(k) + Outgoing(k) + Queued(k) + i
    <2>1. CASE hand[k] # None
      <3>1. inHand = <<hand[k].id>> /\ InHand(k) = 1
        BY <2>1 DEF InHand
      <3>2. hand[k].id \in Nat /\ hand[k].id = Sent(k) + Outgoing(k) + Queued(k) + 1
        BY <1>1, <2>1, <3>1, FrameFields DEF Ledger, Total
      <3> QED
        BY <3>1, <3>2, OneElement
    <2>2. CASE hand[k] = None
      BY <2>2, NoElements DEF InHand
    <2> QED
      BY <2>1, <2>2
  <1> HIDE DEF ids, out, inHand
  <1> DEFINE p == sent[k] \o out
             q == p \o ids
  <1>7. /\ p \in Seq(Nat) /\ Len(p) = Sent(k) + Outgoing(k)
        /\ \A i \in DOMAIN p : p[i] = i
    BY <1>3, <1>4, Consecutive
  <1> HIDE DEF p
  <1>8. /\ q \in Seq(Nat) /\ Len(q) = Sent(k) + Outgoing(k) + Queued(k)
        /\ \A i \in DOMAIN q : q[i] = i
    BY <1>5, <1>7, Consecutive
  <1> HIDE DEF q
  <1>9. /\ Len(q \o inHand) = Sent(k) + Outgoing(k) + Queued(k) + InHand(k)
        /\ \A i \in DOMAIN (q \o inHand) : (q \o inHand)[i] = i
    BY <1>6, <1>8, Consecutive
  <1> QED
    BY <1>2, <1>9 DEF p, q, Total

\* The clients get the frames of each type in order and without a gap, however
\* the capturers, the merge and stopServer() interleave.
THEOREM Gapless == Spec => []GaplessStream
  <1>1. Control /\ Books => GaplessStream
    BY PipelineNumbered DEF Books, Ledger, GaplessStream
  <1> QED
    BY <1>1, ControlAlways, BooksAlways, PTL

\* No buffer is returned twice, and none is still out when the pools go: the
\* comment in streamServer.h lines 43-45.
THEOREM BuffersComeBack == Spec => []BuffersReturned
  <1>1. ASSUME Control, Books
        PROVE  BuffersReturned
    <2>1. ASSUME NEW k \in Types
          PROVE  outstanding[k] + Len(sent[k]) <= captured[k]
      <3>1. /\ outstanding[k] = Queued(k) + InHand(k) + Outgoing(k)
            /\ Total(k) <= captured[k]
        BY <1>1 DEF Books, Ledger
      <3>2. outstanding[k] + Sent(k) <= captured[k]
        BY <1>1, <3>1, Amounts DEF Total
      <3> QED
        BY <3>2 DEF Sent
    <2>2. ASSUME pc["MAIN"] = "destroyCapturers", NEW k \in Types
          PROVE  outstanding[k] = 0
      <3>1. que[k] = <<>> /\ hand[k] = None /\ outgoing = None
        BY <1>1, <2>2 DEF Control, Shutdown, Joined, Over, HandsAgree, Types
      <3>2. Queued(k) = 0 /\ InHand(k) = 0 /\ Outgoing(k) = 0
        BY <3>1, NoElements DEF Queued, InHand, Outgoing
      <3> QED
        BY <1>1, <3>2 DEF Books, Ledger
    <2> QED
      BY <2>1, <2>2 DEF BuffersReturned
  <1> QED
    BY <1>1, ControlAlways, BooksAlways, PTL

LEMMA TypesFollow == Control /\ Books => TypeOK
  <1> SUFFICES ASSUME Control, Books PROVE TypeOK
    OBVIOUS
  <1>1. ASSUME NEW k \in Types
        PROVE  outstanding[k] \in Nat
    <2>1. outstanding[k] = Queued(k) + InHand(k) + Outgoing(k)
      BY DEF Books, Ledger
    <2> QED
      BY <2>1, Amounts
  <1>2. outstanding \in [Types -> Nat]
    BY <1>1 DEF Books
  <1> QED
    BY <1>2 DEF Control, Typed, TypeOK

----
(* The merge takes the oldest frame.                                       *)

\* Each queue is ordered by time, the capturer's frame is newer, and the clock
\* only grows.
Ages ==
    \A k \in Types :
      /\ \A i, j \in DOMAIN que[k] : i <= j => que[k][i].pts <= que[k][j].pts
      /\ \A i \in DOMAIN que[k] : /\ que[k][i].pts <= clock
                                  /\ hand[k] # None => que[k][i].pts <= hand[k].pts
      /\ hand[k] # None => hand[k].pts <= clock

\* What the sums and comparisons below are about.
LEMMA TimesTyped ==
    ASSUME Control, NEW k \in Types
    PROVE  /\ clock \in Nat /\ que[k] \in Seq(Frames)
           /\ \A i \in DOMAIN que[k] : i \in Nat /\ que[k][i] \in Frames /\ que[k][i].pts \in Nat
           /\ hand[k] # None => hand[k] \in Frames /\ hand[k].pts \in Nat
  <1>1. /\ que[k] \in Seq(Frames) /\ hand[k] \in Frames \union {None}
        /\ clock \in 0..ClockBound
    BY DEF Control, Typed
  <1>2. \A i \in DOMAIN que[k] : i \in Nat /\ que[k][i] \in Frames
    BY <1>1, LenProperties
  <1> QED
    BY <1>1, <1>2, FrameFields, ServerConstants

LEMMA AgesNext == Control /\ Ages /\ [Next]_vars => Ages'
  <1> SUFFICES ASSUME Control, Ages, [Next]_vars PROVE Ages'
    OBVIOUS
  <1>0. /\ que \in [Types -> Seq(Frames)] /\ hand \in [Types -> Frames \union {None}]
        /\ \A k \in Types : pc[k] = "push" => hand[k] # None
    BY DEF Control, Typed, HandsAgree
  <1>1. ASSUME UNCHANGED <<que, hand>>, clock' = clock \/ clock' = clock + 1
        PROVE  Ages'
    <2>1. ASSUME NEW k \in Types
          PROVE  /\ \A i \in DOMAIN que[k] : que[k][i].pts <= clock'
                 /\ hand[k] # None => hand[k].pts <= clock'
      BY <1>1, TimesTyped DEF Ages
    <2> QED
      BY <1>1, <2>1 DEF Ages
  <1>2. ASSUME UNCHANGED <<hand, clock>>,
               \A k \in Types : que'[k] = que[k] \/ que'[k] = <<>>
        PROVE  Ages'
    BY <1>2, NoElements DEF Ages
  <1>3. ASSUME NEW k \in Types, Capture(k)
        PROVE  Ages'
    <2>1. /\ hand'[k].pts = clock /\ clock' = clock /\ que' = que
          /\ \A j \in Types \ {k} : hand'[j] = hand[j]
      BY <1>0, <1>3 DEF Capture, queues
    <2>2. clock <= clock
      BY TimesTyped
    <2> QED
      BY <2>1, <2>2 DEF Ages
  <1>4. ASSUME NEW k \in Types, QueueFrame(k)
        PROVE  Ages'
    <2>1. /\ hand[k] \in Frames /\ hand[k] # None /\ hand'[k] = None /\ clock' = clock
          /\ \A j \in Types \ {k} : hand'[j] = hand[j] /\ que'[j] = que[j]
          /\ que'[k] = que[k] \/ que'[k] = Append(que[k], hand[k])
      BY <1>0, <1>4 DEF QueueFrame
    <2>2. CASE que'[k] = que[k]
      BY <2>1, <2>2 DEF Ages
    <2>3. CASE que'[k] = Append(que[k], hand[k])
      <3> DEFINE n == Len(que[k])
      <3>1. /\ n \in Nat /\ DOMAIN que[k] = 1..n
            /\ \A i \in DOMAIN que'[k] :
                 \/ i \in DOMAIN que[k] /\ que'[k][i] = que[k][i]
                 \/ i = n + 1 /\ que'[k][i] = hand[k]
        BY <1>0, <2>1, <2>3, Appended, LenProperties
      <3> HIDE DEF n
      <3>2. \A i \in DOMAIN que'[k] : que'[k][i].pts <= hand[k].pts /\ que'[k][i].pts <= clock
        BY <2>1, <3>1, TimesTyped DEF Ages
      <3>3. \A i, j \in DOMAIN que'[k] : i <= j => que'[k][i].pts <= que'[k][j].pts
        <4> SUFFICES ASSUME NEW i \in DOMAIN que'[k], NEW j \in DOMAIN que'[k], i <= j
                     PROVE  que'[k][i].pts <= que'[k][j].pts
          OBVIOUS
        <4>1. CASE j \in DOMAIN que[k] /\ que'[k][j] = que[k][j]
          <5>1. i \in DOMAIN que[k] /\ que'[k][i] = que[k][i]
            BY <3>1, <4>1
          <5> QED
            BY <4>1, <5>1 DEF Ages
        <4>2. CASE j = n + 1 /\ que'[k][j] = hand[k]
          BY <3>2, <4>2
        <4> QED
          BY <3>1, <4>1, <4>2
      <3> QED
        BY <2>1, <3>2, <3>3 DEF Ages
    <2> QED
      BY <2>1, <2>2, <2>3
  <1>5. ASSUME NEW k \in Types, Pop(k)
        PROVE  Ages'
    <2>1. /\ que[k] # <<>> /\ que'[k] = Tail(que[k])
          /\ \A j \in Types \ {k} : que'[j] = que[j]
          /\ UNCHANGED <<hand, clock>>
      BY <1>0, <1>5 DEF Pop, Empty, capturing
    <2>2. \A i \in DOMAIN que'[k] :
            i \in Nat /\ i + 1 \in DOMAIN que[k] /\ que'[k][i] = que[k][i + 1]
      BY <1>0, <2>1, Shortened
    <2>3. \A i, j \in DOMAIN que'[k] : i <= j => que'[k][i].pts <= que'[k][j].pts
      <3> SUFFICES ASSUME NEW i \in DOMAIN que'[k], NEW j \in DOMAIN que'[k], i <= j
                   PROVE  que'[k][i].pts <= que'[k][j].pts
        OBVIOUS
      <3>1. i + 1 <= j + 1
        BY <2>2
      <3> QED
        BY <2>2, <3>1 DEF Ages
    <2>4. \A i \in DOMAIN que'[k] : /\ que'[k][i].pts <= clock
                                    /\ hand[k] # None => que'[k][i].pts <= hand[k].pts
      BY <2>2 DEF Ages
    <2> QED
      BY <2>1, <2>3, <2>4 DEF Ages
  <1>6. CASE Tick \/ PushLoop \/ AskQueues \/ VisitFronts \/ ChooseOldest \/ Send
             \/ Signal \/ WatcherFails \/ UNCHANGED vars
    BY <1>1, <1>6 DEF Tick, PushLoop, AskQueues, Ask, VisitFronts, ChooseOldest, Send,
                      Signal, WatcherFails, vars, queues, capturing
  <1>7. ASSUME NEW k \in Types, CaptureLoop(k) \/ CaptureNothing(k)
        PROVE  Ages'
    BY <1>1, <1>7 DEF CaptureLoop, CaptureNothing, queues, capturing
  <1>8. CASE StopServer
    <2>1. /\ UNCHANGED <<hand, clock>>
          /\ que' = que \/ \E k \in Types : que' = [que EXCEPT ![k] = <<>>]
      BY <1>8 DEF StopServer, RequestExit, CloseQue, Wait, Drain, Quit, queues, capturing, Types
    <2> QED
      BY <1>0, <1>2, <2>1
  <1>9. CASE MainStep
    <2>1. /\ UNCHANGED <<hand, clock>>
          /\ que' = que \/ que' = [k \in Types |-> <<>>]
      BY <1>9 DEF MainStep, Start, JoinWatcher, DestroyQueues, DestroyCapturers,
                  queues, capturing
    <2> QED
      BY <1>2, <2>1
  <1> QED
    BY <1>3, <1>4, <1>5, <1>6, <1>7, <1>8, <1>9 DEF Next, CapturerStep, PushStep, Exited

QueueTimes(k) == {que[k][i].pts : i \in DOMAIN que[k]}
Front(k)      == que[k][1].pts

LEMMA TwoQueues == QueuedTimes = QueueTimes("VIDEO") \union QueueTimes("AUDIO")
  BY DEF QueuedTimes, QueueTimes, Types

LEMMA FrontIsOldest ==
    ASSUME Control, Ages, NEW k \in Types, ~Empty(k)
    PROVE  /\ Head(que[k]) = que[k][1] /\ FrontTime(k) = Front(k)
           /\ 1 \in DOMAIN que[k] /\ Front(k) \in Nat
           /\ \A t \in QueueTimes(k) : t \in Nat /\ Front(k) <= t
  <1>1. que[k] \in Seq(Frames) /\ que[k] # <<>>
    BY DEF Control, Typed, Empty
  <1>2. Head(que[k]) = que[k][1] /\ 1 \in DOMAIN que[k]
    BY <1>1, Shortened
  <1>3. \A i \in DOMAIN que[k] : 1 <= i
    BY <1>1, LenProperties
  <1>4. \A i \in DOMAIN que[k] : que[k][1].pts <= que[k][i].pts
    BY <1>2, <1>3 DEF Ages
  <1> QED
    BY <1>2, <1>4, TimesTyped DEF Front, FrontTime, QueueTimes, Empty

\* What the push thread knows about the frames that were queued when it called
\* getFrame(): they still are, until it takes the oldest of them.
OldestSoFar ==
    /\ pc["PUSH"] \in MergeLabels => seen \subseteq QueuedTimes
    /\ pc["PUSH"] = "117audio" => seen \subseteq QueueTimes("AUDIO")
    /\ pc["PUSH"] \in {"frontAudio", "choose"} => frontPts["VIDEO"] = Front("VIDEO")
    /\ pc["PUSH"] = "choose" => frontPts["AUDIO"] = Front("AUDIO")
    /\ pc["PUSH"] = "popVideo" => \A t \in seen : Front("VIDEO") <= t
    /\ pc["PUSH"] = "popAudio" => \A t \in seen : Front("AUDIO") <= t
    /\ pc["PUSH"] = "send" => \A t \in seen : outgoing.pts <= t

LEMMA OldestSoFarNext ==
    Control /\ SomeFrame /\ Ages /\ OldestSoFar /\ [Next]_vars => OldestSoFar'
  <1> SUFFICES ASSUME Control, SomeFrame, Ages, OldestSoFar, [Next]_vars
               PROVE  OldestSoFar'
    OBVIOUS
  <1>0. /\ DOMAIN pc = Threads /\ pc["PUSH"] \in PushLabels
        /\ \A k \in Types : que[k] \in Seq(Frames)
        /\ \A k \in Types : pc[k] = "push" => hand[k] \in Frames
        /\ "PUSH" \in Threads
    BY DEF Control, Typed, HandsAgree, Threads
  <1>1. ASSUME pc'["PUSH"] \in {"none", "loop", "finished"}
        PROVE  OldestSoFar'
    BY <1>1 DEF OldestSoFar, MergeLabels
  <1>2. CASE \/ Tick \/ Signal \/ WatcherFails \/ StopServer \/ MainStep
             \/ \E k \in Types : CapturerStep(k)
             \/ UNCHANGED vars
    <2>1. /\ UNCHANGED <<outgoing, frontPts, sent, seen>>
          /\ pc'["PUSH"] = pc["PUSH"] \/ pc'["PUSH"] = "loop"
          /\ \A k \in Types : \/ que'[k] = que[k]
                              \/ pc[k] = "push" /\ que'[k] = Append(que[k], hand[k])
                              \/ pc["PUSH"] = "finished"
      BY <1>2, OtherThreads DEF merging
    <2>2. CASE pc'["PUSH"] = "loop" \/ pc["PUSH"] = "finished"
      BY <1>1, <2>1, <2>2
    <2>3. CASE pc'["PUSH"] = pc["PUSH"] /\ pc["PUSH"] # "finished"
      <3>1. ASSUME NEW k \in Types
            PROVE  \A i \in DOMAIN que[k] : i \in DOMAIN que'[k] /\ que'[k][i] = que[k][i]
        BY <1>0, <2>1, <2>3, Appended
      <3>2. \A k \in Types : QueueTimes(k) \subseteq QueueTimes(k)'
        BY <3>1 DEF QueueTimes
      <3>3. \A k \in Types : ~Empty(k) => Front(k)' = Front(k)
        BY <3>1, FrontIsOldest DEF Front
      <3>4. QueuedTimes \subseteq QueuedTimes'
        BY <3>1 DEF QueuedTimes
      <3> QED
        BY <2>1, <2>3, <3>2, <3>3, <3>4 DEF OldestSoFar, SomeFrame, Types
    <2> QED
      BY <2>1, <2>2, <2>3
  <1>3. CASE PushLoop
    BY <1>0, <1>3 DEF PushLoop, Goto, OldestSoFar, MergeLabels, QueuedTimes, queues
  <1>4. CASE AskQueues
    <2>1. /\ UNCHANGED <<que, seen, outgoing, frontPts>>
          /\ QueuedTimes' = QueuedTimes
          /\ \A k \in Types : QueueTimes(k)' = QueueTimes(k) /\ Front(k)' = Front(k)
      BY <1>4 DEF AskQueues, Ask, queues, merging, QueuedTimes, QueueTimes, Front
    <2>2. CASE pc["PUSH"] \in {"109video", "109audio", "113video"}
      <3>1. /\ seen \subseteq QueuedTimes
            /\ pc'["PUSH"] \in {"loop", "109audio", "113video", "113audio", "117video"}
        BY <1>0, <1>4, <2>2 DEF AskQueues, Ask, Goto, OldestSoFar, MergeLabels
      <3> QED
        BY <2>1, <3>1 DEF OldestSoFar
    <2>3. CASE pc["PUSH"] = "113audio"
      <3>1. /\ seen \subseteq QueuedTimes
            /\ \/ pc'["PUSH"] = "popVideo" /\ Empty("AUDIO")
               \/ pc'["PUSH"] = "117video"
        BY <1>0, <1>4, <2>3 DEF AskQueues, Ask, Goto, OldestSoFar, MergeLabels
      <3>2. Empty("AUDIO") => QueueTimes("AUDIO") = {}
        BY NoElements DEF Empty, QueueTimes
      <3>3. Empty("AUDIO") => seen \subseteq QueueTimes("VIDEO")
        BY <3>1, <3>2, TwoQueues
      <3>4. \A t \in QueueTimes("VIDEO") : Front("VIDEO") <= t
        BY <2>3, FrontIsOldest DEF SomeFrame, Types
      <3>5. Front("VIDEO")' = Front("VIDEO")
        BY <2>1 DEF Types
      <3> QED
        BY <2>1, <3>1, <3>3, <3>4, <3>5 DEF OldestSoFar
    <2>4. CASE pc["PUSH"] = "117video"
      <3>1. /\ seen \subseteq QueuedTimes
            /\ \/ pc'["PUSH"] = "117audio" /\ Empty("VIDEO")
               \/ pc'["PUSH"] = "frontVideo"
        BY <1>0, <1>4, <2>4 DEF AskQueues, Ask, Goto, OldestSoFar, MergeLabels
      <3>2. Empty("VIDEO") => QueueTimes("VIDEO") = {}
        BY NoElements DEF Empty, QueueTimes
      <3>3. Empty("VIDEO") => seen \subseteq QueueTimes("AUDIO")
        BY <3>1, <3>2, TwoQueues
      <3>4. QueueTimes("AUDIO")' = QueueTimes("AUDIO")
        BY <2>1 DEF Types
      <3> QED
        BY <2>1, <3>1, <3>3, <3>4 DEF OldestSoFar
    <2>5. CASE pc["PUSH"] = "117audio"
      <3>1. /\ seen \subseteq QueueTimes("AUDIO") /\ seen \subseteq QueuedTimes
            /\ pc'["PUSH"] \in {"popAudio", "frontVideo"}
        BY <1>0, <1>4, <2>5 DEF AskQueues, Ask, Goto, OldestSoFar, MergeLabels
      <3>2. \A t \in QueueTimes("AUDIO") : Front("AUDIO") <= t
        BY <2>5, FrontIsOldest DEF SomeFrame, Types
      <3>3. Front("AUDIO")' = Front("AUDIO")
        BY <2>1 DEF Types
      <3> QED
        BY <2>1, <3>1, <3>2, <3>3 DEF OldestSoFar
    <2> QED
      BY <1>4, <2>2, <2>3, <2>4, <2>5 DEF AskQueues, Ask
  <1>5. CASE VisitFronts
    <2>1. /\ UNCHANGED <<que, seen, outgoing>>
          /\ \/ /\ pc["PUSH"] = "frontVideo" /\ pc'["PUSH"] = "frontAudio"
                /\ frontPts' = [frontPts EXCEPT !["VIDEO"] = FrontTime("VIDEO")]
             \/ /\ pc["PUSH"] = "frontAudio" /\ pc'["PUSH"] = "choose"
                /\ frontPts' = [frontPts EXCEPT !["AUDIO"] = FrontTime("AUDIO")]
      BY <1>0, <1>5 DEF VisitFronts, Goto, queues
    <2>2. FrontTime("VIDEO") = Front("VIDEO") /\ FrontTime("AUDIO") = Front("AUDIO")
      BY <2>1, FrontIsOldest DEF SomeFrame, Types
    <2>3. seen \subseteq QueuedTimes
      BY <2>1 DEF OldestSoFar, MergeLabels
    <2>4. /\ QueuedTimes' = QueuedTimes
          /\ Front("VIDEO")' = Front("VIDEO") /\ Front("AUDIO")' = Front("AUDIO")
      BY <2>1 DEF QueuedTimes, Front
    <2>5. frontPts \in [Types -> 0..ClockBound]
      BY DEF Control, Typed
    <2> QED
      BY <2>1, <2>2, <2>3, <2>4, <2>5 DEF OldestSoFar, Types
  <1>6. CASE ChooseOldest
    <2>1. /\ UNCHANGED <<que, seen, outgoing>> /\ pc["PUSH"] = "choose"
          /\ pc'["PUSH"] = IF frontPts["AUDIO"] < frontPts["VIDEO"]
                             THEN "popAudio" ELSE "popVideo"
      BY <1>0, <1>6 DEF ChooseOldest, Goto, queues
    <2>2. /\ seen \subseteq QueueTimes("VIDEO") \union QueueTimes("AUDIO")
          /\ frontPts["VIDEO"] = Front("VIDEO") /\ frontPts["AUDIO"] = Front("AUDIO")
      BY <2>1, TwoQueues DEF OldestSoFar, MergeLabels
    <2>3. /\ Front("VIDEO") \in Nat /\ Front("AUDIO") \in Nat
          /\ \A t \in QueueTimes("VIDEO") : t \in Nat /\ Front("VIDEO") <= t
          /\ \A t \in QueueTimes("AUDIO") : t \in Nat /\ Front("AUDIO") <= t
      BY <2>1, FrontIsOldest DEF SomeFrame, Types
    <2>4. /\ pc'["PUSH"] = "popAudio" => \A t \in seen : Front("AUDIO") <= t
          /\ pc'["PUSH"] = "popVideo" => \A t \in seen : Front("VIDEO") <= t
      BY <2>1, <2>2, <2>3
    <2>5. /\ QueuedTimes' = QueuedTimes
          /\ Front("VIDEO")' = Front("VIDEO") /\ Front("AUDIO")' = Front("AUDIO")
      BY <2>1 DEF QueuedTimes, Front
    <2> QED
      BY <2>1, <2>2, <2>4, <2>5, TwoQueues DEF OldestSoFar
  <1>7. ASSUME NEW k \in Types, Pop(k)
        PROVE  OldestSoFar'
    <2>1. /\ ~Empty(k) /\ outgoing' = Head(que[k]) /\ seen' = seen
          /\ pc["PUSH"] = (IF k = "VIDEO" THEN "popVideo" ELSE "popAudio")
          /\ pc'["PUSH"] = "send"
      BY <1>0, <1>7 DEF Pop, Goto
    <2>2. outgoing'.pts = Front(k)
      BY <2>1, FrontIsOldest DEF Front
    <2>3. \A t \in seen : Front(k) <= t
      BY <2>1 DEF OldestSoFar, Types
    <2> QED
      BY <2>1, <2>2, <2>3 DEF OldestSoFar, MergeLabels
  <1>8. CASE Send
    BY <1>0, <1>1, <1>8 DEF Send, Goto
  <1> QED
    BY <1>2, <1>3, <1>4, <1>5, <1>6, <1>7, <1>8 DEF Next, PushStep, Exited

\* The types, and the order of the merge: no frame that was queued when
\* getFrame() was called is older than the frame it returns.
THEOREM MergeInOrder == Spec => []ServerInv
  <1>1. Init => SomeFrame
    BY DEF Init, SomeFrame, Threads
  <1>2. Init => Ages
    BY NoElements DEF Init, Ages
  <1>3. Init => OldestSoFar
    BY DEF Init, OldestSoFar, Threads, MergeLabels
  <1>4. OldestSoFar => OldestFirst
    BY DEF OldestSoFar, OldestFirst
  <1>5. Spec => []SomeFrame
    BY <1>1, ControlAlways, SomeFrameNext, PTL DEF Spec
  <1>6. Spec => []Ages
    BY <1>2, ControlAlways, AgesNext, PTL DEF Spec
  <1>7. Spec => []OldestSoFar
    BY <1>3, <1>5, <1>6, ControlAlways, OldestSoFarNext, PTL DEF Spec
  <1> QED
    BY <1>4, <1>7, ControlAlways, BooksAlways, TypesFollow, PTL DEF ServerInv

=============================================================================
