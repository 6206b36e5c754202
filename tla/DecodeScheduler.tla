--------------------------- MODULE DecodeScheduler ---------------------------
(***************************************************************************)
(* The client's DecodeScheduler (streamClient/src/client/                  *)
(* decodeScheduler.cpp): the network thread puts the frames of every       *)
(* stream into a bounded queue of that stream and a token for the stream   *)
(* into readyQue_; a pool of workers takes tokens, decodes one frame for   *)
(* each, and puts the token back while the stream's queue is not empty.    *)
(*                                                                         *)
(* A step is what one thread does between two lock operations.  The queues *)
(* have locks of their own (module ConcurrentQueue), so try_push, pop and  *)
(* close are single steps here; mtx_ is held across steps only by stop().  *)
(* The decoders and the sinks are one step: they return.                   *)
(***************************************************************************)
EXTENDS Naturals, Sequences, FiniteSets

CONSTANTS
    Streams,     \* stream IDs, 0 .. MAX_STREAM_COUNT-1 in the code
    Workers,     \* the threads of threads_
    MAX_FRAMES,  \* capacity of a stream's queue
    FrameTypes,  \* the kinds of frame the streams carry
    FrameBound,  \* bound: frames the network delivers per stream
    None         \* no stream, no frame

VARIABLES
    streamsQues_,    \* the queued frames of every stream
    closed,          \* closed_ of every stream's queue
    readyQue_,       \* tokens: streams a worker should look at
    inFlight_,       \* streams a worker holds
    dropCount_,      \* frames a full or closed queue refused
    audioStreamID_,  \* the stream whose audio is played
    decoders_,       \* the decoders created so far, per stream
    stopRequested,   \* the workers' stop_tokens, set together under mtx_
    netStream,       \* handle(): stream whose frame is queued but not announced
    received,        \* how many frames of each stream have arrived
    pc,              \* where each worker is in workerLoop()
    held,            \* the worker's local streamID
    frame,           \* the worker's local frame, until it is decoded
    mainPc,          \* the main thread, in and around stop()
    handled,         \* history: frames whose handling has ended, in order
    staleAudio       \* history: audio frames decoded since deselection

netVars  == <<netStream, received, dropCount_>>
uiVars   == <<audioStreamID_>>
history  == <<handled, staleAudio>>
mainVars == <<stopRequested, mainPc>>
worker   == <<pc, held, frame>>
vars     == <<streamsQues_, closed, readyQue_, inFlight_, decoders_, netVars,
              uiVars, history, mainVars, worker>>

----

ASSUME ConstantsAssumption ==
    /\ IsFiniteSet(Workers)
    /\ None \notin Streams
    /\ MAX_FRAMES \in Nat \ {0}
    /\ FrameTypes \subseteq {"VIDEO", "AUDIO"}
    /\ FrameBound \in Nat

\* A frame is its arrival number in its stream and its type.
Frames == [id : 1..FrameBound, type : FrameTypes]

ASSUME FrameAssumption == None \notin Frames

Init ==
    /\ streamsQues_ = [s \in Streams |-> <<>>]
    /\ closed = [s \in Streams |-> FALSE]
    /\ readyQue_ = <<>>
    /\ inFlight_ = {}
    /\ dropCount_ = [s \in Streams |-> 0]
    /\ audioStreamID_ \in Streams        \* whichever stream has ID 0
    /\ decoders_ = [s \in Streams |-> {}]
    /\ stopRequested = FALSE
    /\ netStream = None
    /\ received = [s \in Streams |-> 0]
    /\ pc = [w \in Workers |-> "loop"]
    /\ held = [w \in Workers |-> None]
    /\ frame = [w \in Workers |-> None]
    /\ mainPc = "running"
    /\ handled = [s \in Streams |-> <<>>]
    /\ staleAudio = [s \in Streams |-> 0]

----
(* mtx_ and cv_.                                                           *)

\* Only stop() holds mtx_ across steps, while it closes the queues.
MtxFree == mainPc # "closing"

InReady(s) == \E i \in DOMAIN readyQue_ : readyQue_[i] = s

Waiting == {w \in Workers : pc[w] = "waiting"}

\* notify_one: one waiting worker, any of them, must look at cv_'s predicate
\* again; nothing is remembered when nobody waits.
NotifyOne(p) ==
    LET waiters == {w \in Workers : p[w] = "waiting"}
    IN IF waiters = {} THEN {p} ELSE {[p EXCEPT ![w] = "woken"] : w \in waiters}

NotifyAll(p) == [w \in Workers |-> IF p[w] = "waiting" THEN "woken" ELSE p[w]]

----
(* The network thread: handle().                                           *)

\* Variants with one bug each are named ..Bug; they are not part of Next, and
\* show that the properties below notice the bug.

\* Bug: the queue takes one frame too many.
ReceiveBug(s, type) ==
    /\ netStream = None
    /\ received[s] < FrameBound
    /\ received' = [received EXCEPT ![s] = @ + 1]
    /\ closed[s] = FALSE /\ Len(streamsQues_[s]) <= MAX_FRAMES
    /\ streamsQues_' = [streamsQues_ EXCEPT
           ![s] = Append(@, [id |-> received[s] + 1, type |-> type])]
    /\ netStream' = s
    /\ UNCHANGED <<closed, readyQue_, inFlight_, decoders_, uiVars, history,
                   mainVars, worker, dropCount_>>

\* try_push of the frame; a full or closed queue costs the frame.
Receive(s, type) ==
    /\ netStream = None
    /\ received[s] < FrameBound
    /\ received' = [received EXCEPT ![s] = @ + 1]
    /\ IF closed[s] \/ Len(streamsQues_[s]) >= MAX_FRAMES
         THEN /\ dropCount_' = [dropCount_ EXCEPT ![s] = @ + 1]
              /\ UNCHANGED <<streamsQues_, netStream>>
         ELSE /\ streamsQues_' = [streamsQues_ EXCEPT
                     ![s] = Append(@, [id |-> received[s] + 1, type |-> type])]
              /\ netStream' = s
              /\ UNCHANGED dropCount_
    /\ UNCHANGED <<closed, readyQue_, inFlight_, decoders_, uiVars, history,
                   mainVars, worker>>

\* Bug: only readyQue_ is searched, not inFlight_.
AnnounceTwiceBug ==
    /\ netStream # None
    /\ MtxFree
    /\ IF InReady(netStream)
         THEN UNCHANGED <<readyQue_, pc>>
         ELSE /\ readyQue_' = Append(readyQue_, netStream)
              /\ pc' \in NotifyOne(pc)
    /\ netStream' = None
    /\ UNCHANGED <<streamsQues_, closed, inFlight_, decoders_, received,
                   dropCount_, uiVars, history, mainVars, held, frame>>

\* Bug: nobody is notified of the token.
AnnounceSilentBug ==
    /\ netStream # None
    /\ MtxFree
    /\ readyQue_' = IF netStream \in inFlight_ \/ InReady(netStream)
                      THEN readyQue_ ELSE Append(readyQue_, netStream)
    /\ netStream' = None
    /\ UNCHANGED <<streamsQues_, closed, inFlight_, decoders_, received,
                   dropCount_, uiVars, history, mainVars, worker>>

\* Then, under mtx_: a token for the stream unless it has one or is held.
Announce ==
    /\ netStream # None
    /\ MtxFree
    /\ IF netStream \in inFlight_ \/ InReady(netStream)
         THEN UNCHANGED <<readyQue_, pc>>
         ELSE /\ readyQue_' = Append(readyQue_, netStream)
              /\ pc' \in NotifyOne(pc)
    /\ netStream' = None
    /\ UNCHANGED <<streamsQues_, closed, inFlight_, decoders_, received,
                   dropCount_, uiVars, history, mainVars, held, frame>>

----
(* A worker: workerLoop().                                                 *)

\* The loop condition, read without mtx_.
LoopTest(w) ==
    /\ pc[w] = "loop"
    /\ pc' = [pc EXCEPT ![w] = IF stopRequested THEN "exited" ELSE "enter"]
    /\ UNCHANGED <<streamsQues_, closed, readyQue_, inFlight_, decoders_,
                   netVars, uiVars, history, mainVars, held, frame>>

\* The worker has mtx_, on entry or because it was woken.
HasMtx(w) == pc[w] \in {"enter", "woken"} /\ MtxFree

Wait(w) ==
    /\ HasMtx(w)
    /\ ~stopRequested
    /\ readyQue_ = <<>>
    /\ pc' = [pc EXCEPT ![w] = "waiting"]
    /\ UNCHANGED <<streamsQues_, closed, readyQue_, inFlight_, decoders_,
                   netVars, uiVars, history, mainVars, held, frame>>

SpuriousWakeup(w) ==
    /\ pc[w] = "waiting"
    /\ pc' = [pc EXCEPT ![w] = "woken"]
    /\ UNCHANGED <<streamsQues_, closed, readyQue_, inFlight_, decoders_,
                   netVars, uiVars, history, mainVars, held, frame>>

Break(w) ==
    /\ HasMtx(w)
    /\ stopRequested
    /\ readyQue_ = <<>>
    /\ pc' = [pc EXCEPT ![w] = "exited"]
    /\ UNCHANGED <<streamsQues_, closed, readyQue_, inFlight_, decoders_,
                   netVars, uiVars, history, mainVars, held, frame>>

\* Bug: the stream is not entered into inFlight_.
TakeTokenBug(w) ==
    /\ HasMtx(w)
    /\ readyQue_ # <<>>
    /\ held' = [held EXCEPT ![w] = Head(readyQue_)]
    /\ readyQue_' = Tail(readyQue_)
    /\ pc' = [pc EXCEPT ![w] = "pop"]
    /\ UNCHANGED <<streamsQues_, closed, inFlight_, decoders_, netVars, uiVars,
                   history, mainVars, frame>>

TakeToken(w) ==
    /\ HasMtx(w)
    /\ readyQue_ # <<>>
    /\ held' = [held EXCEPT ![w] = Head(readyQue_)]
    /\ readyQue_' = Tail(readyQue_)
    /\ inFlight_' = inFlight_ \union {Head(readyQue_)}
    /\ pc' = [pc EXCEPT ![w] = "pop"]
    /\ UNCHANGED <<streamsQues_, closed, decoders_, netVars, uiVars, history,
                   mainVars, frame>>

\* pop() of the stream's queue: it blocks while the queue is open and empty.
PopFrame(w) ==
    LET s == held[w]
        f == Head(streamsQues_[s])
    IN /\ pc[w] = "pop"
       /\ streamsQues_[s] # <<>>
       /\ streamsQues_' = [streamsQues_ EXCEPT ![s] = Tail(@)]
       /\ frame' = [frame EXCEPT ![w] = f]
       /\ decoders_' = [decoders_ EXCEPT ![s] = @ \union {f.type}]
       /\ pc' = [pc EXCEPT ![w] = IF f.type = "VIDEO" THEN "decode" ELSE "select"]
       /\ UNCHANGED <<closed, readyQue_, inFlight_, netVars, uiVars, history,
                      mainVars, held>>

PopClosed(w) ==
    /\ pc[w] = "pop"
    /\ streamsQues_[held[w]] = <<>>
    /\ closed[held[w]]
    /\ pc' = [pc EXCEPT ![w] = "finish"]
    /\ UNCHANGED <<streamsQues_, closed, readyQue_, inFlight_, decoders_,
                   netVars, uiVars, history, mainVars, held, frame>>

\* The worker is done with its frame.
Handled(w) ==
    /\ handled' = [handled EXCEPT ![held[w]] = Append(@, frame[w])]
    /\ frame' = [frame EXCEPT ![w] = None]
    /\ pc' = [pc EXCEPT ![w] = "finish"]

\* Bug: audio is decoded whatever stream is selected.
CheckSelectedBug(w) ==
    /\ pc[w] = "select"
    /\ MtxFree
    /\ pc' = [pc EXCEPT ![w] = "decode"]
    /\ UNCHANGED <<streamsQues_, closed, readyQue_, inFlight_, decoders_,
                   netVars, uiVars, history, mainVars, held, frame>>

\* Audio only: is this stream the selected one?  The answer is used after
\* mtx_ is released.
CheckSelected(w) ==
    /\ pc[w] = "select"
    /\ MtxFree
    /\ IF audioStreamID_ = held[w]
         THEN /\ pc' = [pc EXCEPT ![w] = "decode"]
              /\ UNCHANGED <<handled, frame>>
         ELSE Handled(w)
    /\ UNCHANGED <<streamsQues_, closed, readyQue_, inFlight_, decoders_,
                   netVars, uiVars, staleAudio, mainVars, held>>

Decode(w) ==
    LET stale == frame[w].type = "AUDIO" /\ audioStreamID_ # held[w]
    IN /\ pc[w] = "decode"
       /\ Handled(w)
       /\ staleAudio' = IF stale THEN [staleAudio EXCEPT ![held[w]] = @ + 1]
                                 ELSE staleAudio
       /\ UNCHANGED <<streamsQues_, closed, readyQue_, inFlight_, decoders_,
                      netVars, uiVars, mainVars, held>>

\* Bug: the stream's remaining frames get no token.
FinishBug(w) ==
    /\ pc[w] = "finish"
    /\ MtxFree
    /\ inFlight_' = inFlight_ \ {held[w]}
    /\ pc' = [pc EXCEPT ![w] = "loop"]
    /\ held' = [held EXCEPT ![w] = None]
    /\ UNCHANGED <<streamsQues_, closed, readyQue_, decoders_, netVars, uiVars,
                   history, mainVars, frame>>

\* Under mtx_: let go of the stream, with a token if it has frames left.
Finish(w) ==
    LET s     == held[w]
        atTop == [pc EXCEPT ![w] = "loop"]
    IN /\ pc[w] = "finish"
       /\ MtxFree
       /\ inFlight_' = inFlight_ \ {s}
       /\ IF streamsQues_[s] # <<>>
            THEN /\ readyQue_' = Append(readyQue_, s)
                 /\ pc' \in NotifyOne(atTop)
            ELSE /\ pc' = atTop
                 /\ UNCHANGED readyQue_
       /\ held' = [held EXCEPT ![w] = None]
       /\ UNCHANGED <<streamsQues_, closed, decoders_, netVars, uiVars,
                      history, mainVars, frame>>

WorkerStep(w) ==
    \/ LoopTest(w)
    \/ Wait(w)
    \/ Break(w)
    \/ TakeToken(w)
    \/ PopFrame(w)
    \/ PopClosed(w)
    \/ CheckSelected(w)
    \/ Decode(w)
    \/ Finish(w)

----
(* The main thread: setAudioStreamID() from the window, then stop().       *)

SelectAudio(s) ==
    /\ mainPc = "running"
    /\ s # audioStreamID_
    /\ audioStreamID_' = s
    /\ staleAudio' = [staleAudio EXCEPT ![audioStreamID_] = 0]
    /\ UNCHANGED <<streamsQues_, closed, readyQue_, inFlight_, decoders_,
                   netVars, handled, mainVars, worker>>

\* stop() takes mtx_, drops every token and requests the workers to stop.
StopBegin ==
    /\ mainPc = "running"
    /\ readyQue_' = <<>>
    /\ stopRequested' = TRUE
    /\ mainPc' = "closing"
    /\ UNCHANGED <<streamsQues_, closed, inFlight_, decoders_, netVars, uiVars,
                   history, worker>>

\* One queue after the other, while workers and the network still use them.
CloseQueue(s) ==
    /\ mainPc = "closing"
    /\ ~closed[s]
    /\ closed' = [closed EXCEPT ![s] = TRUE]
    /\ UNCHANGED <<streamsQues_, readyQue_, inFlight_, decoders_, netVars,
                   uiVars, history, mainVars, worker>>

\* Bug: the waiting workers are not notified.
StopNotifyBug ==
    /\ mainPc = "closing"
    /\ \A s \in Streams : closed[s]
    /\ mainPc' = "joining"
    /\ UNCHANGED <<streamsQues_, closed, readyQue_, inFlight_, decoders_,
                   netVars, uiVars, history, stopRequested, worker>>

\* All queues closed: notify_all, and mtx_ is released.
StopNotify ==
    /\ mainPc = "closing"
    /\ \A s \in Streams : closed[s]
    /\ pc' = NotifyAll(pc)
    /\ mainPc' = "joining"
    /\ UNCHANGED <<streamsQues_, closed, readyQue_, inFlight_, decoders_,
                   netVars, uiVars, history, stopRequested, held, frame>>

Join ==
    /\ mainPc = "joining"
    /\ \A w \in Workers : pc[w] = "exited"
    /\ mainPc' = "stopped"
    /\ UNCHANGED <<streamsQues_, closed, readyQue_, inFlight_, decoders_,
                   netVars, uiVars, history, stopRequested, worker>>

StopStep == (\E s \in Streams : CloseQueue(s)) \/ StopNotify \/ Join

\* After stop() the scheduler is quiet.
Stopped == mainPc = "stopped" /\ UNCHANGED vars

----

Next ==
    \/ \E s \in Streams, t \in FrameTypes : Receive(s, t)
    \/ Announce
    \/ \E w \in Workers : WorkerStep(w) \/ SpuriousWakeup(w)
    \/ \E s \in Streams : SelectAudio(s)
    \/ StopBegin
    \/ StopStep
    \/ Stopped

Spec == Init /\ [][Next]_vars

\* The threads that have something to do get to do it: a worker, the network
\* thread inside handle(), the main thread inside stop().  Frames, selections,
\* the wish to stop and spurious wakeups need never come.
Fairness ==
    /\ \A w \in Workers : WF_vars(WorkerStep(w))
    /\ WF_vars(Announce)
    /\ WF_vars(StopStep)

FairSpec == Spec /\ Fairness

----
(* Properties.                                                             *)

WorkerStates == {"loop", "enter", "waiting", "woken", "pop", "select",
                 "decode", "finish", "exited"}
HoldingStates == {"pop", "select", "decode", "finish"}
InHandStates  == {"select", "decode"}

\* Every variable has its type, and no queue exceeds its capacity: the fields
\* of DecodeScheduler and the locals of handle(), workerLoop() and stop().
TypeOK ==
    /\ streamsQues_ \in [Streams -> Seq(Frames)]
    /\ \A s \in Streams : Len(streamsQues_[s]) <= MAX_FRAMES
    /\ closed \in [Streams -> BOOLEAN]
    /\ readyQue_ \in Seq(Streams)
    /\ inFlight_ \subseteq Streams
    /\ dropCount_ \in [Streams -> Nat]
    /\ audioStreamID_ \in Streams
    /\ decoders_ \in [Streams -> SUBSET FrameTypes]
    /\ stopRequested \in BOOLEAN
    /\ netStream \in Streams \union {None}
    /\ received \in [Streams -> 0..FrameBound]
    /\ pc \in [Workers -> WorkerStates]
    /\ held \in [Workers -> Streams \union {None}]
    /\ frame \in [Workers -> Frames \union {None}]
    /\ mainPc \in {"running", "closing", "joining", "stopped"}
    /\ handled \in [Streams -> Seq(Frames)]
    /\ staleAudio \in [Streams -> Nat]

\* Part of TokenInv: a worker holds a stream, and has a frame, exactly where
\* the code uses them.
LocalsAgree ==
    /\ \A w \in Workers : held[w] # None <=> pc[w] \in HoldingStates
    /\ \A w \in Workers : frame[w] # None <=> pc[w] \in InHandStates

\* Part of TokenInv: inFlight_ is the set of the streams that workers hold.
InFlightHeld ==
    /\ \A w \in Workers : held[w] # None => held[w] \in inFlight_
    /\ \A s \in inFlight_ : \E w \in Workers : held[w] = s

\* Part of TokenInv: no stream has two tokens, waiting or held.
TokenUnique ==
    /\ \A i, j \in DOMAIN readyQue_ : readyQue_[i] = readyQue_[j] => i = j
    /\ \A i \in DOMAIN readyQue_ : readyQue_[i] \notin inFlight_
    /\ \A v, w \in Workers : held[v] # None /\ held[v] = held[w] => v = w

\* A stream has at most one token, in readyQue_ or in a worker's hand, and
\* inFlight_ is exactly what the workers hold: line 86 tests the two containers
\* to keep a stream out of two threads (the comment at line 85).
TokenInv == LocalsAgree /\ InFlightHeld /\ TokenUnique

\* The decoders and the sink of a stream, which no lock protects, are used by
\* at most one worker at a time, and a worker that uses them finds the decoder
\* of its frame's type in place (line 85 against lines 109-137).
OneWorkerPerStream ==
    /\ \A v, w \in Workers :
         pc[v] \in HoldingStates /\ pc[w] \in HoldingStates /\ held[v] = held[w]
           => v = w
    /\ \A w \in Workers :
         pc[w] \in InHandStates => frame[w].type \in decoders_[held[w]]

\* Until stop() a stream with queued frames has a token, or handle() is about
\* to give it one: the test of empty() at line 142 and the test of inFlight_
\* and readyQue_ at line 86 never both miss a frame.
NoStrandedFrame ==
    \A s \in Streams :
      streamsQues_[s] # <<>> /\ ~stopRequested
        => InReady(s) \/ s \in inFlight_ \/ netStream = s

\* While a worker waits, there are at least as many woken workers as tokens:
\* no token's notify_one is lost (lines 90, 98, 145).
NoLostWakeup ==
    Waiting # {} =>
      Cardinality({w \in Workers : pc[w] = "woken"}) >= Len(readyQue_)

\* Everything a stream's workers have handled, then the frame in hand, then
\* the queue, in this order.
InHand(s) == {w \in Workers : held[w] = s /\ frame[w] # None}
Accepted(s) ==
    LET inHand == IF InHand(s) = {} THEN <<>>
                  ELSE <<frame[CHOOSE w \in InHand(s) : TRUE]>>
    IN handled[s] \o inHand \o streamsQues_[s]

\* Frames of a stream are handled in the order in which they arrived, none
\* twice, and every arrival is handled, in hand, queued or counted in
\* dropCount_ (line 85: a later frame must not be processed first).
InOrder ==
    \A s \in Streams :
      /\ \A i, j \in DOMAIN Accepted(s) :
           i < j => Accepted(s)[i].id < Accepted(s)[j].id
      /\ Len(Accepted(s)) + dropCount_[s] = received[s]

\* The answer of CheckSelected may be stale when it is used, but never for
\* more than one frame: after another stream is selected at most one audio
\* frame of the old one is still decoded (lines 122-135).
AtMostOneStaleAudio == \A s \in Streams : staleAudio[s] <= 1

\* The scheduler implements OrderedStreams: mailboxes served one frame at a
\* time and in order, whatever workers, tokens and wakeups do.
Current == [s \in Streams |->
              IF InHand(s) = {} THEN None
              ELSE frame[CHOOSE w \in InHand(s) : TRUE]]

Ordered == INSTANCE OrderedStreams WITH
             Capacity <- MAX_FRAMES, Idle <- None, pending <- streamsQues_,
             current <- Current, done <- handled,
             open <- [s \in Streams |-> ~closed[s]]

ImplementsOrderedStreams == Ordered!Spec

\* A queued frame is taken sooner or later, until stop(): what a user who
\* watches several streams at once expects (README line 28).
EveryFrameServed ==
    \A s \in Streams :
      streamsQues_[s] # <<>> ~> streamsQues_[s] = <<>> \/ stopRequested

\* stop() returns: closing the queues and waking everybody gets every worker
\* out of cv_, out of pop() and out of the loop (lines 54-72).
StopCompletes == stopRequested ~> mainPc = "stopped"

=============================================================================
