--------------------------- MODULE ClientLifecycle ---------------------------
(***************************************************************************)
(* The life of one stream in the client (main.cpp, ClientWindow,           *)
(* StreamClient, DecodeScheduler): the main thread opens the connection,   *)
(* later stops the scheduler and takes everything down, while the network  *)
(* thread receives and a worker decodes.                                   *)
(*                                                                         *)
(* The parts share the StreamClient's MemoryPool: a frame's buffer is out  *)
(* of it from onMessage() until the frame is destroyed, wherever it is     *)
(* then.  Reception is StreamClient, whose actions are taken as they are;  *)
(* of the scheduler, which is DecodeScheduler, this has one stream's queue *)
(* and the worker that serves it.                                          *)
(***************************************************************************)
EXTENDS StreamClient, FiniteSets, Functions

CONSTANT MAX_FRAMES   \* room in a stream's queue

ASSUME LifecycleConstants == MAX_FRAMES \in Nat \ {0}

VARIABLES
    queue,     \* streamsQues_[streamID_]: the frames in it, as numbers in handed
    closed_,   \* the scheduler has been stopped, its queue is closed
    wPc,       \* the worker: "idle", "inFlight" (has the stream) or "decode"
    wFrame,    \* the frame it decodes
    exitPc,    \* the main thread: "exec", "join", "window", "scheduler", "net", "end"
    home,      \* the frames whose buffer went back to the pool
    strays,    \* history: the frames whose buffer went back after the pool's end
    early      \* history: frames handled before stop()

connection    == vars
schedulerVars == <<queue, closed_, wPc, wFrame>>
lifeVars      == <<connection, schedulerVars, exitPc, home, strays, early>>

LifeInit ==
    /\ Init
    /\ queue = <<>>
    /\ closed_ = FALSE
    /\ wPc = "idle"
    /\ wFrame = 0
    /\ exitPc = "exec"
    /\ home = {}
    /\ strays = {}
    /\ early = 0

----
(* The network thread.                                                     *)

Elsewhere == UNCHANGED <<schedulerVars, exitPc, home, strays, early>>

\* One frame of onMessage(): handle() queues it or, if there is no handler or
\* try_push() refuses it, it is destroyed.
Handle(f) ==
    /\ HandleFrame(f)
    /\ LET n == Len(handed')
       IN IF handed'[n].passedOn /\ ~closed_ /\ Len(queue) < MAX_FRAMES
            THEN queue' = Append(queue, n) /\ UNCHANGED home
            ELSE home' = home \union {n} /\ UNCHANGED queue
    /\ UNCHANGED <<closed_, wPc, wFrame, exitPc, strays, early>>

Network ==
    \/ \E i \in DOMAIN wire : Handle(wire[i])
    \/ Return /\ Elsewhere
    \/ \E n \in (arrived + 1)..Written : Read(n) /\ Elsewhere

----
(* The worker.                                                             *)

\* The stream is taken: there may be a token although the queue is empty
\* (DecodeScheduler).  After stop() handle() or a worker may still add one for
\* what the queue holds; one for an empty queue makes no difference then.
Take ==
    /\ wPc = "idle"
    /\ exitPc \in {"exec", "join"}
    /\ closed_ => queue # <<>>
    /\ wPc' = "inFlight"
    /\ UNCHANGED <<connection, queue, closed_, wFrame, exitPc, home, strays, early>>

PopFrame ==
    /\ wPc = "inFlight"
    /\ queue # <<>>
    /\ wFrame' = Head(queue)
    /\ queue' = Tail(queue)
    /\ wPc' = "decode"
    /\ UNCHANGED <<connection, closed_, exitPc, home, strays, early>>

\* Bug: a closed queue does not let its readers go.
PopBug == PopFrame

\* pop() waits for a frame; a closed queue gives what it holds, then nothing.
Pop ==
    \/ PopFrame
    \/ /\ wPc = "inFlight"
       /\ queue = <<>> /\ closed_
       /\ wPc' = "idle"
       /\ UNCHANGED <<connection, queue, closed_, wFrame, exitPc, home, strays, early>>

\* The picture is shown and the frame destroyed.
Finish ==
    /\ wPc = "decode"
    /\ home' = home \union {wFrame}
    /\ wFrame' = 0
    /\ wPc' = "idle"
    /\ UNCHANGED <<connection, queue, closed_, exitPc, strays, early>>

Worker == Take \/ Pop \/ Finish

----
(* The main thread.                                                        *)

\* onInputEditFinished(): the connection is opened at most once, and an event
\* handler runs to its end before exec() returns.
Connect == exitPc = "exec" /\ Main /\ Elsewhere

Step(from, to) == exitPc = from /\ exitPc' = to

\* Bug: the workers are told to stop, but not waited for.
StopBug ==
    /\ mainPc \in {"new", "handlerSet"}
    /\ Step("exec", "window")
    /\ closed_' = TRUE
    /\ early' = Len(handed)
    /\ UNCHANGED <<connection, queue, wPc, wFrame, home, strays>>

\* exec() returns; stop() up to the joins.
Stop ==
    /\ mainPc \in {"new", "handlerSet"}
    /\ Step("exec", "join")
    /\ closed_' = TRUE
    /\ early' = Len(handed)
    /\ UNCHANGED <<connection, queue, wPc, wFrame, home, strays>>

\* The worker has left its loop; netLoop.quit() follows.
Join ==
    /\ wPc = "idle"
    /\ Step("join", "window")
    /\ UNCHANGED <<connection, schedulerVars, home, strays, early>>

\* ~ClientWindow: the StreamClient, if there is one, disconnects and its pool
\* is destroyed.
DestroyWindow ==
    /\ Step("window", "scheduler")
    /\ IF mainPc = "handlerSet" THEN Disconnect ELSE UNCHANGED connection
    /\ UNCHANGED <<schedulerVars, home, strays, early>>

\* ~DecodeScheduler: the frames left in the queue are destroyed.
DestroyScheduler ==
    /\ Step("scheduler", "net")
    /\ strays' = strays \union Range(queue)
    /\ queue' = <<>>
    /\ UNCHANGED <<connection, closed_, wPc, wFrame, home, early>>

\* ~jthread: the network thread has left its loop.
JoinNetwork ==
    /\ Step("net", "end")
    /\ netPc = "poll"
    /\ UNCHANGED <<connection, schedulerVars, home, strays, early>>

Exit == Join \/ DestroyWindow \/ DestroyScheduler \/ JoinNetwork

Ended == exitPc = "end" /\ UNCHANGED lifeVars

----

LifeNext ==
    \/ (\E size \in Sizes : Broadcast(size)) /\ Elsewhere
    \/ Network
    \/ Worker
    \/ Connect
    \/ Stop
    \/ Exit
    \/ Ended

\* Threads run, and what is sent arrives; the user may never leave.
LifeSpec ==
    /\ LifeInit /\ [][LifeNext]_lifeVars
    /\ WF_lifeVars(Network)
    /\ WF_lifeVars(Worker)
    /\ WF_lifeVars(Connect)
    /\ WF_lifeVars(Exit)

----
(* Properties.                                                             *)

Frames == 1..Len(handed)

\* Every variable has its type, and a frame whose buffer is in the pool is
\* nowhere else.
LifeTypeOK ==
    /\ TypeOK
    /\ queue \in Seq(Frames) /\ Len(queue) <= MAX_FRAMES
    /\ closed_ \in BOOLEAN
    /\ wPc \in {"idle", "inFlight", "decode"}
    /\ wFrame \in Frames \union {0}
    /\ exitPc \in {"exec", "join", "window", "scheduler", "net", "end"}
    /\ home \subseteq Frames /\ strays \subseteq Frames /\ early \in Nat
    /\ home \intersect (Range(queue) \union strays \union {wFrame}) = {}

\* Types, and the parser in step with the server (StreamClient).
ClientInv == LifeTypeOK /\ InSync

\* With the scheduler behind it and an exit at any time, reception leaves no
\* whole frame behind and passes on every frame that was not all there when the
\* handler was set (StreamClient).
Reception == NothingLeftBehind /\ EveryFramePassedOn

\* When the pool is destroyed its buffers are back, but for those of frames
\* that were queued before stop() and that no worker took: no worker holds
\* one, the network thread holds none, and what arrives after stop() does not
\* stay (main.cpp:81-84: nothing empties the queues before the pools go).
OnlyQueuedStray ==
    mainPc = "disconnected" =>
      /\ wPc = "idle" /\ netPc = "poll"
      /\ (1..Len(handed)) \ home \subseteq (Range(queue) \union strays)
      /\ Range(queue) \union strays \subseteq 1..early
      /\ Cardinality(Range(queue) \union strays) <= MAX_FRAMES

\* Nobody holds up the exit: the joins and the disconnection come to an end.
ExitCompletes == closed_ ~> exitPc = "end"

=============================================================================
