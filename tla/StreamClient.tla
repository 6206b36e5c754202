---------------------------- MODULE StreamClient ----------------------------
(***************************************************************************)
(* The client's end of one connection (streamClient/src/client/            *)
(* streamClient.cpp, ClientWindow::onInputEditFinished): the network       *)
(* thread cuts the byte stream into frames and hands every frame to the    *)
(* next handler, while the main thread is still setting the handlers.      *)
(*                                                                         *)
(* The bytes are counted, not represented: a frame is the offset of its    *)
(* header in the stream and the size of its payload, and a header can only *)
(* be read at the offset where one was written.  The server                *)
(* (StreamServer::run) and DreamNet are external: the server broadcasts    *)
(* whole frames, TCP delivers the bytes in order and in any portions, and  *)
(* the reader appends a portion to the connection's Buffer, calls the      *)
(* message callback if there is one, and removes what it returns.          *)
(*                                                                         *)
(* ClientLifecycle takes these actions together with the rest of the       *)
(* client, and is where they are checked.                                  *)
(***************************************************************************)
EXTENDS Naturals, Sequences

CONSTANTS
    HEADER_SIZE,   \* sizeof(FrameHeader)
    Sizes,         \* payload sizes
    FrameBound     \* bound: frames the server broadcasts

ASSUME StreamConstants ==
    /\ HEADER_SIZE \in Nat \ {0}
    /\ Sizes \subseteq Nat
    /\ FrameBound \in Nat

VARIABLES
    wire,           \* the frames broadcast, in order
    arrived,        \* bytes that have arrived in the Buffer since the start
    consumed,       \* bytes that have been removed from it
    consumedTotal,  \* onMessage(): its local variable
    netPc,          \* the network thread: "poll", or in "onMessage"
    mainPc,         \* the main thread in onInputEditFinished() and after
    handed          \* history: handle() calls: offset, size, whether passed on

mainVars == <<mainPc>>
netVars  == <<arrived, consumed, consumedTotal, netPc, handed>>
vars     == <<wire, netVars, mainVars>>

Init ==
    /\ wire = <<>>
    /\ arrived = 0
    /\ consumed = 0
    /\ consumedTotal = 0
    /\ netPc = "poll"
    /\ mainPc = "new"
    /\ handed = <<>>

----
(* The byte stream.                                                        *)

End(f) == f.at + HEADER_SIZE + f.size

Written == IF wire = <<>> THEN 0 ELSE End(wire[Len(wire)])

\* The connection exists from connect() to disconnect().
Connected == mainPc \in {"connected", "callbackSet", "handlerSet"}

Broadcast(size) ==
    /\ Connected
    /\ Len(wire) < FrameBound
    /\ wire' = Append(wire, [at |-> Written, size |-> size])
    /\ UNCHANGED <<netVars, mainVars>>

----
(* The network thread.                                                     *)

CallbackSet == mainPc \in {"callbackSet", "handlerSet"}

\* handleRead: a portion of the stream arrives.
Read(n) ==
    /\ netPc = "poll"
    /\ Connected
    /\ arrived' = n
    /\ netPc' = IF CallbackSet THEN "onMessage" ELSE "poll"
    /\ UNCHANGED <<wire, consumed, consumedTotal, handed, mainVars>>

Offset == consumed + consumedTotal

\* Bug variants, not part of Next.

\* A whole frame is in the Buffer at the place onMessage() has got to.
Complete(f) == f.at = Offset /\ Offset + HEADER_SIZE <= arrived /\ End(f) <= arrived

\* Bug: only the payload is skipped.
HandleFrameBug(f) ==
    /\ netPc = "onMessage"
    /\ Complete(f)
    /\ handed' = Append(handed, [at |-> f.at, size |-> f.size,
                                 passedOn |-> mainPc = "handlerSet"])
    /\ consumedTotal' = consumedTotal + f.size
    /\ UNCHANGED <<wire, arrived, consumed, netPc, mainVars>>

\* One iteration: the payload is copied to a buffer of the pool and handle()d.
\* Without a next handler the frame ends here.
HandleFrame(f) ==
    /\ netPc = "onMessage"
    /\ Complete(f)
    /\ handed' = Append(handed, [at |-> f.at, size |-> f.size,
                                 passedOn |-> mainPc = "handlerSet"])
    /\ consumedTotal' = consumedTotal + HEADER_SIZE + f.size
    /\ UNCHANGED <<wire, arrived, consumed, netPc, mainVars>>

\* Bug: the callback returns after any iteration.
ReturnEarlyBug ==
    /\ netPc = "onMessage"
    /\ consumedTotal > 0
    /\ consumed' = consumed + consumedTotal
    /\ consumedTotal' = 0
    /\ netPc' = "poll"
    /\ UNCHANGED <<wire, arrived, handed, mainVars>>

\* break: no whole frame is left; the Buffer drops what onMessage() returns.
Return ==
    /\ netPc = "onMessage"
    /\ \A i \in DOMAIN wire : ~Complete(wire[i])
    /\ consumed' = consumed + consumedTotal
    /\ consumedTotal' = 0
    /\ netPc' = "poll"
    /\ UNCHANGED <<wire, arrived, handed, mainVars>>

----
(* The main thread.                                                        *)

Goto(from, to) ==
    /\ mainPc = from
    /\ mainPc' = to
    /\ UNCHANGED <<wire, netVars>>

Main ==
    \/ Goto("new", "connected")            \* client_->connect()
    \/ Goto("connected", "callbackSet")    \* setMessageCallback()
    \/ Goto("callbackSet", "handlerSet")   \* setNextHandler()

\* ~StreamClient; external: the network thread is not inside the callback any
\* more when disconnect() has returned.
Disconnect == netPc = "poll" /\ Goto("handlerSet", "disconnected")

----
(* Properties.                                                             *)

\* Every variable has its type, and the parser is inside the Buffer.
TypeOK ==
    /\ wire \in Seq([at : Nat, size : Sizes])
    /\ arrived \in 0..Written
    /\ consumed \in Nat /\ consumedTotal \in Nat
    /\ Offset <= arrived
    /\ netPc \in {"poll", "onMessage"}
    /\ mainPc \in {"new", "connected", "callbackSet", "handlerSet", "disconnected"}
    /\ handed \in Seq([at : Nat, size : Sizes, passedOn : BOOLEAN])

\* However TCP cuts the stream, the handed frames are the sent frames, each
\* once, whole and in order, and the parser stands at the end of the last of
\* them: it never reads a header where none was written (lines 38-59).
InSync ==
    /\ Len(handed) <= Len(wire)
    /\ \A i \in DOMAIN handed :
         handed[i].at = wire[i].at /\ handed[i].size = wire[i].size
    /\ Offset = IF handed = <<>> THEN 0 ELSE End(handed[Len(handed)])

\* When onMessage() returns, no whole frame stays behind (the comment at lines
\* 33-34: everything must be read at once, or the delay grows).
NothingLeftBehind ==
    [][netPc = "onMessage" /\ netPc' = "poll"
         => \A i \in DOMAIN wire : End(wire[i]) <= arrived => i <= Len(handed)]_vars

\* A frame that is not all there when the next handler is set is passed on:
\* what one onMessage() leaves is taken up by the next, and only the first
\* frames of a connection are lost to the order of lines 165-166 of
\* clientWindow.cpp.
EveryFramePassedOn ==
    \A n \in 1..FrameBound :
      Len(wire) >= n /\ mainPc = "handlerSet" /\ arrived < End(wire[n])
        ~> \/ n \in DOMAIN handed /\ handed[n].passedOn
           \/ mainPc = "disconnected"

=============================================================================
