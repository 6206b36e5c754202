----------------------- MODULE DecodeScheduler_proofs -----------------------
(***************************************************************************)
(* Theorems about DecodeScheduler, for any number of streams, workers and  *)
(* frames and any queue capacity.                                          *)
(***************************************************************************)
EXTENDS DecodeScheduler, SequenceTheorems, FiniteSetTheorems, TLAPS

\* A notification only turns waiting workers into woken ones.
LEMMA NotifyOneEffect ==
    ASSUME NEW p \in [Workers -> WorkerStates], NEW q \in NotifyOne(p)
    PROVE  /\ q \in [Workers -> WorkerStates]
           /\ \A w \in Workers : q[w] = p[w] \/ (p[w] = "waiting" /\ q[w] = "woken")
  BY DEF NotifyOne, WorkerStates

\* The same of the notify_all in stop().
LEMMA NotifyAllEffect ==
    ASSUME NEW p \in [Workers -> WorkerStates]
    PROVE  /\ NotifyAll(p) \in [Workers -> WorkerStates]
           /\ \A w \in Workers : \/ NotifyAll(p)[w] = p[w]
                                 \/ p[w] = "waiting" /\ NotifyAll(p)[w] = "woken"
  BY DEF NotifyAll, WorkerStates

\* The sequence facts below, for tokens and for frames.
LEMMA TokenSeq ==
    /\ <<>> \in Seq(Streams)
    /\ \A q \in Seq(Streams), s \in Streams : Append(q, s) \in Seq(Streams)
    /\ \A q \in Seq(Streams) :
         q # <<>> => Head(q) \in Streams /\ Tail(q) \in Seq(Streams)
  BY EmptySeq, AppendProperties, HeadTailProperties

LEMMA FrameSeq ==
    /\ <<>> \in Seq(Frames) /\ Len(<<>>) = 0
    /\ \A q \in Seq(Frames) : Len(q) \in Nat
    /\ \A q \in Seq(Frames), f \in Frames :
         Append(q, f) \in Seq(Frames) /\ Len(Append(q, f)) = Len(q) + 1
    /\ \A q \in Seq(Frames) :
         q # <<>> => /\ Head(q) \in Frames
                    /\ Tail(q) \in Seq(Frames)
                    /\ Len(Tail(q)) = Len(q) - 1
  BY EmptySeq, LenProperties, AppendProperties, HeadTailProperties

\* What the two steps that add a token do to readyQue_ and to the workers.
LEMMA AnnounceEffect ==
    ASSUME Announce, pc \in [Workers -> WorkerStates],
           readyQue_ \in Seq(Streams), netStream \in Streams \union {None}
    PROVE  /\ readyQue_' \in Seq(Streams)
           /\ pc' \in [Workers -> WorkerStates]
           /\ \A w \in Workers :
                pc'[w] = pc[w] \/ (pc[w] = "waiting" /\ pc'[w] = "woken")
  <1>1. netStream \in Streams
    BY DEF Announce
  <1>2. CASE netStream \in inFlight_ \/ InReady(netStream)
    BY <1>2 DEF Announce
  <1>3. CASE ~(netStream \in inFlight_ \/ InReady(netStream))
    <2>1. readyQue_' = Append(readyQue_, netStream) /\ pc' \in NotifyOne(pc)
      BY <1>3 DEF Announce
    <2> QED
      BY <1>1, <2>1, TokenSeq, NotifyOneEffect
  <1> QED
    BY <1>2, <1>3

LEMMA FinishEffect ==
    ASSUME NEW w \in Workers, Finish(w), pc \in [Workers -> WorkerStates],
           readyQue_ \in Seq(Streams), held[w] \in Streams
    PROVE  /\ readyQue_' \in Seq(Streams)
           /\ pc' \in [Workers -> WorkerStates]
           /\ pc'[w] = "loop"
           /\ \A v \in Workers \ {w} :
                pc'[v] = pc[v] \/ (pc[v] = "waiting" /\ pc'[v] = "woken")
  <1> DEFINE atTop == [pc EXCEPT ![w] = "loop"]
  <1>1. /\ atTop \in [Workers -> WorkerStates]
        /\ atTop[w] = "loop"
        /\ \A v \in Workers \ {w} : atTop[v] = pc[v]
    BY DEF WorkerStates
  <1>2. CASE streamsQues_[held[w]] = <<>>
    <2>1. pc' = atTop /\ readyQue_' = readyQue_
      BY <1>2 DEF Finish
    <2> QED
      BY <1>1, <2>1
  <1>3. CASE streamsQues_[held[w]] # <<>>
    <2>1. readyQue_' = Append(readyQue_, held[w]) /\ pc' \in NotifyOne(atTop)
      BY <1>3 DEF Finish
    <2> HIDE DEF atTop
    <2> QED
      BY <1>1, <2>1, TokenSeq, NotifyOneEffect
  <1> QED
    BY <1>2, <1>3

----
(* Typing needs to know that a worker holds a stream where the code uses   *)
(* its streamID, and has a frame where the code uses the frame.            *)

TypeInv == TypeOK /\ LocalsAgree

\* The fields of a frame.
LEMMA FrameFields ==
    /\ \A f \in Frames : f.id \in 1..FrameBound /\ f.type \in FrameTypes
    /\ \A i \in 1..FrameBound, t \in FrameTypes : [id |-> i, type |-> t] \in Frames
  BY DEF Frames

\* A counter per stream stays one when it counts.
LEMMA Counted ==
    ASSUME NEW S, NEW c \in [S -> Nat], NEW s \in S
    PROVE  [c EXCEPT ![s] = @ + 1] \in [S -> Nat]
  OBVIOUS

LEMMA TypeInvInit == Init => TypeInv
  <1> SUFFICES ASSUME Init PROVE TypeInv
    OBVIOUS
  <1>1. /\ streamsQues_ \in [Streams -> Seq(Frames)]
        /\ handled \in [Streams -> Seq(Frames)]
        /\ \A s \in Streams : Len(streamsQues_[s]) <= MAX_FRAMES
        /\ readyQue_ \in Seq(Streams)
    BY FrameSeq, TokenSeq, ConstantsAssumption DEF Init
  <1>2. /\ pc \in [Workers -> WorkerStates]
        /\ held \in [Workers -> Streams \union {None}]
        /\ frame \in [Workers -> Frames \union {None}]
        /\ received \in [Streams -> 0..FrameBound]
    BY ConstantsAssumption DEF Init, WorkerStates
  <1>3. TypeOK
    BY <1>1, <1>2 DEF Init, TypeOK
  <1>4. LocalsAgree
    BY DEF Init, LocalsAgree, HoldingStates, InHandStates
  <1> QED
    BY <1>3, <1>4 DEF TypeInv

LEMMA TypeInvNext == TypeInv /\ [Next]_vars => TypeInv'
  <1> SUFFICES ASSUME TypeInv, [Next]_vars PROVE TypeInv'
    OBVIOUS
  <1> USE ConstantsAssumption, FrameAssumption
      DEF TypeInv, TypeOK, LocalsAgree, WorkerStates, HoldingStates,
          InHandStates, netVars, uiVars, history, mainVars, worker
  <1>1. ASSUME NEW s \in Streams, NEW t \in FrameTypes, Receive(s, t)
        PROVE  TypeInv'
    <2> DEFINE f == [id |-> received[s] + 1, type |-> t]
    <2>1. received[s] \in Nat /\ received[s] + 1 \in 1..FrameBound
      BY <1>1 DEF Receive
    <2>2. f \in Frames
      BY <2>1, FrameFields
    <2>3. /\ UNCHANGED <<closed, readyQue_, inFlight_, decoders_, uiVars,
                         history, mainVars, worker>>
          /\ received' = [received EXCEPT ![s] = received[s] + 1]
      BY <1>1 DEF Receive
    <2>4. CASE closed[s] \/ Len(streamsQues_[s]) >= MAX_FRAMES
      <3>1. /\ dropCount_' = [dropCount_ EXCEPT ![s] = @ + 1]
            /\ UNCHANGED <<streamsQues_, netStream>>
        BY <1>1, <2>4 DEF Receive
      <3>2. dropCount_' \in [Streams -> Nat]
        BY <3>1, Counted
      <3> QED
        BY <2>1, <2>3, <3>1, <3>2, SMTT(30)
    <2>5. CASE ~(closed[s] \/ Len(streamsQues_[s]) >= MAX_FRAMES)
      <3>1. /\ streamsQues_' = [streamsQues_ EXCEPT ![s] = Append(@, f)]
            /\ netStream' = s
            /\ UNCHANGED dropCount_
        BY <1>1, <2>5 DEF Receive
      <3>2. /\ Append(streamsQues_[s], f) \in Seq(Frames)
            /\ Len(Append(streamsQues_[s], f)) <= MAX_FRAMES
        BY <2>2, <2>5, FrameSeq
      <3> HIDE DEF f
      <3>3. /\ streamsQues_ \in [Streams -> Seq(Frames)]
            /\ \A r \in Streams : Len(streamsQues_[r]) <= MAX_FRAMES
        OBVIOUS
      <3>4. /\ streamsQues_' \in [Streams -> Seq(Frames)]
            /\ \A r \in Streams : Len(streamsQues_'[r]) <= MAX_FRAMES
        BY ONLY <3>1, <3>2, <3>3, SMTT(30)
      <3> QED
        BY <2>1, <2>3, <3>1, <3>4, SMTT(30)
    <2> QED
      BY <2>4, <2>5
  <1>2. CASE Announce
    BY <1>2, AnnounceEffect DEF Announce
  <1>3. ASSUME NEW w \in Workers, WorkerStep(w) \/ SpuriousWakeup(w)
        PROVE  TypeInv'
    <2>1. CASE LoopTest(w)
      BY <2>1 DEF LoopTest
    <2>2. CASE Wait(w)
      BY <2>2 DEF Wait, HasMtx
    <2>3. CASE Break(w)
      BY <2>3 DEF Break, HasMtx
    <2>4. CASE TakeToken(w)
      <3>1. Head(readyQue_) \in Streams /\ Tail(readyQue_) \in Seq(Streams)
        BY <2>4, HeadTailProperties DEF TakeToken
      <3>2. /\ held' = [held EXCEPT ![w] = Head(readyQue_)]
            /\ pc' = [pc EXCEPT ![w] = "pop"]
            /\ pc[w] \in {"enter", "woken"}
            /\ readyQue_' = Tail(readyQue_)
            /\ inFlight_' = inFlight_ \union {Head(readyQue_)}
            /\ UNCHANGED <<streamsQues_, closed, decoders_, netVars, uiVars,
                           history, mainVars, frame>>
        BY <2>4 DEF TakeToken, HasMtx
      <3> QED
        BY <3>1, <3>2
    <2>5. CASE PopFrame(w)
      <3> DEFINE s == held[w]
                 f == Head(streamsQues_[s])
      <3>1. s \in Streams
        BY <2>5 DEF PopFrame
      <3>2. /\ f \in Frames
            /\ Tail(streamsQues_[s]) \in Seq(Frames)
            /\ Len(Tail(streamsQues_[s])) <= MAX_FRAMES
        BY <2>5, <3>1, HeadTailProperties, LenProperties DEF PopFrame
      <3>3. f.type \in FrameTypes /\ f # None
        BY <3>2, FrameFields
      <3>4. /\ streamsQues_' \in [Streams -> Seq(Frames)]
            /\ \A r \in Streams : Len(streamsQues_'[r]) <= MAX_FRAMES
        BY <2>5, <3>1, <3>2 DEF PopFrame
      <3>5. /\ frame' = [frame EXCEPT ![w] = f]
            /\ decoders_' = [decoders_ EXCEPT ![s] = @ \union {f.type}]
            /\ pc' = [pc EXCEPT ![w] = IF f.type = "VIDEO" THEN "decode" ELSE "select"]
            /\ pc[w] = "pop"
            /\ UNCHANGED <<closed, readyQue_, inFlight_, netVars, uiVars,
                           history, mainVars, held>>
        BY <2>5 DEF PopFrame
      <3> HIDE DEF f, s
      <3> QED
        BY <3>1, <3>2, <3>3, <3>4, <3>5
    <2>6. CASE PopClosed(w)
      BY <2>6 DEF PopClosed
    <2>7. CASE CheckSelected(w)
      <3>1. CASE audioStreamID_ = held[w]
        BY <2>7, <3>1 DEF CheckSelected
      <3>2. CASE audioStreamID_ # held[w]
        <4>1. held[w] \in Streams /\ frame[w] \in Frames
          BY <2>7 DEF CheckSelected
        <4>2. Append(handled[held[w]], frame[w]) \in Seq(Frames)
          BY <4>1, FrameSeq
        <4>3. /\ handled' = [handled EXCEPT ![held[w]] = Append(@, frame[w])]
              /\ frame' = [frame EXCEPT ![w] = None]
              /\ pc' = [pc EXCEPT ![w] = "finish"]
              /\ pc[w] = "select"
              /\ UNCHANGED <<streamsQues_, closed, readyQue_, inFlight_,
                             decoders_, netVars, uiVars, staleAudio, mainVars,
                             held>>
          BY <2>7, <3>2 DEF CheckSelected, Handled
        <4>4. handled' \in [Streams -> Seq(Frames)]
          BY <4>1, <4>2, <4>3
        <4> QED
          BY <4>1, <4>3, <4>4
      <3> QED
        BY <3>1, <3>2
    <2>8. CASE Decode(w)
      <3>1. held[w] \in Streams /\ frame[w] \in Frames
        BY <2>8 DEF Decode
      <3>2. handled' \in [Streams -> Seq(Frames)]
        BY <2>8, <3>1, FrameSeq DEF Decode, Handled
      <3>3. \/ staleAudio' = staleAudio
            \/ staleAudio' = [staleAudio EXCEPT ![held[w]] = @ + 1]
        BY <2>8 DEF Decode
      <3>4. staleAudio' \in [Streams -> Nat]
        <4>1. staleAudio \in [Streams -> Nat]
          BY DEF TypeInv, TypeOK
        <4> QED
          BY ONLY <3>1, <3>3, <4>1, Counted
      <3> QED
        BY <2>8, <3>2, <3>4 DEF Decode, Handled
    <2>9. CASE Finish(w)
      <3>1. held[w] \in Streams /\ pc[w] = "finish"
        BY <2>9 DEF Finish
      <3>2. /\ readyQue_' \in Seq(Streams)
            /\ pc' \in [Workers -> WorkerStates]
            /\ pc'[w] = "loop"
            /\ \A v \in Workers \ {w} :
                 pc'[v] = pc[v] \/ (pc[v] = "waiting" /\ pc'[v] = "woken")
        BY <2>9, <3>1, FinishEffect
      <3>3. /\ held' = [held EXCEPT ![w] = None]
            /\ inFlight_' = inFlight_ \ {held[w]}
            /\ UNCHANGED <<streamsQues_, closed, decoders_, netVars, uiVars,
                           history, mainVars, frame>>
        BY <2>9 DEF Finish
      <3> QED
        BY <3>1, <3>2, <3>3
    <2>10. CASE SpuriousWakeup(w)
      BY <2>10 DEF SpuriousWakeup
    <2> QED
      BY <1>3, <2>1, <2>2, <2>3, <2>4, <2>5, <2>6, <2>7, <2>8, <2>9, <2>10
      DEF WorkerStep
  <1>4. ASSUME NEW s \in Streams, SelectAudio(s)
        PROVE  TypeInv'
    BY <1>4 DEF SelectAudio
  <1>5. CASE StopBegin
    BY <1>5, EmptySeq DEF StopBegin
  <1>6. CASE StopStep
    <2>1. ASSUME NEW s \in Streams, CloseQueue(s) PROVE TypeInv'
      BY <2>1 DEF CloseQueue
    <2>2. CASE StopNotify
      BY <2>2, NotifyAllEffect DEF StopNotify
    <2>3. CASE Join
      BY <2>3 DEF Join
    <2> QED
      BY <1>6, <2>1, <2>2, <2>3 DEF StopStep
  <1>7. CASE UNCHANGED vars
    BY <1>7 DEF vars
  <1> QED
    BY <1>1, <1>2, <1>3, <1>4, <1>5, <1>6, <1>7 DEF Next, Stopped

LEMMA TypeInvAlways == Spec => []TypeInv
  BY TypeInvInit, TypeInvNext, PTL DEF Spec

\* In every reachable state the variables have their types and no stream's
\* queue is longer than MAX_FRAMES.
THEOREM TypeCorrect == Spec => []TypeOK
  BY TypeInvAlways, PTL DEF TypeInv

----
(* One token per stream.                                                   *)

Tokens == <<readyQue_, inFlight_, held>>

\* Most steps touch neither readyQue_ nor inFlight_ nor a streamID.
LEMMA TokensUnchanged ==
    ASSUME TypeInv, UNCHANGED Tokens, InFlightHeld, TokenUnique
    PROVE  InFlightHeld' /\ TokenUnique'
  BY DEF Tokens, InFlightHeld, TokenUnique

\* A stream without a token may be given one at the end of readyQue_.
LEMMA AppendToken ==
    ASSUME NEW q \in Seq(Streams), NEW s \in Streams, NEW H,
           \A i, j \in DOMAIN q : q[i] = q[j] => i = j,
           \A i \in DOMAIN q : q[i] \notin H /\ q[i] # s,
           s \notin H
    PROVE  /\ \A i, j \in DOMAIN Append(q, s) :
                Append(q, s)[i] = Append(q, s)[j] => i = j
           /\ \A i \in DOMAIN Append(q, s) : Append(q, s)[i] \notin H
  <1> DEFINE r == Append(q, s)
  <1>1. /\ r \in Seq(Streams)
        /\ Len(r) = Len(q) + 1
        /\ \A i \in 1..Len(q) : r[i] = q[i]
        /\ r[Len(q) + 1] = s
    BY AppendProperties
  <1>2. Len(q) \in Nat /\ DOMAIN q = 1..Len(q) /\ DOMAIN r = 1..(Len(q) + 1)
    BY <1>1, LenProperties
  <1> HIDE DEF r
  <1>3. \A i \in DOMAIN r : i \in DOMAIN q \/ i = Len(q) + 1
    BY <1>2
  <1> QED
    BY <1>1, <1>2, <1>3 DEF r

\* Taking the first token leaves the others where they were.
LEMMA TailToken ==
    ASSUME NEW q \in Seq(Streams), q # <<>>
    PROVE  /\ 1 \in DOMAIN q /\ Head(q) = q[1]
           /\ \A i \in DOMAIN Tail(q) :
                i \in Nat /\ i + 1 \in DOMAIN q /\ i + 1 # 1 /\ Tail(q)[i] = q[i + 1]
  <1>1. /\ Tail(q) \in Seq(Streams)
        /\ Len(Tail(q)) = Len(q) - 1
        /\ \A i \in 1..Len(Tail(q)) : Tail(q)[i] = q[i + 1]
    BY HeadTailProperties
  <1>2. Len(q) \in Nat \ {0} /\ DOMAIN q = 1..Len(q)
    BY EmptySeq, LenProperties
  <1>3. DOMAIN Tail(q) = 1..(Len(q) - 1)
    BY <1>1, LenProperties
  <1> QED
    BY <1>1, <1>2, <1>3

LEMMA TokenNext ==
    TypeInv /\ InFlightHeld /\ TokenUnique /\ [Next]_vars => InFlightHeld' /\ TokenUnique'
  <1> SUFFICES ASSUME TypeInv, InFlightHeld, TokenUnique, [Next]_vars
               PROVE  InFlightHeld' /\ TokenUnique'
    OBVIOUS
  <1>0. /\ readyQue_ \in Seq(Streams)
        /\ inFlight_ \subseteq Streams
        /\ netStream \in Streams \union {None}
        /\ held \in [Workers -> Streams \union {None}]
        /\ pc \in [Workers -> WorkerStates]
        /\ \A w \in Workers : held[w] # None <=> pc[w] \in HoldingStates
    BY DEF TypeInv, TypeOK, LocalsAgree
  <1>1. CASE UNCHANGED Tokens
    BY <1>1, TokensUnchanged
  <1>2. CASE Announce
    <2>1. UNCHANGED <<inFlight_, held>>
      BY <1>2 DEF Announce
    <2>2. CASE netStream \in inFlight_ \/ InReady(netStream)
      BY <1>1, <1>2, <2>1, <2>2 DEF Announce, Tokens
    <2>3. CASE ~(netStream \in inFlight_ \/ InReady(netStream))
      <3>1. netStream \in Streams /\ readyQue_' = Append(readyQue_, netStream)
        BY <1>0, <1>2, <2>3 DEF Announce
      <3>2. TokenUnique'
        BY <1>0, <2>1, <2>3, <3>1, AppendToken DEF TokenUnique, InReady
      <3> QED
        BY <2>1, <3>2 DEF InFlightHeld
    <2> QED
      BY <2>2, <2>3
  <1>3. ASSUME NEW w \in Workers, TakeToken(w)
        PROVE  InFlightHeld' /\ TokenUnique'
    <2> DEFINE s == Head(readyQue_)
    <2>1. /\ held' = [held EXCEPT ![w] = s]
          /\ readyQue_' = Tail(readyQue_)
          /\ inFlight_' = inFlight_ \union {s}
          /\ readyQue_ # <<>>
          /\ pc[w] \in {"enter", "woken"}
      BY <1>3 DEF TakeToken, HasMtx
    <2>2. held[w] = None
      BY <1>0, <2>1 DEF HoldingStates
    <2>3. s \in Streams /\ s # None /\ s \notin inFlight_
      BY <1>0, <2>1, TokenSeq, TailToken, ConstantsAssumption DEF TokenUnique
    <2>4. \A i \in DOMAIN Tail(readyQue_) :
            Tail(readyQue_)[i] # s /\ Tail(readyQue_)[i] \notin inFlight_
      BY <1>0, <2>1, TailToken DEF TokenUnique
    <2>5. \A i, j \in DOMAIN Tail(readyQue_) :
            Tail(readyQue_)[i] = Tail(readyQue_)[j] => i = j
      <3> SUFFICES ASSUME NEW i \in DOMAIN Tail(readyQue_),
                          NEW j \in DOMAIN Tail(readyQue_),
                          Tail(readyQue_)[i] = Tail(readyQue_)[j]
                   PROVE  i = j
        OBVIOUS
      <3>1. /\ i \in Nat /\ i + 1 \in DOMAIN readyQue_ /\ readyQue_[i + 1] = Tail(readyQue_)[i]
            /\ j \in Nat /\ j + 1 \in DOMAIN readyQue_ /\ readyQue_[j + 1] = Tail(readyQue_)[j]
        BY <1>0, <2>1, TailToken
      <3>2. i + 1 = j + 1
        BY <3>1 DEF TokenUnique
      <3> QED
        BY <3>1, <3>2
    <2>6. \A v \in Workers : held'[v] = IF v = w THEN s ELSE held[v]
      BY <1>0, <2>1
    <2> HIDE DEF s
    <2>7. InFlightHeld'
      <3>1. \A v \in Workers : held'[v] # None => held'[v] \in inFlight_'
        BY <2>1, <2>6 DEF InFlightHeld
      <3>2. ASSUME NEW r \in inFlight_' PROVE \E v \in Workers : held'[v] = r
        <4>1. CASE r = s
          BY <2>6, <4>1
        <4>2. CASE r \in inFlight_
          <5>1. PICK v \in Workers : held[v] = r
            BY <4>2 DEF InFlightHeld
          <5>2. v # w
            BY <1>0, <2>2, <4>2, <5>1, ConstantsAssumption
          <5> QED
            BY <2>6, <5>1, <5>2
        <4> QED
          BY <2>1, <4>1, <4>2
      <3> QED
        BY <3>1, <3>2 DEF InFlightHeld
    <2>8. TokenUnique'
      BY <2>1, <2>3, <2>4, <2>5, <2>6 DEF TokenUnique, InFlightHeld
    <2> QED
      BY <2>7, <2>8
  <1>4. ASSUME NEW w \in Workers, Finish(w)
        PROVE  InFlightHeld' /\ TokenUnique'
    <2> DEFINE s == held[w]
    <2>1. pc[w] = "finish" /\ s \in Streams /\ s # None /\ s \in inFlight_
      BY <1>0, <1>4 DEF Finish, HoldingStates, InFlightHeld
    <2>2. /\ held' = [held EXCEPT ![w] = None]
          /\ inFlight_' = inFlight_ \ {s}
          /\ readyQue_' = readyQue_ \/ readyQue_' = Append(readyQue_, s)
      BY <1>4 DEF Finish
    <2>3. \A v \in Workers : held'[v] = IF v = w THEN None ELSE held[v]
      BY <1>0, <2>2
    <2>4. \A v \in Workers \ {w} : held[v] # s
      BY <2>1 DEF TokenUnique
    <2>5. /\ \A i, j \in DOMAIN readyQue_ : readyQue_[i] = readyQue_[j] => i = j
          /\ \A i \in DOMAIN readyQue_ :
               readyQue_[i] \notin inFlight_' /\ readyQue_[i] # s
      BY <2>1, <2>2 DEF TokenUnique
    <2> HIDE DEF s
    <2>6. InFlightHeld'
      BY <2>1, <2>2, <2>3, <2>4 DEF InFlightHeld
    <2>7. /\ \A i, j \in DOMAIN readyQue_' : readyQue_'[i] = readyQue_'[j] => i = j
          /\ \A i \in DOMAIN readyQue_' : readyQue_'[i] \notin inFlight_'
      <3>1. CASE readyQue_' = readyQue_
        BY <2>5, <3>1
      <3>2. CASE readyQue_' = Append(readyQue_, s)
        BY <1>0, <2>1, <2>2, <2>5, <3>2, AppendToken
      <3> QED
        BY <2>2, <3>1, <3>2
    <2>8. \A u, v \in Workers : held'[u] # None /\ held'[u] = held'[v] => u = v
      BY <2>3 DEF TokenUnique
    <2> QED
      BY <2>6, <2>7, <2>8 DEF TokenUnique
  <1>5. CASE StopBegin
    BY <1>5 DEF StopBegin, worker, InFlightHeld, TokenUnique
  <1>6. ASSUME NEW w \in Workers, WorkerStep(w) \/ SpuriousWakeup(w),
               ~TakeToken(w), ~Finish(w)
        PROVE  UNCHANGED Tokens
    BY <1>6
    DEF WorkerStep, LoopTest, Wait, Break, PopFrame, PopClosed, CheckSelected,
        Decode, SpuriousWakeup, Tokens
  <1>7. ASSUME NEW s \in Streams, NEW t \in FrameTypes, Receive(s, t)
        PROVE  UNCHANGED Tokens
    BY <1>7 DEF Receive, worker, Tokens
  <1>8. ASSUME NEW s \in Streams, SelectAudio(s)
        PROVE  UNCHANGED Tokens
    BY <1>8 DEF SelectAudio, worker, Tokens
  <1>9. CASE StopStep \/ UNCHANGED vars
    <2>1. UNCHANGED Tokens
      BY <1>9 DEF StopStep, CloseQueue, StopNotify, Join, vars, worker, Tokens
    <2> QED
      BY <1>1, <2>1
  <1> QED
    BY <1>1, <1>2, <1>3, <1>4, <1>5, <1>6, <1>7, <1>8, <1>9 DEF Next, Stopped

LEMMA TokenInit == Init => InFlightHeld /\ TokenUnique
  BY DEF Init, InFlightHeld, TokenUnique

\* readyQue_, inFlight_ and the workers' streamIDs never hold a stream twice,
\* and inFlight_ is exactly what the workers hold.
THEOREM TokensCorrect == Spec => []TokenInv
  <1>1. Init => TypeInv /\ InFlightHeld /\ TokenUnique
    BY TypeInvInit, TokenInit
  <1>2. TypeInv /\ InFlightHeld /\ TokenUnique /\ [Next]_vars
          => TypeInv' /\ InFlightHeld' /\ TokenUnique'
    BY TypeInvNext, TokenNext
  <1>3. TypeInv /\ InFlightHeld /\ TokenUnique => TokenInv
    BY DEF TypeInv, TokenInv
  <1> QED
    BY <1>1, <1>2, <1>3, PTL DEF Spec

----
(* One worker per stream, with its decoder.                                *)

\* The decoder a worker uses exists, and decoders are never taken away.
DecoderReady == \A w \in Workers : frame[w] # None => frame[w].type \in decoders_[held[w]]

LEMMA DecoderReadyNext == TypeInv /\ DecoderReady /\ [Next]_vars => DecoderReady'
  <1> SUFFICES ASSUME TypeInv, DecoderReady, [Next]_vars
               PROVE  DecoderReady'
    OBVIOUS
  <1>0. /\ frame \in [Workers -> Frames \union {None}]
        /\ held \in [Workers -> Streams \union {None}]
        /\ decoders_ \in [Streams -> SUBSET FrameTypes]
        /\ \A w \in Workers : held[w] # None <=> pc[w] \in HoldingStates
        /\ \A w \in Workers : frame[w] # None <=> pc[w] \in InHandStates
    BY DEF TypeInv, TypeOK, LocalsAgree
  <1>1. CASE UNCHANGED <<frame, held, decoders_>>
    BY <1>1 DEF DecoderReady
  <1>2. ASSUME NEW w \in Workers,
               UNCHANGED decoders_,
               frame' = frame \/ frame' = [frame EXCEPT ![w] = None],
               \A v \in Workers : held'[v] = held[v] \/ frame'[v] = None
        PROVE  DecoderReady'
    BY <1>0, <1>2 DEF DecoderReady
  <1>3. ASSUME NEW w \in Workers, PopFrame(w)
        PROVE  DecoderReady'
    <2> DEFINE s == held[w]
               f == Head(streamsQues_[s])
    <2>1. /\ UNCHANGED held
          /\ frame' = [frame EXCEPT ![w] = f]
          /\ decoders_' = [decoders_ EXCEPT ![s] = @ \union {f.type}]
          /\ s \in Streams
      BY <1>0, <1>3 DEF PopFrame, HoldingStates
    <2> HIDE DEF s, f
    <2>2. /\ f.type \in decoders_'[s]
          /\ \A r \in Streams : decoders_[r] \subseteq decoders_'[r]
      BY <1>0, <2>1
    <2>3. \A v \in Workers : frame[v] # None => held[v] \in Streams
      BY <1>0 DEF HoldingStates, InHandStates
    <2>4. \A v \in Workers : frame'[v] = IF v = w THEN f ELSE frame[v]
      BY <1>0, <2>1
    <2> QED
      BY <2>1, <2>2, <2>3, <2>4 DEF DecoderReady, s
  <1>4. ASSUME NEW w \in Workers, WorkerStep(w) \/ SpuriousWakeup(w), ~PopFrame(w)
        PROVE  DecoderReady'
    <2>1. CASE TakeToken(w)
      <3>1. /\ pc[w] \in {"enter", "woken"}
            /\ held' = [held EXCEPT ![w] = Head(readyQue_)]
            /\ UNCHANGED <<frame, decoders_>>
        BY <2>1 DEF TakeToken, HasMtx
      <3>2. frame[w] = None
        BY <1>0, <3>1 DEF InHandStates
      <3> QED
        BY <1>0, <1>2, <3>1, <3>2
    <2>2. CASE Finish(w)
      <3>1. /\ pc[w] = "finish"
            /\ held' = [held EXCEPT ![w] = None]
            /\ UNCHANGED <<frame, decoders_>>
        BY <2>2 DEF Finish
      <3>2. frame[w] = None
        BY <1>0, <3>1 DEF InHandStates
      <3> QED
        BY <1>0, <1>2, <3>1, <3>2
    <2>3. CASE CheckSelected(w) \/ Decode(w)
      BY <1>2, <2>3 DEF CheckSelected, Decode, Handled
    <2>4. CASE LoopTest(w) \/ Wait(w) \/ Break(w) \/ PopClosed(w) \/ SpuriousWakeup(w)
      BY <1>1, <2>4 DEF LoopTest, Wait, Break, PopClosed, SpuriousWakeup
    <2> QED
      BY <1>4, <2>1, <2>2, <2>3, <2>4 DEF WorkerStep
  <1>5. ASSUME NEW s \in Streams, NEW t \in FrameTypes, Receive(s, t)
        PROVE  DecoderReady'
    BY <1>1, <1>5 DEF Receive, worker
  <1>6. ASSUME NEW s \in Streams, SelectAudio(s)
        PROVE  DecoderReady'
    BY <1>1, <1>6 DEF SelectAudio, worker
  <1>7. CASE Announce \/ StopBegin
    BY <1>1, <1>7 DEF Announce, StopBegin, worker
  <1>8. CASE StopStep \/ UNCHANGED vars
    BY <1>1, <1>8 DEF StopStep, CloseQueue, StopNotify, Join, vars, worker
  <1> QED
    BY <1>3, <1>4, <1>5, <1>6, <1>7, <1>8 DEF Next, Stopped

\* No two workers ever use the decoders and the sink of one stream, and the
\* decoder a worker uses is there.
THEOREM OneWorker == Spec => []OneWorkerPerStream
  <1>1. Init => DecoderReady
    BY DEF Init, DecoderReady
  <1>2. TypeInv /\ TokenInv /\ DecoderReady => OneWorkerPerStream
    BY DEF TypeInv, TokenInv, LocalsAgree, TokenUnique, DecoderReady,
           OneWorkerPerStream
  <1> QED
    BY <1>1, <1>2, TypeInvAlways, TokensCorrect, DecoderReadyNext, PTL DEF Spec

----
(* No frame is left behind.                                                *)

\* A token appended to readyQue_ is found there, and so are the old ones.
LEMMA AppendKeeps ==
    ASSUME NEW q \in Seq(Streams), NEW s \in Streams
    PROVE  /\ \E i \in DOMAIN Append(q, s) : Append(q, s)[i] = s
           /\ \A r \in Streams :
                (\E i \in DOMAIN q : q[i] = r)
                  => \E i \in DOMAIN Append(q, s) : Append(q, s)[i] = r
  <1>1. /\ Append(q, s) \in Seq(Streams)
        /\ Len(Append(q, s)) = Len(q) + 1
        /\ \A i \in 1..Len(q) : Append(q, s)[i] = q[i]
        /\ Append(q, s)[Len(q) + 1] = s
    BY AppendProperties
  <1>2. Len(q) \in Nat /\ DOMAIN q = 1..Len(q)
    BY LenProperties
  <1>3. DOMAIN Append(q, s) = 1..(Len(q) + 1)
    BY <1>1, LenProperties
  <1> QED
    BY <1>1, <1>2, <1>3

\* A push of a token keeps every stream that had one in the ready queue and adds
\* the pushed one (both push sites of DecodeScheduler.h).
LEMMA PushReady ==
    ASSUME NEW s \in Streams,
           readyQue_ \in Seq(Streams),
           readyQue_' = Append(readyQue_, s)
    PROVE  \A r \in Streams : InReady(r) \/ r = s => InReady(r)'
  BY AppendKeeps DEF InReady

\* Each step keeps NoStrandedFrame: one case per action that moves a frame or a
\* token.
LEMMA NoStrandedFrameNext ==
    TypeInv /\ NoStrandedFrame /\ [Next]_vars => NoStrandedFrame'
  <1> SUFFICES ASSUME TypeInv, NoStrandedFrame, [Next]_vars
               PROVE  NoStrandedFrame'
    OBVIOUS
  <1>0. /\ streamsQues_ \in [Streams -> Seq(Frames)]
        /\ readyQue_ \in Seq(Streams)
        /\ netStream \in Streams \union {None}
        /\ held \in [Workers -> Streams \union {None}]
        /\ \A w \in Workers : held[w] # None <=> pc[w] \in HoldingStates
    BY DEF TypeInv, TypeOK, LocalsAgree
  <1>1. CASE UNCHANGED <<streamsQues_, readyQue_, inFlight_, netStream, stopRequested>>
    BY <1>1 DEF NoStrandedFrame, InReady
  <1>2. ASSUME NEW s \in Streams, NEW t \in FrameTypes, Receive(s, t)
        PROVE  NoStrandedFrame'
    <2>1. UNCHANGED <<readyQue_, inFlight_, stopRequested>> /\ netStream = None
      BY <1>2 DEF Receive, mainVars
    <2>2. CASE UNCHANGED <<streamsQues_, netStream>>
      BY <1>1, <2>1, <2>2
    <2>3. CASE netStream' = s /\ \A r \in Streams \ {s} : streamsQues_'[r] = streamsQues_[r]
      BY <2>1, <2>3, ConstantsAssumption DEF NoStrandedFrame, InReady
    <2> QED
      BY <1>0, <1>2, <2>2, <2>3 DEF Receive
  <1>3. CASE Announce
    <2>1. UNCHANGED <<streamsQues_, inFlight_, stopRequested>> /\ netStream \in Streams
      BY <1>0, <1>3 DEF Announce, mainVars
    <2>2. CASE (netStream \in inFlight_ \/ InReady(netStream)) /\ UNCHANGED readyQue_
      BY <2>1, <2>2 DEF NoStrandedFrame, InReady
    <2>3. CASE readyQue_' = Append(readyQue_, netStream)
      <3>1. \A r \in Streams : InReady(r) \/ r = netStream => InReady(r)'
        BY <1>0, <2>1, <2>3, PushReady
      <3> QED
        BY <2>1, <3>1 DEF NoStrandedFrame
    <2> QED
      BY <1>3, <2>2, <2>3 DEF Announce
  <1>4. ASSUME NEW w \in Workers, TakeToken(w)
        PROVE  NoStrandedFrame'
    <2>1. /\ UNCHANGED <<streamsQues_, netStream, stopRequested>>
          /\ readyQue_ # <<>>
          /\ readyQue_' = Tail(readyQue_)
          /\ inFlight_' = inFlight_ \union {Head(readyQue_)}
      BY <1>4 DEF TakeToken, netVars, mainVars
    <2>2. \A r \in Streams : InReady(r) => r = Head(readyQue_) \/ InReady(r)'
      <3> SUFFICES ASSUME NEW i \in DOMAIN readyQue_
                   PROVE  \/ readyQue_[i] = Head(readyQue_)
                          \/ \E j \in DOMAIN Tail(readyQue_) :
                                Tail(readyQue_)[j] = readyQue_[i]
        BY <2>1 DEF InReady
      <3>1. /\ Len(readyQue_) \in Nat
            /\ i \in 1..Len(readyQue_)
            /\ Head(readyQue_) = readyQue_[1]
        BY <1>0, <2>1, LenProperties, TailToken
      <3>2. /\ DOMAIN Tail(readyQue_) = 1..(Len(readyQue_) - 1)
            /\ \A j \in 1..(Len(readyQue_) - 1) : Tail(readyQue_)[j] = readyQue_[j + 1]
        BY <1>0, <2>1, HeadTailProperties, LenProperties
      <3>3. CASE i = 1
        BY <3>1, <3>3
      <3>4. CASE i # 1
        <4>1. i - 1 \in 1..(Len(readyQue_) - 1) /\ (i - 1) + 1 = i
          BY <3>1, <3>4
        <4> QED
          BY <3>2, <4>1
      <3> QED
        BY <3>3, <3>4
    <2> QED
      BY <2>1, <2>2 DEF NoStrandedFrame
  <1>5. ASSUME NEW w \in Workers, PopFrame(w)
        PROVE  NoStrandedFrame'
    <2>1. /\ UNCHANGED <<readyQue_, inFlight_, netStream, stopRequested>>
          /\ \A r \in Streams : streamsQues_'[r] # <<>> => streamsQues_[r] # <<>>
      BY <1>0, <1>5 DEF PopFrame, netVars, mainVars
    <2> QED
      BY <2>1 DEF NoStrandedFrame, InReady
  <1>6. ASSUME NEW w \in Workers, Finish(w)
        PROVE  NoStrandedFrame'
    <2>1. /\ UNCHANGED <<streamsQues_, netStream, stopRequested>>
          /\ inFlight_' = inFlight_ \ {held[w]}
          /\ held[w] \in Streams
      BY <1>0, <1>6 DEF Finish, netVars, mainVars, HoldingStates
    <2>2. CASE streamsQues_[held[w]] = <<>>
      <3>1. UNCHANGED readyQue_
        BY <1>6, <2>2 DEF Finish
      <3> QED
        BY <2>1, <2>2, <3>1 DEF NoStrandedFrame, InReady
    <2>3. CASE streamsQues_[held[w]] # <<>>
      <3>1. readyQue_' = Append(readyQue_, held[w])
        BY <1>6, <2>3 DEF Finish
      <3>2. \A r \in Streams : InReady(r) \/ r = held[w] => InReady(r)'
        BY <1>0, <2>1, <3>1, PushReady
      <3> QED
        BY <2>1, <3>2 DEF NoStrandedFrame
    <2> QED
      BY <2>2, <2>3
  <1>7. CASE StopBegin
    BY <1>7 DEF StopBegin, NoStrandedFrame
  <1>8. ASSUME NEW w \in Workers, WorkerStep(w) \/ SpuriousWakeup(w),
               ~TakeToken(w), ~PopFrame(w), ~Finish(w)
        PROVE  NoStrandedFrame'
    BY <1>1, <1>8
    DEF WorkerStep, LoopTest, Wait, Break, PopClosed, CheckSelected, Decode,
        SpuriousWakeup, netVars, mainVars
  <1>9. ASSUME NEW s \in Streams, SelectAudio(s)
        PROVE  NoStrandedFrame'
    BY <1>1, <1>9 DEF SelectAudio, netVars, mainVars
  <1>10. CASE StopStep \/ UNCHANGED vars
    BY <1>1, <1>10
    DEF StopStep, CloseQueue, StopNotify, Join, vars, netVars, mainVars
  <1> QED
    BY <1>2, <1>3, <1>4, <1>5, <1>6, <1>7, <1>8, <1>9, <1>10 DEF Next, Stopped

\* Until stop() every stream with queued frames has a token or is about to be
\* given one by handle().
THEOREM NothingStranded == Spec => []NoStrandedFrame
  <1>1. Init => NoStrandedFrame
    BY DEF Init, NoStrandedFrame
  <1> QED
    BY <1>1, TypeInvAlways, NoStrandedFrameNext, PTL DEF Spec

----
(* No token's notification is lost.                                        *)

Woken == {w \in Workers : pc[w] = "woken"}

\* Counting woken workers: one more, none less, one less.
LEMMA Counting ==
    ASSUME NEW N \in SUBSET Workers, NEW M \in SUBSET Workers, NEW k \in Int,
           Cardinality(N) >= k
    PROVE  /\ N \subseteq M => Cardinality(M) >= k
           /\ \A c : c \notin N /\ N \union {c} \subseteq M => Cardinality(M) >= k + 1
           /\ \A c : N \ {c} \subseteq M => Cardinality(M) >= k - 1
  <1>1. IsFiniteSet(N) /\ IsFiniteSet(M)
    BY ConstantsAssumption, FS_Subset
  <1>2. Cardinality(N) \in Nat /\ Cardinality(M) \in Nat
    BY <1>1, FS_CardinalityType
  <1>3. N \subseteq M => Cardinality(M) >= k
    BY <1>1, <1>2, FS_Subset
  <1>4. ASSUME NEW c, c \notin N, N \union {c} \subseteq M
        PROVE  Cardinality(M) >= k + 1
    <2>1. Cardinality(N \union {c}) = Cardinality(N) + 1
      BY <1>1, <1>4, FS_AddElement
    <2>2. Cardinality(N \union {c}) <= Cardinality(M)
      BY <1>1, <1>4, FS_Subset
    <2> QED
      BY <1>2, <2>1, <2>2
  <1>5. ASSUME NEW c, N \ {c} \subseteq M
        PROVE  Cardinality(M) >= k - 1
    <2>1. /\ IsFiniteSet(N \ {c})
          /\ Cardinality(N \ {c}) =
               IF c \in N THEN Cardinality(N) - 1 ELSE Cardinality(N)
      BY <1>1, FS_RemoveElement
    <2>2. Cardinality(N \ {c}) <= Cardinality(M)
      BY <1>1, <1>5, FS_Subset
    <2>3. Cardinality(N \ {c}) \in Nat
      BY <2>1, FS_CardinalityType
    <2> QED
      BY <1>2, <2>1, <2>2, <2>3
  <1> QED
    BY <1>3, <1>4, <1>5

\* A token is added, and one waiting worker is notified (lines 90 and 145).
LEMMA TokenAdded ==
    ASSUME NEW p \in [Workers -> WorkerStates], pc \in [Workers -> WorkerStates],
           \A w \in Workers : p[w] # pc[w] => pc[w] \notin {"waiting", "woken"}
                                              /\ p[w] \notin {"waiting", "woken"},
           pc' \in NotifyOne(p),
           readyQue_ \in Seq(Streams), Len(readyQue_') = Len(readyQue_) + 1,
           NoLostWakeup
    PROVE  NoLostWakeup'
  <1> DEFINE waiters == {w \in Workers : p[w] = "waiting"}
  <1>1. waiters = Waiting /\ Woken = {w \in Workers : p[w] = "woken"}
    BY DEF Waiting, Woken
  <1>2. Len(readyQue_) \in Int
    BY LenProperties
  <1>3. CASE waiters = {}
    <2>1. pc' = p
      BY <1>3 DEF NotifyOne
    <2>2. Waiting' = {}
      BY <1>1, <1>3, <2>1 DEF Waiting
    <2> QED
      BY <2>2 DEF NoLostWakeup
  <1>4. CASE waiters # {}
    <2>1. PICK c \in waiters : pc' = [p EXCEPT ![c] = "woken"]
      BY <1>4 DEF NotifyOne
    <2>2. Cardinality(Woken) >= Len(readyQue_)
      BY <1>1, <1>4 DEF NoLostWakeup, Woken
    <2>3. c \notin Woken /\ Woken \union {c} \subseteq Woken'
      BY <1>1, <2>1 DEF Woken
    <2>4. Woken \in SUBSET Workers /\ Woken' \in SUBSET Workers
      BY DEF Woken
    <2>5. Cardinality(Woken') >= Len(readyQue_) + 1
      BY <1>2, <2>2, <2>3, <2>4, Counting
    <2> QED
      BY <2>5 DEF NoLostWakeup, Woken
  <1> QED
    BY <1>3, <1>4

\* No worker starts to wait, at most worker w stops being woken, and the number
\* of tokens falls by n.
LEMMA TokenTaken ==
    ASSUME NEW w \in Workers, NEW n \in {0, 1},
           readyQue_ \in Seq(Streams), Len(readyQue_') = Len(readyQue_) - n,
           \A v \in Workers \ {w} : pc'[v] = pc[v],
           pc'[w] # "waiting", n = 1 \/ pc[w] # "woken",
           NoLostWakeup
    PROVE  NoLostWakeup'
  <1>1. Len(readyQue_) \in Int
    BY LenProperties
  <1>2. Woken \in SUBSET Workers /\ Woken' \in SUBSET Workers
    BY DEF Woken
  <1>3. SUFFICES ASSUME Waiting' # {} PROVE Cardinality(Woken') >= Len(readyQue_')
    BY DEF NoLostWakeup, Woken
  <1>4. Cardinality(Woken) >= Len(readyQue_)
    BY <1>3 DEF Waiting, NoLostWakeup, Woken
  <1>5. CASE n = 1
    <2>1. Woken \ {w} \subseteq Woken'
      BY DEF Woken
    <2> QED
      BY <1>1, <1>2, <1>4, <1>5, <2>1, Counting
  <1>6. CASE n = 0
    <2>1. Woken \subseteq Woken'
      BY <1>6 DEF Woken
    <2> QED
      BY <1>1, <1>2, <1>4, <1>6, <2>1, Counting
  <1> QED
    BY <1>5, <1>6

\* Without tokens there is nothing to be told.
LEMMA NoTokens == Len(readyQue_) = 0 => NoLostWakeup
  <1>1. Woken \in SUBSET Workers /\ IsFiniteSet(Woken)
    BY ConstantsAssumption, FS_Subset DEF Woken
  <1>2. Cardinality(Woken) \in Nat
    BY <1>1, FS_CardinalityType
  <1> QED
    BY <1>2 DEF NoLostWakeup, Woken

LEMMA WakeupNext == TypeInv /\ NoLostWakeup /\ [Next]_vars => NoLostWakeup'
  <1> SUFFICES ASSUME TypeInv, NoLostWakeup, [Next]_vars PROVE NoLostWakeup'
    OBVIOUS
  <1>0. /\ pc \in [Workers -> WorkerStates]
        /\ readyQue_ \in Seq(Streams) /\ Len(readyQue_) \in Nat
        /\ netStream \in Streams \union {None}
        /\ \A w \in Workers : pc[w] \in HoldingStates => held[w] \in Streams
    BY LenProperties DEF TypeInv, TypeOK, LocalsAgree
  <1>1. ASSUME UNCHANGED <<pc, readyQue_>>
        PROVE  NoLostWakeup'
    BY <1>1 DEF NoLostWakeup, Waiting
  <1>2. CASE Announce
    <2>1. CASE netStream \in inFlight_ \/ InReady(netStream)
      BY <1>1, <1>2, <2>1 DEF Announce
    <2>2. CASE ~(netStream \in inFlight_ \/ InReady(netStream))
      <3>1. /\ netStream \in Streams
            /\ readyQue_' = Append(readyQue_, netStream)
            /\ pc' \in NotifyOne(pc)
        BY <1>0, <1>2, <2>2 DEF Announce
      <3>2. Len(readyQue_') = Len(readyQue_) + 1
        BY <1>0, <3>1, AppendProperties
      <3> QED
        BY <1>0, <3>1, <3>2, TokenAdded
    <2> QED
      BY <2>1, <2>2
  <1>3. ASSUME NEW w \in Workers, Finish(w)
        PROVE  NoLostWakeup'
    <2> DEFINE atTop == [pc EXCEPT ![w] = "loop"]
    <2>1. pc[w] = "finish" /\ held[w] \in Streams
      BY <1>0, <1>3 DEF Finish, HoldingStates
    <2>2. /\ atTop \in [Workers -> WorkerStates]
          /\ atTop[w] = "loop"
          /\ \A v \in Workers \ {w} : atTop[v] = pc[v]
      BY <1>0 DEF WorkerStates
    <2>3. CASE streamsQues_[held[w]] # <<>>
      <3>1. readyQue_' = Append(readyQue_, held[w]) /\ pc' \in NotifyOne(atTop)
        BY <1>3, <2>3 DEF Finish
      <3>2. Len(readyQue_') = Len(readyQue_) + 1
        BY <1>0, <2>1, <3>1, AppendProperties
      <3>3. \A v \in Workers : atTop[v] # pc[v] => pc[v] \notin {"waiting", "woken"}
                                                   /\ atTop[v] \notin {"waiting", "woken"}
        BY <2>1, <2>2
      <3> HIDE DEF atTop
      <3> QED
        BY <1>0, <2>2, <3>1, <3>2, <3>3, TokenAdded
    <2>4. CASE streamsQues_[held[w]] = <<>>
      <3>1. readyQue_' = readyQue_ /\ pc' = atTop
        BY <1>3, <2>4 DEF Finish
      <3> HIDE DEF atTop
      <3> QED
        BY <1>0, <2>1, <2>2, <3>1, TokenTaken
    <2> QED
      BY <2>3, <2>4
  <1>4. ASSUME NEW w \in Workers, TakeToken(w)
        PROVE  NoLostWakeup'
    <2>1. /\ pc' = [pc EXCEPT ![w] = "pop"]
          /\ Len(readyQue_') = Len(readyQue_) - 1
      BY <1>0, <1>4, HeadTailProperties DEF TakeToken
    <2> QED
      BY <1>0, <2>1, TokenTaken
  <1>5. ASSUME NEW w \in Workers, Wait(w) \/ Break(w)
        PROVE  NoLostWakeup'
    <2>1. (Len(readyQue_) = 0)'
      BY <1>5, EmptySeq DEF Wait, Break
    <2> QED
      BY <2>1, NoTokens, PTL
  <1>6. ASSUME NEW w \in Workers,
               LoopTest(w) \/ PopFrame(w) \/ PopClosed(w) \/ CheckSelected(w) \/ Decode(w)
        PROVE  NoLostWakeup'
    <2>1. /\ readyQue_' = readyQue_
          /\ \A v \in Workers \ {w} : pc'[v] = pc[v]
          /\ pc'[w] # "waiting" /\ pc[w] # "woken"
      BY <1>0, <1>6 DEF LoopTest, PopFrame, PopClosed, CheckSelected, Decode, Handled
    <2> QED
      BY <1>0, <2>1, TokenTaken
  <1>7. ASSUME NEW w \in Workers, SpuriousWakeup(w)
        PROVE  NoLostWakeup'
    <2>1. /\ readyQue_' = readyQue_
          /\ \A v \in Workers \ {w} : pc'[v] = pc[v]
          /\ pc'[w] # "waiting" /\ pc[w] # "woken"
      BY <1>0, <1>7 DEF SpuriousWakeup
    <2> QED
      BY <1>0, <2>1, TokenTaken
  <1>8. ASSUME NEW s \in Streams, NEW t \in FrameTypes, Receive(s, t)
        PROVE  NoLostWakeup'
    BY <1>1, <1>8 DEF Receive, worker
  <1>9. ASSUME NEW s \in Streams, SelectAudio(s) \/ CloseQueue(s)
        PROVE  NoLostWakeup'
    BY <1>1, <1>9 DEF SelectAudio, CloseQueue, worker
  <1>10. CASE StopBegin
    <2>1. (Len(readyQue_) = 0)'
      BY <1>10, EmptySeq DEF StopBegin
    <2> QED
      BY <2>1, NoTokens, PTL
  <1>11. CASE StopNotify
    <2>1. Waiting' = {}
      BY <1>0, <1>11 DEF StopNotify, NotifyAll, Waiting
    <2> QED
      BY <2>1 DEF NoLostWakeup
  <1>12. CASE Join \/ UNCHANGED vars
    BY <1>1, <1>12 DEF Join, vars, worker
  <1> QED
    BY <1>2, <1>3, <1>4, <1>5, <1>6, <1>7, <1>8, <1>9, <1>10, <1>11, <1>12
    DEF Next, WorkerStep, StopStep, Stopped

\* While a worker waits there are as many woken workers as tokens, for any
\* number of workers.
THEOREM WakeupsKept == Spec => []NoLostWakeup
  <1>1. Init => NoLostWakeup
    BY NoTokens, EmptySeq DEF Init
  <1> QED
    BY <1>1, TypeInvAlways, WakeupNext, PTL DEF Spec

----
(* The answer of CheckSelected is stale for one frame at most.             *)

DecodesAudio(w, s) == pc[w] = "decode" /\ held[w] = s /\ frame[w].type = "AUDIO"

\* After a stream's one stale frame no worker is about to decode another.
StaleInv ==
    \A s \in Streams :
      /\ staleAudio[s] \in {0, 1}
      /\ staleAudio[s] = 1 /\ audioStreamID_ # s
           => \A w \in Workers : ~DecodesAudio(w, s)

LEMMA StaleNext == TypeInv /\ TokenInv /\ StaleInv /\ [Next]_vars => StaleInv'
  <1> SUFFICES ASSUME TypeInv, TokenInv, StaleInv, [Next]_vars PROVE StaleInv'
    OBVIOUS
  <1>0. /\ pc \in [Workers -> WorkerStates]
        /\ held \in [Workers -> Streams \union {None}]
        /\ frame \in [Workers -> Frames \union {None}]
        /\ staleAudio \in [Streams -> Nat]
        /\ \A w \in Workers : held[w] # None <=> pc[w] \in HoldingStates
    BY DEF TypeInv, TypeOK, LocalsAgree
  <1>1. ASSUME UNCHANGED <<staleAudio, audioStreamID_>>,
               \A w \in Workers, s \in Streams :
                 DecodesAudio(w, s)' => DecodesAudio(w, s) \/ audioStreamID_ = s
        PROVE  StaleInv'
    BY <1>1 DEF StaleInv
  <1>2. ASSUME UNCHANGED <<staleAudio, audioStreamID_, held, frame>>,
               NEW w \in Workers, pc'[w] # "decode",
               \A v \in Workers \ {w} : pc'[v] = "decode" => pc[v] = "decode"
        PROVE  StaleInv'
    <2>1. \A v \in Workers, s \in Streams : DecodesAudio(v, s)' => DecodesAudio(v, s)
      BY <1>2 DEF DecodesAudio
    <2> QED
      BY <1>1, <1>2, <2>1
  <1>3. ASSUME UNCHANGED <<staleAudio, audioStreamID_, held, frame>>,
               \A v \in Workers : pc'[v] = "decode" => pc[v] = "decode"
        PROVE  StaleInv'
    <2>1. \A v \in Workers, s \in Streams : DecodesAudio(v, s)' => DecodesAudio(v, s)
      BY <1>3 DEF DecodesAudio
    <2> QED
      BY <1>1, <1>3, <2>1
  <1>4. ASSUME NEW s \in Streams, NEW t \in FrameTypes, Receive(s, t)
        PROVE  StaleInv'
    BY <1>3, <1>4 DEF Receive, worker, uiVars, history
  <1>5. CASE Announce
    <2>1. \A w \in Workers : pc'[w] = pc[w] \/ (pc[w] = "waiting" /\ pc'[w] = "woken")
      BY <1>5, AnnounceEffect DEF TypeInv, TypeOK
    <2> QED
      BY <1>3, <1>5, <2>1 DEF Announce, uiVars, history
  <1>6. ASSUME NEW w \in Workers,
               LoopTest(w) \/ Wait(w) \/ SpuriousWakeup(w) \/ Break(w) \/ PopClosed(w)
        PROVE  StaleInv'
    BY <1>0, <1>2, <1>6
    DEF LoopTest, Wait, SpuriousWakeup, Break, PopClosed, uiVars, history
  <1>7. ASSUME NEW w \in Workers, TakeToken(w)
        PROVE  StaleInv'
    <2>1. /\ pc'[w] = "pop"
          /\ \A v \in Workers \ {w} : pc'[v] = pc[v] /\ held'[v] = held[v]
          /\ UNCHANGED <<staleAudio, audioStreamID_, frame>>
      BY <1>0, <1>7 DEF TakeToken, uiVars, history
    <2>2. \A v \in Workers, s \in Streams : DecodesAudio(v, s)' => DecodesAudio(v, s)
      BY <2>1 DEF DecodesAudio
    <2> QED
      BY <1>1, <2>1, <2>2
  <1>8. ASSUME NEW w \in Workers, PopFrame(w)
        PROVE  StaleInv'
    <2>1. /\ frame'[w].type = "VIDEO" \/ pc'[w] = "select"
          /\ \A v \in Workers \ {w} : pc'[v] = pc[v] /\ frame'[v] = frame[v]
          /\ UNCHANGED <<staleAudio, audioStreamID_, held>>
      BY <1>0, <1>8 DEF PopFrame, uiVars, history
    <2>2. \A v \in Workers, s \in Streams : DecodesAudio(v, s)' => DecodesAudio(v, s)
      BY <2>1 DEF DecodesAudio
    <2> QED
      BY <1>1, <2>1, <2>2
  <1>9. ASSUME NEW w \in Workers, CheckSelected(w)
        PROVE  StaleInv'
    <2>1. CASE audioStreamID_ = held[w]
      <3>1. /\ \A v \in Workers \ {w} : pc'[v] = pc[v]
            /\ UNCHANGED <<staleAudio, audioStreamID_, held, frame>>
        BY <1>0, <1>9, <2>1 DEF CheckSelected, uiVars
      <3>2. \A v \in Workers, s \in Streams :
              DecodesAudio(v, s)' => DecodesAudio(v, s) \/ audioStreamID_ = s
        BY <2>1, <3>1 DEF DecodesAudio
      <3> QED
        BY <1>1, <3>1, <3>2
    <2>2. CASE audioStreamID_ # held[w]
      <3>1. /\ pc'[w] = "finish"
            /\ \A v \in Workers \ {w} : pc'[v] = pc[v] /\ frame'[v] = frame[v]
            /\ UNCHANGED <<staleAudio, audioStreamID_, held>>
        BY <1>0, <1>9, <2>2 DEF CheckSelected, Handled, uiVars
      <3>2. \A v \in Workers, s \in Streams : DecodesAudio(v, s)' => DecodesAudio(v, s)
        BY <3>1 DEF DecodesAudio
      <3> QED
        BY <1>1, <3>1, <3>2
    <2> QED
      BY <2>1, <2>2
  <1>10. ASSUME NEW w \in Workers, Decode(w)
         PROVE  StaleInv'
    <2>1. /\ pc[w] = "decode" /\ pc'[w] = "finish"
          /\ held[w] \in Streams
          /\ \A v \in Workers \ {w} : pc'[v] = pc[v] /\ frame'[v] = frame[v]
          /\ UNCHANGED <<audioStreamID_, held>>
      BY <1>0, <1>10 DEF Decode, Handled, uiVars, HoldingStates
    <2>2. \A v \in Workers, s \in Streams :
            DecodesAudio(v, s)' => v # w /\ DecodesAudio(v, s)
      BY <2>1 DEF DecodesAudio
    <2>3. CASE UNCHANGED staleAudio
      BY <1>1, <2>1, <2>2, <2>3
    <2>4. CASE /\ DecodesAudio(w, held[w]) /\ audioStreamID_ # held[w]
               /\ staleAudio' = [staleAudio EXCEPT ![held[w]] = @ + 1]
      <3>1. staleAudio[held[w]] = 0
        BY <2>1, <2>4 DEF StaleInv
      <3>2. /\ staleAudio'[held[w]] = 1
            /\ \A s \in Streams \ {held[w]} : staleAudio'[s] = staleAudio[s]
        BY <1>0, <2>1, <2>4, <3>1
      <3>3. \A v \in Workers \ {w} : held[v] # held[w]
        BY <1>0, <2>1 DEF TokenInv, TokenUnique, HoldingStates
      <3>4. \A v \in Workers : ~DecodesAudio(v, held[w])'
        BY <2>1, <3>3 DEF DecodesAudio
      <3> QED
        BY <2>1, <2>2, <3>2, <3>4 DEF StaleInv
    <2> QED
      BY <1>10, <2>3, <2>4 DEF Decode, DecodesAudio
  <1>11. ASSUME NEW w \in Workers, Finish(w)
         PROVE  StaleInv'
    <2>1. held[w] \in Streams /\ pc[w] = "finish"
      BY <1>0, <1>11 DEF Finish, HoldingStates
    <2>2. /\ pc'[w] = "loop"
          /\ \A v \in Workers \ {w} :
               pc'[v] = pc[v] \/ (pc[v] = "waiting" /\ pc'[v] = "woken")
      BY <1>0, <1>11, <2>1, FinishEffect DEF TypeInv, TypeOK
    <2>3. /\ \A v \in Workers \ {w} : held'[v] = held[v]
          /\ UNCHANGED <<staleAudio, audioStreamID_, frame>>
      BY <1>0, <1>11 DEF Finish, uiVars, history
    <2>4. \A v \in Workers, s \in Streams : DecodesAudio(v, s)' => DecodesAudio(v, s)
      BY <2>2, <2>3 DEF DecodesAudio
    <2> QED
      BY <1>1, <2>3, <2>4
  <1>12. ASSUME NEW s \in Streams, SelectAudio(s)
         PROVE  StaleInv'
    <2>1. /\ audioStreamID_ \in Streams /\ audioStreamID_' = s
          /\ staleAudio'[audioStreamID_] = 0
          /\ \A r \in Streams \ {audioStreamID_} : staleAudio'[r] = staleAudio[r]
          /\ UNCHANGED <<pc, held, frame>>
      BY <1>0, <1>12 DEF SelectAudio, worker, TypeInv, TypeOK
    <2> QED
      BY <2>1 DEF StaleInv, DecodesAudio
  <1>13. CASE StopBegin \/ Join \/ \E s \in Streams : CloseQueue(s)
    BY <1>3, <1>13 DEF StopBegin, Join, CloseQueue, worker, uiVars, history
  <1>14. CASE StopNotify
    <2>1. \A w \in Workers : pc'[w] = "decode" => pc[w] = "decode"
      BY <1>0, <1>14, NotifyAllEffect DEF StopNotify
    <2> QED
      BY <1>3, <1>14, <2>1 DEF StopNotify, uiVars, history
  <1>15. CASE UNCHANGED vars
    BY <1>3, <1>15 DEF vars, worker, uiVars, history
  <1> QED
    BY <1>4, <1>5, <1>6, <1>7, <1>8, <1>9, <1>10, <1>11, <1>12, <1>13, <1>14, <1>15
    DEF Next, WorkerStep, StopStep, Stopped

\* After a stream is deselected at most one of its audio frames is still
\* decoded, however many workers there are (lines 122-135).
THEOREM OneStaleFrame == Spec => []AtMostOneStaleAudio
  <1>1. Init => StaleInv
    BY DEF Init, StaleInv
  <1>2. StaleInv => AtMostOneStaleAudio
    BY DEF StaleInv, AtMostOneStaleAudio
  <1> QED
    BY <1>1, <1>2, TypeInvAlways, TokensCorrect, StaleNext, PTL DEF Spec

----
(* The scheduler implements OrderedStreams.                                *)

\* Because no two workers hold one stream, Current is the frame of the worker
\* that holds it.
LEMMA HandFrame ==
    TypeInv /\ TokenUnique =>
      \A s \in Streams :
        /\ \A w \in Workers : held[w] = s /\ frame[w] # None => Current[s] = frame[w]
        /\ (\A w \in Workers : held[w] = s => frame[w] = None) => Current[s] = None
  <1> SUFFICES ASSUME TypeInv, TokenUnique, NEW s \in Streams
               PROVE  /\ \A w \in Workers :
                           held[w] = s /\ frame[w] # None => Current[s] = frame[w]
                      /\ (\A w \in Workers : held[w] = s => frame[w] = None)
                           => Current[s] = None
    OBVIOUS
  <1>1. ASSUME NEW w \in Workers, held[w] = s, frame[w] # None
        PROVE  Current[s] = frame[w]
    <2>1. w \in InHand(s) /\ \A v \in InHand(s) : v = w
      BY <1>1, ConstantsAssumption DEF InHand, TokenUnique
    <2>2. (CHOOSE v \in InHand(s) : TRUE) = w
      BY <2>1
    <2> QED
      BY <2>1, <2>2 DEF Current
  <1>2. ASSUME \A w \in Workers : held[w] = s => frame[w] = None
        PROVE  Current[s] = None
    BY <1>2 DEF InHand, Current
  <1> QED
    BY <1>1, <1>2

LEMMA HandFrameNext ==
    ASSUME TypeInv', TokenUnique'
    PROVE  \A s \in Streams :
             /\ \A w \in Workers : held'[w] = s /\ frame'[w] # None => Current'[s] = frame'[w]
             /\ (\A w \in Workers : held'[w] = s => frame'[w] = None) => Current'[s] = None
  <1>1. (\A s \in Streams :
           /\ \A w \in Workers : held[w] = s /\ frame[w] # None => Current[s] = frame[w]
           /\ (\A w \in Workers : held[w] = s => frame[w] = None) => Current[s] = None)'
    BY HandFrame, PTL
  <1> QED
    BY <1>1

\* A worker whose frame and stream stay leaves Current as it was.
LEMMA SameHands ==
    ASSUME TypeInv, TokenUnique, TypeInv', TokenUnique', NEW s \in Streams,
           \A w \in Workers : held[w] = s \/ held'[w] = s
             => /\ frame'[w] = frame[w]
                /\ frame[w] # None => held'[w] = held[w]
    PROVE  Current'[s] = Current[s]
  <1>1. CASE \E w \in Workers : held[w] = s /\ frame[w] # None
    BY <1>1, HandFrame, HandFrameNext
  <1>2. CASE \A w \in Workers : held[w] = s => frame[w] = None
    <2>1. \A w \in Workers : held'[w] = s => frame'[w] = None
      BY <1>2
    <2> QED
      BY <1>2, <2>1, HandFrame, HandFrameNext
  <1> QED
    BY <1>1, <1>2

LEMMA SameCurrent ==
    ASSUME \A s \in Streams : Current'[s] = Current[s]
    PROVE  Current' = Current
  BY DEF Current

LEMMA OneCurrent ==
    ASSUME NEW s \in Streams, NEW f, Current'[s] = f,
           \A r \in Streams \ {s} : Current'[r] = Current[r]
    PROVE  Current' = [Current EXCEPT ![s] = f]
  <1>1. Current = [r \in Streams |-> Current[r]]
    BY DEF Current
  <1>2. Current' = [r \in Streams |-> Current'[r]]
    BY DEF Current
  <1>3. [Current EXCEPT ![s] = f] = [r \in Streams |-> IF r = s THEN f ELSE Current[r]]
    BY <1>1
  <1> QED
    BY <1>2, <1>3

\* Every step of the code is a step of the mailboxes or invisible to them.
LEMMA OrderedStep ==
    ASSUME TypeInv, TokenInv, TypeInv', TokenInv', [Next]_vars
    PROVE  [Ordered!Next]_(Ordered!vars)
  <1>0. /\ pc \in [Workers -> WorkerStates]
        /\ held \in [Workers -> Streams \union {None}]
        /\ frame \in [Workers -> Frames \union {None}]
        /\ streamsQues_ \in [Streams -> Seq(Frames)]
        /\ handled \in [Streams -> Seq(Frames)]
        /\ closed \in [Streams -> BOOLEAN]
        /\ \A w \in Workers : held[w] # None <=> pc[w] \in HoldingStates
        /\ \A w \in Workers : frame[w] # None <=> pc[w] \in InHandStates
        /\ TokenUnique /\ TokenUnique'
    BY DEF TypeInv, TypeOK, LocalsAgree, TokenInv
  <1>1. ASSUME UNCHANGED <<streamsQues_, handled, closed>>,
               \A w \in Workers : /\ frame'[w] = frame[w]
                                  /\ frame[w] # None => held'[w] = held[w]
        PROVE  UNCHANGED Ordered!vars
    <2>1. Current' = Current
      BY <1>0, <1>1, SameHands, SameCurrent
    <2> QED
      BY <1>1, <2>1 DEF Ordered!vars
  <1>2. ASSUME UNCHANGED <<streamsQues_, handled, closed, held, frame>>
        PROVE  UNCHANGED Ordered!vars
    BY <1>1, <1>2
  <1>3. ASSUME UNCHANGED <<held, frame>>
        PROVE  Current' = Current
    BY <1>0, <1>3, SameHands, SameCurrent
  <1>4. ASSUME NEW s \in Streams, NEW t \in FrameTypes, Receive(s, t)
        PROVE  Ordered!Accept(s) \/ UNCHANGED Ordered!vars
    <2> DEFINE f == [id |-> received[s] + 1, type |-> t]
    <2>1. UNCHANGED <<handled, closed, held, frame>>
      BY <1>4 DEF Receive, history, worker
    <2>2. CASE closed[s] \/ Len(streamsQues_[s]) >= MAX_FRAMES
      BY <1>2, <1>4, <2>1, <2>2 DEF Receive
    <2>3. CASE ~(closed[s] \/ Len(streamsQues_[s]) >= MAX_FRAMES)
      <3>1. streamsQues_' = [streamsQues_ EXCEPT ![s] = Append(@, f)]
        BY <1>4, <2>3 DEF Receive
      <3>2. received[s] \in Nat /\ received[s] + 1 \in 1..FrameBound
        <4>1. received[s] \in 0..FrameBound /\ received[s] < FrameBound
          BY <1>4 DEF Receive, TypeInv, TypeOK
        <4> QED
          BY <4>1, ConstantsAssumption
      <3>3. f \in Frames
        BY <3>2, FrameFields
      <3>4. Len(streamsQues_[s]) < MAX_FRAMES
        BY <1>0, <2>3, FrameSeq, ConstantsAssumption
      <3> HIDE DEF f
      <3> QED
        BY <1>3, <2>1, <2>3, <3>1, <3>3, <3>4 DEF Ordered!Accept
    <2> QED
      BY <2>2, <2>3
  <1>5. ASSUME NEW w \in Workers, PopFrame(w)
        PROVE  Ordered!Begin(held[w])
    <2>1. /\ pc[w] = "pop" /\ held[w] \in Streams /\ frame[w] = None
          /\ streamsQues_[held[w]] # <<>>
      BY <1>0, <1>5 DEF PopFrame, HoldingStates, InHandStates
    <2>2. /\ frame' = [frame EXCEPT ![w] = Head(streamsQues_[held[w]])]
          /\ streamsQues_' = [streamsQues_ EXCEPT ![held[w]] = Tail(@)]
          /\ UNCHANGED <<held, handled, closed>>
      BY <1>5 DEF PopFrame, history
    <2>3. Head(streamsQues_[held[w]]) \in Frames
      BY <1>0, <2>1, FrameSeq
    <2>4. \A v \in Workers : held[v] = held[w] => v = w
      BY <1>0, <2>1, ConstantsAssumption DEF TokenUnique
    <2>5. /\ Current[held[w]] = None
          /\ Current'[held[w]] = Head(streamsQues_[held[w]])
      BY <1>0, <2>1, <2>2, <2>3, <2>4, HandFrame, HandFrameNext, FrameAssumption
    <2>6. \A s \in Streams \ {held[w]} : Current'[s] = Current[s]
      BY <1>0, <2>2, SameHands
    <2>7. Current' = [Current EXCEPT ![held[w]] = Head(streamsQues_[held[w]])]
      BY <2>1, <2>5, <2>6, OneCurrent
    <2>8. UNCHANGED <<handled, [r \in Streams |-> ~closed[r]]>>
      BY <2>2
    <2> QED
      BY ONLY <2>1, <2>2, <2>5, <2>7, <2>8 DEF Ordered!Begin
  <1>6. ASSUME NEW w \in Workers, pc[w] \in InHandStates, Handled(w),
               UNCHANGED <<held, streamsQues_, closed>>
        PROVE  Ordered!End(held[w])
    <2>1. held[w] \in Streams /\ frame[w] \in Frames /\ frame[w] # None
      BY <1>0, <1>6 DEF HoldingStates, InHandStates
    <2>2. /\ handled' = [handled EXCEPT ![held[w]] = Append(@, frame[w])]
          /\ frame' = [frame EXCEPT ![w] = None]
      BY <1>6 DEF Handled
    <2>3. \A v \in Workers : held[v] = held[w] => v = w
      BY <1>0, <2>1, ConstantsAssumption DEF TokenUnique
    <2>4. Current[held[w]] = frame[w] /\ Current'[held[w]] = None
      BY <1>0, <1>6, <2>1, <2>2, <2>3, HandFrame, HandFrameNext
    <2>5. \A s \in Streams \ {held[w]} : Current'[s] = Current[s]
      BY <1>0, <1>6, <2>2, SameHands
    <2>6. Current' = [Current EXCEPT ![held[w]] = None]
      BY <2>1, <2>4, <2>5, OneCurrent
    <2> QED
      BY <1>6, <2>1, <2>2, <2>4, <2>6 DEF Ordered!End
  <1>7. ASSUME NEW w \in Workers, CheckSelected(w) \/ Decode(w)
        PROVE  Ordered!End(held[w]) \/ UNCHANGED Ordered!vars
    <2>1. CASE CheckSelected(w) /\ audioStreamID_ = held[w]
      BY <1>2, <2>1 DEF CheckSelected
    <2>2. CASE CheckSelected(w) /\ audioStreamID_ # held[w]
      BY <1>6, <2>2 DEF CheckSelected, InHandStates
    <2>3. CASE Decode(w)
      BY <1>6, <2>3 DEF Decode, InHandStates
    <2> QED
      BY <1>7, <2>1, <2>2, <2>3
  <1>8. ASSUME NEW w \in Workers,
               TakeToken(w) \/ Finish(w)
        PROVE  UNCHANGED Ordered!vars
    <2>1. /\ frame[w] = None
          /\ \A v \in Workers \ {w} : held'[v] = held[v]
          /\ UNCHANGED <<streamsQues_, handled, closed, frame>>
      BY <1>0, <1>8 DEF TakeToken, Finish, HasMtx, history, InHandStates
    <2> QED
      BY <1>1, <2>1
  <1>9. ASSUME NEW w \in Workers,
               \/ LoopTest(w) \/ Wait(w) \/ Break(w) \/ PopClosed(w)
               \/ SpuriousWakeup(w)
        PROVE  UNCHANGED Ordered!vars
    BY <1>2, <1>9 DEF LoopTest, Wait, Break, PopClosed, SpuriousWakeup, history
  <1>10. ASSUME NEW s \in Streams, CloseQueue(s)
         PROVE  Ordered!Close(s)
    <2>1. /\ closed' = [closed EXCEPT ![s] = TRUE]
          /\ UNCHANGED <<streamsQues_, handled, held, frame>>
      BY <1>10 DEF CloseQueue, history, worker
    <2>2. [r \in Streams |-> ~closed'[r]] = [[r \in Streams |-> ~closed[r]] EXCEPT ![s] = FALSE]
      BY <1>0, <2>1
    <2> QED
      BY <1>3, <2>1, <2>2 DEF Ordered!Close
  <1>11. ASSUME Announce \/ (\E s \in Streams : SelectAudio(s)) \/ StopBegin
                \/ StopNotify \/ Join \/ UNCHANGED vars
         PROVE  UNCHANGED Ordered!vars
    BY <1>2, <1>11 DEF Announce, SelectAudio, StopBegin, StopNotify, Join,
                       history, worker, vars
  <1>12. \A w \in Workers : PopFrame(w) \/ CheckSelected(w) \/ Decode(w)
           => held[w] \in Streams
    BY <1>0 DEF PopFrame, CheckSelected, Decode, HoldingStates
  <1> QED
    BY <1>4, <1>5, <1>7, <1>8, <1>9, <1>10, <1>11, <1>12
    DEF Next, WorkerStep, StopStep, Stopped, Ordered!Next

\* The scheduler is a set of ordered, bounded mailboxes that are served one
\* frame at a time, whatever workers, tokens, wakeups and stop() do and however
\* many of them there are: the promise in the comment at line 85.
THEOREM SchedulerRefinement == Spec => ImplementsOrderedStreams
  <1>1. Init => Ordered!Init
    BY DEF Init, Ordered!Init, Current, InHand
  <1> QED
    BY <1>1, TypeInvAlways, TokensCorrect, OrderedStep, PTL
    DEF Spec, ImplementsOrderedStreams, Ordered!Spec

=============================================================================
