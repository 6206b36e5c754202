-------------------------- MODULE AudioPath_proofs --------------------------
(***************************************************************************)
(* Theorems about AudioPath, for any finite number of streams and any      *)
(* frame sizes that fit the device: no frame is cut, frames are lost only  *)
(* to a change of the selected stream, and all sleep on the one condition  *)
(* variable only when a frame does not fit.                                *)
(***************************************************************************)
EXTENDS AudioPath, FiniteSetTheorems, TLAPS

Actors == Streams \union {Sink}
Labels == {"idle", "call", "wait", "woken", "stopped"}

\* TypeOK but for the bound of delivered, which Budget below gives.
Typed ==
    /\ audioStreamID_ \in Streams
    /\ decoded \in [Streams -> FrameType]
    /\ audioFrame_ \in FrameType
    /\ audioData_ \in Nat /\ audioData_ <= MAX_BUFFER_SIZE
    /\ pc \in [Actors -> Labels]
    /\ delivered \in Nat
    /\ lost \in Nat
    /\ switches \in Nat /\ switches <= SwitchBound

LEMMA AudioNumbers ==
    /\ Sink \notin Streams /\ IsFiniteSet(Streams)
    /\ \A n \in FrameSizes : n \in Nat /\ n # 0 /\ n <= MAX_BUFFER_SIZE
    /\ \A n \in ReadSizes : n \in Nat /\ n # 0
    /\ MAX_BUFFER_SIZE \in Nat /\ FrameBound \in Nat /\ SwitchBound \in Nat
  BY AudioConstants

LEMMA FrameFields ==
    \A f \in FrameType : /\ f.from \in Actors /\ f.fresh \in Nat
                         /\ f.stride \in Nat /\ f.len \in Nat
  BY DEF FrameType, Actors

----
(* The condition variable.                                                 *)

\* notify_one(): at most one actor is woken, and one is if any waits.
LEMMA Notified ==
    ASSUME Typed, NEW a \in Actors, NEW next \in Labels, NotifyOne(a, next)
    PROVE  /\ pc' \in [Actors -> Labels]
           /\ pc'[a] = next
           /\ \/ /\ \A b \in Actors \ {a} : pc[b] # "wait" /\ pc'[b] = pc[b]
              \/ \E c \in Actors \ {a} :
                   /\ pc[c] = "wait" /\ pc'[c] = "woken"
                   /\ \A b \in Actors \ {a, c} : pc'[b] = pc[b]
  <1> DEFINE waiting == {b \in DOMAIN pc \ {a} : pc[b] = "wait"}
  <1>1. DOMAIN pc = Actors
    BY DEF Typed
  <1>2. CASE waiting = {}
    <2>1. pc' = [pc EXCEPT ![a] = next]
      BY <1>2 DEF NotifyOne
    <2> QED
      BY <1>1, <1>2, <2>1 DEF Typed
  <1>3. CASE waiting # {}
    <2>1. PICK c \in waiting : pc' = [pc EXCEPT ![a] = next, ![c] = "woken"]
      BY <1>3 DEF NotifyOne
    <2>2. c \in Actors \ {a} /\ pc[c] = "wait"
      BY <1>1
    <2>3. /\ pc' \in [Actors -> Labels]
          /\ pc'[a] = next /\ pc'[c] = "woken"
          /\ \A b \in Actors \ {a, c} : pc'[b] = pc[b]
      BY <2>1, <2>2 DEF Typed, Labels
    <2> QED
      BY <2>2, <2>3
  <1> QED
    BY <1>2, <1>3

\* An actor moves by itself: it sleeps, is called, or stops.
LEMMA Stepped ==
    ASSUME Typed, NEW a \in Actors, NEW next \in Labels, pc' = [pc EXCEPT ![a] = next]
    PROVE  /\ pc' \in [Actors -> Labels]
           /\ pc'[a] = next
           /\ \A b \in Actors \ {a} : pc'[b] = pc[b]
  BY DEF Typed

\* An actor that wakes by itself.
LEMMA WokenUp ==
    ASSUME Typed, NEW a \in DOMAIN pc, SpuriousWakeup(a)
    PROVE  /\ pc' \in [Actors -> Labels]
           /\ a \in Actors /\ pc[a] = "wait" /\ pc'[a] = "woken"
           /\ \A b \in Actors \ {a} : pc'[b] = pc[b]
           /\ \A t \in Streams : /\ pc'[t] = "call" => pc[t] = "call"
                                 /\ pc'[t] \in {"wait", "woken"} => pc[t] \in {"wait", "woken"}
           /\ UNCHANGED <<audioStreamID_, switches, decoded, audioFrame_, audioData_,
                          delivered, lost>>
  <1>1. /\ pc[a] = "wait" /\ pc' = [pc EXCEPT ![a] = "woken"] /\ a \in Actors
        /\ UNCHANGED <<audioStreamID_, switches, decoded, audioFrame_, audioData_,
                       delivered, lost>>
    BY DEF SpuriousWakeup, selectVars, deviceVars, Typed
  <1>2. /\ pc' \in [Actors -> Labels]
        /\ pc'[a] = "woken" /\ \A b \in Actors \ {a} : pc'[b] = pc[b]
    BY <1>1, Stepped DEF Labels
  <1> QED
    BY <1>1, <1>2 DEF Actors

----
(* Frames and their sizes.                                                 *)

\* A decoder's buffer was allocated for the largest frame so far, and its
\* stride says so; the device has a copy.  Who has something to append has a
\* frame.
Measured ==
    /\ \A s \in Streams : /\ decoded[s].len = decoded[s].stride
                          /\ decoded[s].fresh <= decoded[s].stride
                          /\ decoded[s].stride \in FrameSizes \union {0}
                          /\ pc[s] = "call" => decoded[s].stride # 0
    /\ audioFrame_.fresh <= audioFrame_.stride
    /\ audioFrame_.stride <= audioFrame_.len
    /\ audioFrame_.stride \in FrameSizes \union {0}
    /\ \A s \in Streams : pc[s] \in {"wait", "woken"} => audioFrame_.stride # 0

LEMMA NewFrame ==
    ASSUME NEW f \in FrameType, f.len = f.stride, f.stride \in FrameSizes \union {0},
           NEW n \in FrameSizes
    PROVE  LET g == [updateAudioFrameSize(f, n) EXCEPT !.fresh = n]
           IN /\ g \in FrameType
              /\ g.len = g.stride /\ g.fresh <= g.stride
              /\ g.stride \in FrameSizes /\ g.stride # 0
  <1> DEFINE u == updateAudioFrameSize(f, n)
  <1>1. /\ u \in FrameType /\ u.len = u.stride
        /\ n <= u.stride /\ u.stride \in FrameSizes /\ u.stride # 0
    <2>1. CASE f.len >= n
      <3>1. u = f
        BY <2>1 DEF updateAudioFrameSize
      <3> QED
        BY <2>1, <3>1, AudioNumbers, FrameFields
    <2>2. CASE ~(f.len >= n)
      <3>1. u = [f EXCEPT !.len = n, !.stride = n]
        BY <2>2 DEF updateAudioFrameSize
      <3>2. u \in FrameType /\ u.len = n /\ u.stride = n
        BY <3>1, AudioNumbers DEF FrameType
      <3> QED
        BY <3>2, AudioNumbers
    <2> QED
      BY <2>1, <2>2
  <1> HIDE DEF u
  <1>2. /\ [u EXCEPT !.fresh = n] \in FrameType
        /\ [u EXCEPT !.fresh = n].len = u.len
        /\ [u EXCEPT !.fresh = n].stride = u.stride
        /\ [u EXCEPT !.fresh = n].fresh = n
    BY <1>1, AudioNumbers DEF FrameType
  <1> QED
    BY <1>1, <1>2 DEF u

LEMMA CopiedFrame ==
    ASSUME NEW to \in FrameType, NEW f \in FrameType, NEW s \in Streams
    PROVE  LET g == [CopyFrame(to, f) EXCEPT !.from = s]
           IN /\ g \in FrameType /\ g.from = s
              /\ g.fresh = f.fresh /\ g.stride = f.stride
              /\ g.len >= f.len
  <1> DEFINE room == IF to.len < f.len THEN f.len ELSE to.len
             g == [[f EXCEPT !.len = room] EXCEPT !.from = s]
  <1>1. room \in Nat /\ room >= f.len
    BY FrameFields
  <1> HIDE DEF room
  <1>2. /\ g \in FrameType /\ g.from = s
        /\ g.fresh = f.fresh /\ g.stride = f.stride /\ g.len = room
    BY <1>1 DEF FrameType
  <1> QED
    BY <1>1, <1>2 DEF CopyFrame, room

\* What notify_one() leaves alone and what it wakes.
Woke(a) ==
    \/ \A b \in Actors \ {a} : pc[b] # "wait" /\ pc'[b] = pc[b]
    \/ \E c \in Actors \ {a} : /\ pc[c] = "wait" /\ pc'[c] = "woken"
                               /\ \A b \in Actors \ {a, c} : pc'[b] = pc[b]

\* The critical section of onAudioFrame(): the frame goes in and somebody is
\* woken, or the worker sleeps.
Appends(s, f) ==
    /\ audioData_ + f.stride <= MAX_BUFFER_SIZE
    /\ audioData_' = audioData_ + f.stride
    /\ lost' = lost + (IF f.from = s THEN 0 ELSE 1)
    /\ pc'[s] = "idle" /\ Woke(s)
Sleeps(s, f) ==
    /\ audioData_ + f.stride > MAX_BUFFER_SIZE
    /\ audioData_' = audioData_ /\ lost' = lost
    /\ pc'[s] = "wait" /\ \A b \in Actors \ {s} : pc'[b] = pc[b]

LEMMA AppendedOrWaits ==
    ASSUME Typed, NEW s \in Streams, NEW f \in FrameType, AppendOrWait(s, f)
    PROVE  /\ pc' \in [Actors -> Labels]
           /\ audioData_' \in Nat /\ audioData_' <= MAX_BUFFER_SIZE /\ lost' \in Nat
           /\ Appends(s, f) \/ Sleeps(s, f)
  <1>0. s \in Actors /\ f.stride \in Nat /\ audioData_ \in Nat /\ lost \in Nat
    BY FrameFields DEF Actors, Typed
  <1>1. CASE HasRoom(f)
    <2>1. /\ audioData_' = audioData_ + f.stride
          /\ lost' = lost + (IF f.from = s THEN 0 ELSE 1)
          /\ NotifyOne(s, "idle")
      BY <1>1 DEF AppendOrWait
    <2>2. pc' \in [Actors -> Labels] /\ pc'[s] = "idle" /\ Woke(s)
      BY <1>0, <2>1, Notified DEF Labels, Woke
    <2> QED
      BY <1>0, <1>1, <2>1, <2>2 DEF HasRoom, Appends
  <1>2. CASE ~HasRoom(f)
    <2>1. audioData_' = audioData_ /\ lost' = lost /\ pc' = [pc EXCEPT ![s] = "wait"]
      BY <1>2 DEF AppendOrWait, Sleep
    <2>2. pc' \in [Actors -> Labels] /\ pc'[s] = "wait" /\ \A b \in Actors \ {s} : pc'[b] = pc[b]
      BY <1>0, <2>1, Stepped DEF Labels
    <2> QED
      BY <1>0, <1>2, <2>1, <2>2, AudioNumbers DEF HasRoom, Sleeps, Typed
  <1> QED
    BY <1>1, <1>2

\* The sink's critical section.
LEMMA ReadOrWaits ==
    ASSUME Typed, NEW n \in ReadSizes, Read(n)
    PROVE  /\ pc' \in [Actors -> Labels]
           /\ audioData_' \in Nat /\ audioData_' <= audioData_
           /\ pc[Sink] \in {"idle", "woken"}
           /\ UNCHANGED <<audioStreamID_, switches, decoded, audioFrame_, delivered, lost>>
           /\ \/ audioData_ # 0 /\ pc'[Sink] = "idle" /\ Woke(Sink)
              \/ /\ audioData_ = 0 /\ pc'[Sink] = "wait"
                 /\ \A b \in Actors \ {Sink} : pc'[b] = pc[b]
  <1>0. Sink \in Actors /\ audioData_ \in Nat /\ n \in Nat
    BY AudioNumbers DEF Actors, Typed
  <1>1. /\ audioData_' = audioData_ - (IF n < audioData_ THEN n ELSE audioData_)
        /\ pc[Sink] \in {"idle", "woken"}
        /\ UNCHANGED <<audioStreamID_, switches, decoded, audioFrame_, delivered, lost>>
    BY DEF Read, TakeOut, selectVars
  <1>2. audioData_' \in Nat /\ audioData_' <= audioData_
    BY <1>0, <1>1
  <1>3. CASE audioData_ = 0
    <2>1. pc' = [pc EXCEPT ![Sink] = "wait"]
      BY <1>3 DEF Read, Sleep
    <2> QED
      BY <1>0, <1>1, <1>2, <1>3, <2>1, Stepped DEF Labels
  <1>4. CASE audioData_ # 0
    <2>1. NotifyOne(Sink, "idle")
      BY <1>4 DEF Read
    <2>2. pc' \in [Actors -> Labels] /\ pc'[Sink] = "idle" /\ Woke(Sink)
      BY <1>0, <2>1, Notified DEF Labels, Woke
    <2> QED
      BY <1>1, <1>2, <1>4, <2>2
  <1> QED
    BY <1>3, <1>4

----
(* Types and sizes.                                                        *)

LEMMA SoundInit == Init => Typed /\ Measured
  <1> SUFFICES ASSUME Init PROVE Typed /\ Measured
    OBVIOUS
  <1>1. NoFrame \in FrameType /\ NoFrame.len = 0 /\ NoFrame.stride = 0 /\ NoFrame.fresh = 0
    BY DEF NoFrame, FrameType
  <1>2. Typed
    BY <1>1, AudioNumbers DEF Init, Typed, Actors, Labels
  <1>3. Measured
    BY <1>1 DEF Init, Measured
  <1> QED
    BY <1>2, <1>3

\* A worker's critical section, with the frame that is in the device by then.
LEMMA MeasuredAppend ==
    ASSUME Typed, Measured, NEW s \in Streams, NEW f \in FrameType, AppendOrWait(s, f),
           audioFrame_' = f, UNCHANGED <<selectVars, decoded>>,
           f.fresh <= f.stride, f.stride <= f.len, f.stride \in FrameSizes, f.stride # 0,
           delivered' \in Nat
    PROVE  Typed' /\ Measured'
  <1>1. /\ pc' \in [Actors -> Labels]
        /\ audioData_' \in Nat /\ audioData_' <= MAX_BUFFER_SIZE /\ lost' \in Nat
        /\ Appends(s, f) \/ Sleeps(s, f)
    BY AppendedOrWaits
  <1>2. Typed'
    BY <1>1 DEF Typed, selectVars
  <1>3. \A t \in Streams : pc'[t] = "call" => pc[t] = "call"
    BY <1>1 DEF Appends, Sleeps, Woke, Actors
  <1>4. Measured'
    BY <1>3 DEF Measured
  <1> QED
    BY <1>2, <1>4

LEMMA SoundNext == Typed /\ Measured /\ [Next]_vars => Typed' /\ Measured'
  <1> SUFFICES ASSUME Typed, Measured, [Next]_vars PROVE Typed' /\ Measured'
    OBVIOUS
  <1>1. ASSUME NEW s \in Streams, NEW n \in FrameSizes, Decode(s, n) PROVE Typed' /\ Measured'
    <2> DEFINE g == [updateAudioFrameSize(decoded[s], n) EXCEPT !.fresh = n]
    <2>1. /\ decoded' = [decoded EXCEPT ![s] = g]
          /\ pc' = [pc EXCEPT ![s] = "call"]
          /\ UNCHANGED <<selectVars, deviceVars>>
      BY <1>1 DEF Decode, DecodeFrame
    <2>2. decoded[s] \in FrameType
      BY DEF Typed
    <2>3. /\ g \in FrameType /\ g.len = g.stride /\ g.fresh <= g.stride
          /\ g.stride \in FrameSizes /\ g.stride # 0
      BY <2>2, NewFrame DEF Measured
    <2> HIDE DEF g
    <2>4. /\ pc' \in [Actors -> Labels] /\ pc'[s] = "call"
          /\ \A b \in Actors \ {s} : pc'[b] = pc[b]
      BY <2>1, Stepped DEF Labels, Actors
    <2>5. decoded'[s] = g /\ \A t \in Streams \ {s} : decoded'[t] = decoded[t]
      BY <2>1 DEF Typed
    <2>6. Typed'
      BY <2>1, <2>3, <2>4 DEF Typed, selectVars, deviceVars
    <2>7. Measured'
      BY <2>1, <2>3, <2>4, <2>5 DEF Measured, Actors, deviceVars
    <2> QED
      BY <2>6, <2>7
  <1>2. ASSUME NEW s \in Streams, OnAudioFrame(s) PROVE Typed' /\ Measured'
    <2>1. decoded[s] \in FrameType /\ audioFrame_ \in FrameType
      BY DEF Typed
    <2>2. PICK f \in FrameType :
            /\ f = [CopyFrame(audioFrame_, decoded[s]) EXCEPT !.from = s]
            /\ f.fresh = decoded[s].fresh /\ f.stride = decoded[s].stride
            /\ f.len >= decoded[s].len
      BY <2>1, CopiedFrame
    <2>3. /\ audioFrame_' = f /\ AppendOrWait(s, f) /\ UNCHANGED <<selectVars, decoded>>
          /\ pc[s] = "call" /\ delivered' = delivered + 1
      BY <1>2, <2>2 DEF OnAudioFrame
    <2>4. f.fresh <= f.stride /\ f.stride <= f.len /\ f.stride \in FrameSizes /\ f.stride # 0
      BY <2>1, <2>2, <2>3, FrameFields DEF Measured
    <2>5. delivered' \in Nat
      BY <2>3 DEF Typed
    <2> QED
      BY <2>3, <2>4, <2>5, MeasuredAppend
  <1>3. ASSUME NEW s \in Streams, Resume(s) PROVE Typed' /\ Measured'
    <2>1. /\ pc[s] = "woken" /\ AppendOrWait(s, audioFrame_)
          /\ UNCHANGED <<selectVars, decoded, audioFrame_, delivered>>
      BY <1>3 DEF Resume
    <2>2. audioFrame_ \in FrameType /\ delivered' \in Nat
      BY <2>1 DEF Typed
    <2>3. /\ audioFrame_.fresh <= audioFrame_.stride /\ audioFrame_.stride <= audioFrame_.len
          /\ audioFrame_.stride \in FrameSizes /\ audioFrame_.stride # 0
      BY <2>1 DEF Measured
    <2> QED
      BY <2>1, <2>2, <2>3, MeasuredAppend
  <1>4. ASSUME NEW s \in Streams, setAudioStreamID(s) PROVE Typed' /\ Measured'
    <2>1. Typed'
      BY <1>4, AudioNumbers DEF setAudioStreamID, deviceVars, Typed
    <2>2. Measured'
      BY <1>4 DEF setAudioStreamID, deviceVars, Measured
    <2> QED
      BY <2>1, <2>2
  <1>5. ASSUME NEW n \in ReadSizes, Read(n) PROVE Typed' /\ Measured'
    <2>1. /\ pc' \in [Actors -> Labels]
          /\ audioData_' \in Nat /\ audioData_' <= audioData_
          /\ UNCHANGED <<audioStreamID_, switches, decoded, audioFrame_, delivered, lost>>
          /\ \/ Woke(Sink)
             \/ \A b \in Actors \ {Sink} : pc'[b] = pc[b]
      BY <1>5, ReadOrWaits
    <2>2. \A t \in Streams : /\ pc'[t] = "call" => pc[t] = "call"
                             /\ pc'[t] \in {"wait", "woken"} => pc[t] \in {"wait", "woken"}
      BY <2>1, AudioNumbers DEF Woke, Actors
    <2>3. Typed'
      BY <2>1, AudioNumbers DEF Typed
    <2>4. Measured'
      BY <2>1, <2>2 DEF Measured
    <2> QED
      BY <2>3, <2>4
  <1>6. CASE StopReading
    <2>1. pc' = [pc EXCEPT ![Sink] = "stopped"] /\ UNCHANGED <<selectVars, decoded, deviceVars>>
      BY <1>6 DEF StopReading
    <2>2. pc' \in [Actors -> Labels] /\ \A t \in Streams : pc'[t] = pc[t]
      BY <2>1, Stepped, AudioNumbers DEF Actors, Labels
    <2>3. Typed'
      BY <2>1, <2>2 DEF Typed, selectVars, deviceVars
    <2>4. Measured'
      BY <2>1, <2>2 DEF Measured, deviceVars
    <2> QED
      BY <2>3, <2>4
  <1>7. ASSUME NEW a \in DOMAIN pc, SpuriousWakeup(a) PROVE Typed' /\ Measured'
    <2>1. Typed'
      BY <1>7, WokenUp DEF Typed
    <2>2. Measured'
      BY <1>7, WokenUp DEF Measured
    <2> QED
      BY <2>1, <2>2
  <1>8. CASE UNCHANGED vars
    BY <1>8 DEF vars, selectVars, deviceVars, Typed, Measured
  <1> QED
    BY <1>1, <1>2, <1>3, <1>4, <1>5, <1>6, <1>7, <1>8 DEF Next, Worker, Reading

LEMMA AlwaysSound == Spec => [](Typed /\ Measured)
  BY SoundInit, SoundNext, PTL DEF Spec

----
(* Counting streams.                                                       *)

LEMMA SetsOfStreams ==
    ASSUME NEW S \in SUBSET Streams, NEW T \in SUBSET Streams
    PROVE  /\ IsFiniteSet(S) /\ Cardinality(S) \in Nat /\ Cardinality(T) \in Nat
           /\ T \subseteq S => Cardinality(T) <= Cardinality(S)
           /\ \A x : T \subseteq S \union {x} => Cardinality(T) <= Cardinality(S) + 1
           /\ \A x : x \in S /\ T \subseteq S \ {x} => Cardinality(T) <= Cardinality(S) - 1
  <1>1. IsFiniteSet(S) /\ IsFiniteSet(T)
    BY AudioNumbers, FS_Subset
  <1>2. Cardinality(S) \in Nat /\ Cardinality(T) \in Nat
    BY <1>1, FS_CardinalityType
  <1>3. T \subseteq S => Cardinality(T) <= Cardinality(S)
    BY <1>1, FS_Subset
  <1>4. ASSUME NEW x, T \subseteq S \union {x}
        PROVE  Cardinality(T) <= Cardinality(S) + 1
    <2>1. /\ IsFiniteSet(S \union {x})
          /\ Cardinality(S \union {x}) = IF x \in S THEN Cardinality(S) ELSE Cardinality(S) + 1
      BY <1>1, FS_AddElement
    <2>2. Cardinality(T) <= Cardinality(S \union {x})
      BY <1>4, <2>1, FS_Subset
    <2> QED
      BY <1>2, <2>1, <2>2
  <1>5. ASSUME NEW x, x \in S, T \subseteq S \ {x}
        PROVE  Cardinality(T) <= Cardinality(S) - 1
    <2>1. IsFiniteSet(S \ {x}) /\ Cardinality(S \ {x}) = Cardinality(S) - 1
      BY <1>1, <1>5, FS_RemoveElement
    <2> QED
      BY <1>5, <2>1, FS_Subset
  <1> QED
    BY <1>1, <1>2, <1>3, <1>4, <1>5

\* The frames delivered, and those that are about to be.
Calling == {s \in Streams : pc[s] = "call"}
Budget  == delivered + Cardinality(Calling) <= FrameBound

LEMMA BudgetInit == Init => Budget
  <1> SUFFICES ASSUME Init PROVE Budget
    OBVIOUS
  <1>1. Calling = {} /\ delivered = 0
    BY DEF Init, Calling
  <1> QED
    BY <1>1, FS_EmptySet, AudioNumbers DEF Budget

LEMMA BudgetNext == Typed /\ Budget /\ [Next]_vars => Budget'
  <1> SUFFICES ASSUME Typed, Budget, [Next]_vars PROVE Budget'
    OBVIOUS
  <1>0. Calling \in SUBSET Streams /\ Calling' \in SUBSET Streams /\ delivered \in Nat
    BY DEF Calling, Typed
  <1>1. ASSUME delivered' = delivered, Calling' \subseteq Calling PROVE Budget'
    <2>1. Cardinality(Calling') <= Cardinality(Calling)
      BY <1>0, <1>1, SetsOfStreams
    <2>2. Cardinality(Calling') \in Nat /\ Cardinality(Calling) \in Nat
      BY <1>0, SetsOfStreams
    <2> QED
      BY <1>0, <1>1, <2>1, <2>2, AudioNumbers DEF Budget
  <1>2. ASSUME NEW s \in Streams, NEW n \in FrameSizes, Decode(s, n) PROVE Budget'
    <2>1. /\ delivered + Cardinality(Calling) < FrameBound
          /\ pc' = [pc EXCEPT ![s] = "call"] /\ delivered' = delivered
      BY <1>2 DEF Decode, DecodeFrame, Calling, deviceVars
    <2>2. Calling' \subseteq Calling \union {s}
      BY <2>1 DEF Calling, Typed
    <2>3. Cardinality(Calling') <= Cardinality(Calling) + 1
      BY <1>0, <2>2, SetsOfStreams
    <2>4. Cardinality(Calling') \in Nat /\ Cardinality(Calling) \in Nat
      BY <1>0, SetsOfStreams
    <2> QED
      BY <1>0, <2>1, <2>3, <2>4, AudioNumbers DEF Budget
  <1>3. ASSUME NEW s \in Streams, NEW f \in FrameType, AppendOrWait(s, f)
        PROVE  Calling' \subseteq Calling \ {s}
    <2>1. Appends(s, f) \/ Sleeps(s, f)
      BY <1>3, AppendedOrWaits
    <2> QED
      BY <2>1 DEF Appends, Sleeps, Woke, Actors, Calling
  <1>4. ASSUME NEW s \in Streams, OnAudioFrame(s) PROVE Budget'
    <2>1. /\ pc[s] = "call" /\ delivered' = delivered + 1
          /\ AppendOrWait(s, [CopyFrame(audioFrame_, decoded[s]) EXCEPT !.from = s])
      BY <1>4 DEF OnAudioFrame
    <2>2. decoded[s] \in FrameType /\ audioFrame_ \in FrameType
      BY DEF Typed
    <2>3. s \in Calling /\ Calling' \subseteq Calling \ {s}
      BY <1>3, <2>1, <2>2, CopiedFrame DEF Calling
    <2>4. Cardinality(Calling') <= Cardinality(Calling) - 1
      BY <1>0, <2>3, SetsOfStreams
    <2>5. Cardinality(Calling') \in Nat /\ Cardinality(Calling) \in Nat
      BY <1>0, SetsOfStreams
    <2> QED
      BY <1>0, <2>1, <2>4, <2>5, AudioNumbers DEF Budget
  <1>5. ASSUME NEW s \in Streams, Resume(s) PROVE Budget'
    <2>1. AppendOrWait(s, audioFrame_) /\ delivered' = delivered /\ audioFrame_ \in FrameType
      BY <1>5 DEF Resume, Typed
    <2> QED
      BY <1>1, <1>3, <2>1
  <1>6. ASSUME NEW n \in ReadSizes, Read(n) PROVE Budget'
    <2>1. delivered' = delivered /\ (Woke(Sink) \/ \A b \in Actors \ {Sink} : pc'[b] = pc[b])
      BY <1>6, ReadOrWaits
    <2>2. Calling' \subseteq Calling
      BY <2>1, AudioNumbers DEF Woke, Actors, Calling
    <2> QED
      BY <1>1, <2>1, <2>2
  <1>7. CASE StopReading
    <2>1. delivered' = delivered /\ pc' = [pc EXCEPT ![Sink] = "stopped"]
      BY <1>7 DEF StopReading, deviceVars
    <2>2. Calling' \subseteq Calling
      BY <2>1 DEF Typed, Calling
    <2> QED
      BY <1>1, <2>1, <2>2
  <1>8. ASSUME NEW s \in Streams, setAudioStreamID(s) PROVE Budget'
    BY <1>1, <1>8 DEF setAudioStreamID, deviceVars, Calling
  <1>9. ASSUME NEW a \in DOMAIN pc, SpuriousWakeup(a) PROVE Budget'
    BY <1>1, <1>9, WokenUp DEF Calling
  <1>10. CASE UNCHANGED vars
    BY <1>1, <1>10 DEF vars, deviceVars, Calling
  <1> QED
    BY <1>2, <1>4, <1>5, <1>6, <1>7, <1>8, <1>9, <1>10 DEF Next, Worker, Reading

\* Every variable has its type, no frame is cut short and none is read past
\* its buffer, although only a buffer that grows sets the stride
\* (audioDecoder.cpp:24-31, audioBufferDevice.cpp:9).
THEOREM SoundWhole == Spec => []SoundInv
  <1>1. Typed /\ Budget => delivered \in 0..FrameBound
    <2> SUFFICES ASSUME Typed, Budget PROVE delivered \in 0..FrameBound
      OBVIOUS
    <2>1. Cardinality(Calling) \in Nat
      BY SetsOfStreams DEF Calling
    <2> QED
      BY <2>1, AudioNumbers DEF Typed, Budget
  <1>2. Typed /\ Budget => TypeOK
    BY <1>1, AudioNumbers DEF Typed, TypeOK, Actors, Labels
  <1>3. Typed /\ Measured => NothingCut
    BY FrameFields DEF Typed, Measured, NothingCut
  <1>4. Spec => []Budget
    BY AlwaysSound, BudgetInit, BudgetNext, PTL DEF Spec
  <1> QED
    BY <1>2, <1>3, <1>4, AlwaysSound, PTL DEF SoundInv

----
(* Lost frames.                                                            *)

\* Workers that are not selected any more and will overwrite the frame in the
\* device; workers that wait, but for the selected one whose frame is there.
Late   == {s \in Streams \ {audioStreamID_} : pc[s] = "call"}
Doomed == {s \in Streams : /\ pc[s] \in {"wait", "woken"}
                           /\ ~(s = audioStreamID_ /\ audioFrame_.from = s)}

\* A change of the selection pays for two frames: the one that takes the place
\* of another, and the one it took the place of.
Charged == lost + 2 * Cardinality(Late) + Cardinality(Doomed) <= 2 * switches

LEMMA ChargedInit == Init => Charged
  <1> SUFFICES ASSUME Init PROVE Charged
    OBVIOUS
  <1>1. Late = {} /\ Doomed = {} /\ lost = 0 /\ switches = 0
    BY DEF Init, Late, Doomed
  <1>2. Cardinality({}) = 0
    BY FS_EmptySet
  <1> QED
    BY <1>1, <1>2 DEF Charged

LEMMA ChargedNext == Typed /\ Measured /\ Charged /\ [Next]_vars => Charged'
  <1> SUFFICES ASSUME Typed, Measured, Charged, [Next]_vars PROVE Charged'
    OBVIOUS
  <1>0. /\ Late \in SUBSET Streams /\ Late' \in SUBSET Streams
        /\ Doomed \in SUBSET Streams /\ Doomed' \in SUBSET Streams
        /\ lost \in Nat /\ switches \in Nat
    BY DEF Late, Doomed, Typed
  <1>a. /\ Cardinality(Late) \in Nat /\ Cardinality(Late') \in Nat
        /\ Cardinality(Doomed) \in Nat /\ Cardinality(Doomed') \in Nat
    BY <1>0, SetsOfStreams
  <1>1. ASSUME lost' = lost, switches' = switches, Late' \subseteq Late, Doomed' \subseteq Doomed
        PROVE  Charged'
    <2>1. /\ Cardinality(Late') <= Cardinality(Late)
          /\ Cardinality(Doomed') <= Cardinality(Doomed)
      BY <1>0, <1>1, SetsOfStreams
    <2> QED
      BY <1>0, <1>a, <1>1, <2>1 DEF Charged
  <1>2. ASSUME NEW s \in Streams, NEW n \in FrameSizes, Decode(s, n) PROVE Charged'
    <2>1. /\ audioStreamID_ = s /\ pc[s] = "idle" /\ pc' = [pc EXCEPT ![s] = "call"]
          /\ UNCHANGED <<audioStreamID_, audioFrame_, lost, switches>>
      BY <1>2 DEF Decode, DecodeFrame, selectVars, deviceVars
    <2>2. Late' \subseteq Late /\ Doomed' \subseteq Doomed
      BY <2>1 DEF Typed, Late, Doomed
    <2> QED
      BY <1>1, <2>1, <2>2
  <1>3. ASSUME NEW s \in Streams, OnAudioFrame(s) PROVE Charged'
    <2>1. decoded[s] \in FrameType /\ audioFrame_ \in FrameType
      BY DEF Typed
    <2>2. PICK f \in FrameType :
            f = [CopyFrame(audioFrame_, decoded[s]) EXCEPT !.from = s] /\ f.from = s
      BY <2>1, CopiedFrame
    <2>3. /\ pc[s] = "call" /\ audioFrame_' = f /\ AppendOrWait(s, f)
          /\ UNCHANGED <<audioStreamID_, switches>>
      BY <1>3, <2>2 DEF OnAudioFrame, selectVars
    <2>4. Appends(s, f) \/ Sleeps(s, f)
      BY <2>3, AppendedOrWaits
    <2>5. lost' = lost
      BY <1>0, <2>2, <2>4 DEF Appends, Sleeps
    <2>6. \A t \in Streams \ {s} : /\ pc'[t] = "call" => pc[t] = "call"
                                   /\ pc'[t] \in {"wait", "woken"} => pc[t] \in {"wait", "woken"}
      BY <2>4 DEF Appends, Sleeps, Woke, Actors
    <2>7. pc'[s] # "call"
      BY <2>4 DEF Appends, Sleeps
    <2>8. CASE s = audioStreamID_
      <3>1. Late' \subseteq Late
        BY <2>3, <2>6, <2>7 DEF Late
      <3>2. Doomed' \subseteq Doomed
        BY <2>2, <2>3, <2>6, <2>8 DEF Doomed
      <3> QED
        BY <1>1, <2>3, <2>5, <3>1, <3>2
    <2>9. CASE s # audioStreamID_
      <3>1. s \in Late /\ Late' \subseteq Late \ {s}
        BY <2>3, <2>6, <2>7, <2>9 DEF Late
      <3>2. Doomed' \subseteq (Doomed \union {audioStreamID_}) \union {s}
        BY <2>3, <2>6 DEF Doomed
      <3>3. Cardinality(Late') <= Cardinality(Late) - 1
        BY <1>0, <3>1, SetsOfStreams
      <3>4. Doomed \union {audioStreamID_} \in SUBSET Streams
        BY <1>0 DEF Typed
      <3>5. /\ Cardinality(Doomed \union {audioStreamID_}) \in Nat
            /\ Cardinality(Doomed \union {audioStreamID_}) <= Cardinality(Doomed) + 1
            /\ Cardinality(Doomed') <= Cardinality(Doomed \union {audioStreamID_}) + 1
        BY <1>0, <3>2, <3>4, SetsOfStreams
      <3> QED
        BY <1>0, <1>a, <2>3, <2>5, <3>3, <3>5 DEF Charged
    <2> QED
      BY <2>8, <2>9
  <1>4. ASSUME NEW s \in Streams, Resume(s) PROVE Charged'
    <2>1. /\ pc[s] = "woken" /\ AppendOrWait(s, audioFrame_) /\ audioFrame_ \in FrameType
          /\ UNCHANGED <<audioStreamID_, audioFrame_, switches>>
      BY <1>4 DEF Resume, selectVars, Typed
    <2>2. Appends(s, audioFrame_) \/ Sleeps(s, audioFrame_)
      BY <2>1, AppendedOrWaits
    <2>3. \A t \in Streams \ {s} : /\ pc'[t] = "call" => pc[t] = "call"
                                   /\ pc'[t] \in {"wait", "woken"} => pc[t] \in {"wait", "woken"}
      BY <2>2 DEF Appends, Sleeps, Woke, Actors
    <2>4. pc'[s] \in {"idle", "wait"}
      BY <2>2 DEF Appends, Sleeps
    <2>5. Late' \subseteq Late
      BY <2>1, <2>3, <2>4 DEF Late
    <2>6. Doomed' \subseteq Doomed
      BY <2>1, <2>3 DEF Doomed
    <2>7. CASE lost' = lost
      BY <1>1, <2>1, <2>5, <2>6, <2>7
    <2>8. CASE lost' # lost
      <3>1. lost' = lost + 1 /\ audioFrame_.from # s /\ pc'[s] = "idle"
        BY <1>0, <2>2, <2>8 DEF Appends, Sleeps
      <3>2. s \in Doomed /\ Doomed' \subseteq Doomed \ {s}
        BY <2>1, <2>6, <3>1 DEF Doomed
      <3>3. /\ Cardinality(Doomed') <= Cardinality(Doomed) - 1
            /\ Cardinality(Late') <= Cardinality(Late)
        BY <1>0, <2>5, <3>2, SetsOfStreams
      <3> QED
        BY <1>0, <1>a, <2>1, <3>1, <3>3 DEF Charged
    <2> QED
      BY <2>7, <2>8
  <1>5. ASSUME NEW s \in Streams, setAudioStreamID(s) PROVE Charged'
    <2>1. /\ audioStreamID_' = s /\ switches' = switches + 1
          /\ UNCHANGED <<pc, audioFrame_, lost>>
      BY <1>5 DEF setAudioStreamID, deviceVars
    <2>2. CASE pc[audioStreamID_] = "call"
      <3>1. Late' \subseteq Late \union {audioStreamID_} /\ Doomed' \subseteq Doomed
        BY <2>1, <2>2 DEF Late, Doomed
      <3>2. /\ Cardinality(Late') <= Cardinality(Late) + 1
            /\ Cardinality(Doomed') <= Cardinality(Doomed)
        BY <1>0, <3>1, SetsOfStreams
      <3> QED
        BY <1>0, <1>a, <2>1, <3>2 DEF Charged
    <2>3. CASE pc[audioStreamID_] # "call"
      <3>1. Late' \subseteq Late /\ Doomed' \subseteq Doomed \union {audioStreamID_}
        BY <2>1, <2>3 DEF Late, Doomed
      <3>2. /\ Cardinality(Late') <= Cardinality(Late)
            /\ Cardinality(Doomed') <= Cardinality(Doomed) + 1
        BY <1>0, <3>1, SetsOfStreams
      <3> QED
        BY <1>0, <1>a, <2>1, <3>2 DEF Charged
    <2> QED
      BY <2>2, <2>3
  <1>6. ASSUME NEW n \in ReadSizes, Read(n) PROVE Charged'
    <2>1. /\ UNCHANGED <<audioStreamID_, switches, audioFrame_, lost>>
          /\ Woke(Sink) \/ \A b \in Actors \ {Sink} : pc'[b] = pc[b]
      BY <1>6, ReadOrWaits
    <2>2. \A t \in Streams : /\ pc'[t] = "call" => pc[t] = "call"
                             /\ pc'[t] \in {"wait", "woken"} => pc[t] \in {"wait", "woken"}
      BY <2>1, AudioNumbers DEF Woke, Actors
    <2>3. Late' \subseteq Late /\ Doomed' \subseteq Doomed
      BY <2>1, <2>2 DEF Late, Doomed
    <2> QED
      BY <1>1, <2>1, <2>3
  <1>7. CASE StopReading
    <2>1. /\ pc' = [pc EXCEPT ![Sink] = "stopped"]
          /\ UNCHANGED <<audioStreamID_, switches, audioFrame_, lost>>
      BY <1>7 DEF StopReading, selectVars, deviceVars
    <2>2. Late' \subseteq Late /\ Doomed' \subseteq Doomed
      BY <2>1 DEF Typed, Late, Doomed
    <2> QED
      BY <1>1, <2>1, <2>2
  <1>8. ASSUME NEW a \in DOMAIN pc, SpuriousWakeup(a) PROVE Charged'
    <2>1. Late' \subseteq Late /\ Doomed' \subseteq Doomed
      BY <1>8, WokenUp DEF Late, Doomed
    <2> QED
      BY <1>1, <1>8, <2>1, WokenUp
  <1>9. CASE UNCHANGED vars
    BY <1>1, <1>9 DEF vars, selectVars, deviceVars, Late, Doomed
  <1> QED
    BY <1>2, <1>3, <1>4, <1>5, <1>6, <1>7, <1>8, <1>9 DEF Next, Worker, Reading

\* Frames are lost only where the selection went from one stream to another:
\* two for a change, at most (audioBufferDevice.cpp:21-25).
THEOREM LossBounded == Spec => []LostBySwitching
  <1>1. Typed /\ Charged => LostBySwitching
    <2> SUFFICES ASSUME Typed, Charged PROVE LostBySwitching
      OBVIOUS
    <2>1. Cardinality(Late) \in Nat /\ Cardinality(Doomed) \in Nat
      BY SetsOfStreams DEF Late, Doomed
    <2> QED
      BY <2>1 DEF Typed, Charged, LostBySwitching
  <1> QED
    BY <1>1, AlwaysSound, ChargedInit, ChargedNext, PTL DEF Spec

----
(* One condition variable for both sides.                                  *)

Waiting == {s \in Streams : pc[s] = "wait"}
StreamWoken == \E s \in Streams : pc[s] = "woken"

\* While the sink sleeps: what the theorem says.
SinkAsleep ==
    pc[Sink] = "wait" /\ ~StreamWoken =>
      IF Waiting # {} THEN ~HasRoom(audioFrame_) ELSE audioData_ = 0

\* While the sink is awake: no worker waits for room in an empty device, unless
\* one has been told of the room.
SinkAwake == pc[Sink] # "wait" /\ audioData_ = 0 /\ Waiting # {} => StreamWoken

Awake == SinkAsleep /\ SinkAwake

LEMMA AwakeInit == Init => Awake
  <1> SUFFICES ASSUME Init PROVE Awake
    OBVIOUS
  <1>1. pc[Sink] = "idle" /\ Waiting = {}
    BY DEF Init, Waiting
  <1> QED
    BY <1>1 DEF Awake, SinkAsleep, SinkAwake

\* A worker whose frame f goes in leaves sound in the device and wakes somebody
\* if the sink sleeps; one whose frame does not waits, and there is no room.
LEMMA AwakeAppend ==
    ASSUME Typed, Typed', NEW s \in Streams, NEW f \in FrameType,
           f.stride \in FrameSizes, AppendOrWait(s, f), audioFrame_' = f
    PROVE  Awake'
  <1>0. /\ Appends(s, f) \/ Sleeps(s, f)
        /\ f.stride \in Nat /\ f.stride # 0 /\ f.stride <= MAX_BUFFER_SIZE
        /\ MAX_BUFFER_SIZE \in Nat /\ audioData_ \in Nat
        /\ s \in Actors /\ Sink \in Actors /\ s # Sink
    BY AppendedOrWaits, AudioNumbers DEF Typed, Actors
  <1>1. audioData_' # 0
    BY <1>0 DEF Appends, Sleeps
  <1>2. SinkAwake'
    BY <1>1 DEF SinkAwake
  <1>3. SinkAsleep'
    <2>1. CASE Appends(s, f)
      <3> SUFFICES ASSUME pc'[Sink] = "wait" PROVE \E t \in Streams : pc'[t] = "woken"
        BY DEF SinkAsleep, StreamWoken
      <3>1. pc[Sink] = "wait"
        BY <1>0, <2>1 DEF Appends, Woke
      <3>2. PICK c \in Actors \ {s} : pc'[c] = "woken"
        BY <1>0, <2>1, <3>1 DEF Appends, Woke
      <3> QED
        BY <3>2 DEF Actors
    <2>2. CASE Sleeps(s, f)
      <3>1. ~(audioData_' + audioFrame_'.stride <= MAX_BUFFER_SIZE)
        BY <1>0, <2>2 DEF Sleeps
      <3>2. s \in Waiting'
        BY <2>2 DEF Sleeps, Waiting
      <3> QED
        BY <3>1, <3>2 DEF SinkAsleep, HasRoom
    <2> QED
      BY <1>0, <2>1, <2>2
  <1> QED
    BY <1>2, <1>3 DEF Awake

LEMMA AwakeNext == Typed /\ Typed' /\ Measured /\ Awake /\ [Next]_vars => Awake'
  <1> SUFFICES ASSUME Typed, Typed', Measured, Awake, [Next]_vars PROVE Awake'
    OBVIOUS
  <1>0. Sink \in Actors /\ Sink \notin Streams /\ Streams \subseteq Actors
    BY AudioNumbers DEF Actors
  <1>1. ASSUME UNCHANGED <<audioData_, audioFrame_>>,
               NEW a \in Actors, pc[a] \notin {"wait", "woken"},
               pc'[a] # "wait", \A b \in Actors \ {a} : pc'[b] = pc[b]
        PROVE  Awake'
    <2>1. Waiting' = Waiting
      BY <1>0, <1>1 DEF Waiting
    <2>2. pc'[Sink] = "wait" <=> pc[Sink] = "wait"
      BY <1>0, <1>1
    <2>3. StreamWoken => StreamWoken'
      BY <1>0, <1>1 DEF StreamWoken
    <2>4. SinkAsleep'
      BY <1>1, <2>1, <2>2, <2>3 DEF Awake, SinkAsleep, HasRoom
    <2>5. SinkAwake'
      BY <1>1, <2>1, <2>2, <2>3 DEF Awake, SinkAwake
    <2> QED
      BY <2>4, <2>5 DEF Awake
  <1>2. ASSUME NEW s \in Streams, NEW n \in FrameSizes, Decode(s, n) PROVE Awake'
    <2>1. /\ pc[s] = "idle" /\ pc' = [pc EXCEPT ![s] = "call"]
          /\ UNCHANGED <<audioData_, audioFrame_>>
      BY <1>2 DEF Decode, DecodeFrame, deviceVars
    <2>2. pc'[s] = "call" /\ \A b \in Actors \ {s} : pc'[b] = pc[b]
      BY <1>0, <2>1, Stepped DEF Labels
    <2> QED
      BY <1>0, <1>1, <2>1, <2>2
  <1>3. ASSUME NEW s \in Streams, OnAudioFrame(s) PROVE Awake'
    <2>1. decoded[s] \in FrameType /\ audioFrame_ \in FrameType
      BY DEF Typed
    <2>2. PICK f \in FrameType :
            /\ f = [CopyFrame(audioFrame_, decoded[s]) EXCEPT !.from = s]
            /\ f.fresh = decoded[s].fresh /\ f.stride = decoded[s].stride
            /\ f.len >= decoded[s].len
      BY <2>1, CopiedFrame
    <2>3. pc[s] = "call" /\ AppendOrWait(s, f) /\ audioFrame_' = f
      BY <1>3, <2>2 DEF OnAudioFrame
    <2>4. f.stride \in FrameSizes
      BY <2>2, <2>3 DEF Measured
    <2> QED
      BY <2>3, <2>4, AwakeAppend
  <1>4. ASSUME NEW s \in Streams, Resume(s) PROVE Awake'
    <2>1. /\ pc[s] = "woken" /\ AppendOrWait(s, audioFrame_) /\ audioFrame_ \in FrameType
          /\ audioFrame_' = audioFrame_
      BY <1>4 DEF Resume, Typed
    <2>2. audioFrame_.stride \in FrameSizes
      BY <2>1 DEF Measured
    <2> QED
      BY <2>1, <2>2, AwakeAppend
  <1>5. ASSUME NEW s \in Streams, setAudioStreamID(s) PROVE Awake'
    <2>1. UNCHANGED <<pc, audioData_, audioFrame_>>
      BY <1>5 DEF setAudioStreamID, deviceVars
    <2> QED
      BY <2>1 DEF Awake, SinkAsleep, SinkAwake, StreamWoken, Waiting, HasRoom
  <1>6. ASSUME NEW n \in ReadSizes, Read(n) PROVE Awake'
    <2>1. pc[Sink] \in {"idle", "woken"}
      BY <1>6, ReadOrWaits
    <2>2. CASE audioData_ # 0 /\ pc'[Sink] = "idle" /\ Woke(Sink)
      <3>1. SinkAsleep'
        BY <2>2 DEF SinkAsleep
      <3>2. SinkAwake'
        <4> SUFFICES ASSUME NEW t \in Streams, pc'[t] = "wait" PROVE StreamWoken'
          BY DEF SinkAwake, Waiting
        <4>1. \E c \in Actors \ {Sink} : pc'[c] = "woken"
          BY <1>0, <2>2 DEF Woke
        <4> QED
          BY <4>1 DEF Actors, StreamWoken
      <3> QED
        BY <3>1, <3>2 DEF Awake
    <2>3. CASE audioData_ = 0 /\ pc'[Sink] = "wait" /\ \A b \in Actors \ {Sink} : pc'[b] = pc[b]
      <3>1. Waiting' = Waiting
        BY <1>0, <2>3 DEF Waiting
      <3>2. Waiting # {} => StreamWoken'
        BY <1>0, <2>1, <2>3 DEF Awake, SinkAwake, StreamWoken
      <3>3. audioData_' = 0
        BY <1>6, <2>3, ReadOrWaits DEF Typed
      <3>4. SinkAsleep' /\ SinkAwake'
        BY <2>3, <3>1, <3>2, <3>3 DEF SinkAsleep, SinkAwake
      <3> QED
        BY <3>4 DEF Awake
    <2> QED
      BY <1>6, <2>2, <2>3, ReadOrWaits
  <1>7. CASE StopReading
    <2>1. /\ pc[Sink] = "idle" /\ pc' = [pc EXCEPT ![Sink] = "stopped"]
          /\ UNCHANGED <<audioData_, audioFrame_>>
      BY <1>7 DEF StopReading, deviceVars
    <2>2. pc'[Sink] = "stopped" /\ \A b \in Actors \ {Sink} : pc'[b] = pc[b]
      BY <1>0, <2>1, Stepped DEF Labels
    <2> QED
      BY <1>0, <1>1, <2>1, <2>2
  <1>8. ASSUME NEW a \in DOMAIN pc, SpuriousWakeup(a) PROVE Awake'
    <2>1. a \in Actors /\ pc[a] = "wait" /\ UNCHANGED <<audioData_, audioFrame_>>
      BY <1>8, WokenUp
    <2>2. pc'[a] = "woken" /\ \A b \in Actors \ {a} : pc'[b] = pc[b]
      BY <1>8, WokenUp
    <2>3. CASE a = Sink
      <3>1. Waiting' = Waiting /\ (StreamWoken => StreamWoken')
        BY <1>0, <2>2, <2>3 DEF Waiting, StreamWoken
      <3>2. SinkAsleep'
        BY <2>2, <2>3 DEF SinkAsleep
      <3>3. SinkAwake'
        <4> SUFFICES ASSUME audioData_ = 0, Waiting # {}, ~StreamWoken PROVE FALSE
          BY <2>1, <3>1 DEF SinkAwake
        <4>1. ~HasRoom(audioFrame_)
          BY <2>1, <2>3 DEF Awake, SinkAsleep
        <4>2. /\ audioFrame_.stride \in Nat /\ audioFrame_.stride <= MAX_BUFFER_SIZE
              /\ MAX_BUFFER_SIZE \in Nat
          BY AudioNumbers DEF Measured
        <4> QED
          BY <4>1, <4>2 DEF HasRoom
      <3> QED
        BY <3>2, <3>3 DEF Awake
    <2>4. CASE a # Sink
      <3>1. StreamWoken'
        BY <2>1, <2>2, <2>4 DEF StreamWoken, Actors
      <3> QED
        BY <3>1 DEF Awake, SinkAsleep, SinkAwake
    <2> QED
      BY <2>3, <2>4
  <1>9. CASE UNCHANGED vars
    BY <1>9 DEF vars, deviceVars, Awake, SinkAsleep, SinkAwake, StreamWoken, Waiting, HasRoom
  <1> QED
    BY <1>2, <1>3, <1>4, <1>5, <1>6, <1>7, <1>8, <1>9 DEF Next, Worker, Reading

\* The sink sleeps with no worker awake only on an empty device that no worker
\* waits for, or beside a worker that waits in a device too full for the frame
\* at hand (audioBufferDevice.cpp:23-27, 38-44).
THEOREM AsleepIfFull == Spec => []AsleepOnlyIfFull
  <1>1. Awake => AsleepOnlyIfFull
    BY DEF Awake, SinkAsleep, Waiting, StreamWoken, AsleepOnlyIfFull
  <1> QED
    BY <1>1, AlwaysSound, AwakeInit, AwakeNext, PTL DEF Spec

=============================================================================
