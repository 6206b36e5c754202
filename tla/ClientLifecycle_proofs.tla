------------------------ MODULE ClientLifecycle_proofs ------------------------
(***************************************************************************)
(* What ClientLifecycle.tla promises for every size of frame, header and   *)
(* queue: reception stays in step with the server however TCP cuts the     *)
(* stream, onMessage() leaves no whole frame behind, and when the pool is  *)
(* destroyed only frames of the stopped scheduler's queue are missing.     *)
(***************************************************************************)
EXTENDS ClientLifecycle, SequenceTheorems, FiniteSetTheorems, TLAPS

(***************************************************************************)
(* The inductive invariant.                                                *)
(***************************************************************************)

\* Frames follow one another in the stream without a gap.
Contiguous ==
    /\ wire # <<>> => wire[1].at = 0
    /\ \A i, j \in DOMAIN wire : i < j => End(wire[i]) <= wire[j].at
    /\ \A i, j \in DOMAIN wire : j = i + 1 => wire[j].at = End(wire[i])

Received == TypeOK /\ InSync /\ Contiguous

\* How far the exit has come, and what that says of the other threads.
Phases ==
    /\ closed_ <=> exitPc # "exec"
    /\ wPc = "decode" <=> wFrame # 0
    /\ exitPc \notin {"exec", "join"} => wPc = "idle"
    /\ mainPc = "disconnected" =>
         exitPc \in {"scheduler", "net", "end"} /\ netPc = "poll"

\* Every frame is in one place: its buffer is home, or it is queued, decoded or
\* astray.
OnePlaceEach ==
    /\ Frames \ home = (Range(queue) \union strays \union {wFrame}) \ {0}
    /\ IsInjective(queue)
    /\ wFrame \notin Range(queue) \union strays
    /\ Range(queue) \intersect strays = {}

\* Nothing is queued after stop(), and what is astray was in the queue.
QueuedBefore == closed_ => Range(queue) \union strays \subseteq 1..early

FewStrays ==
    /\ IF exitPc \in {"net", "end"} THEN queue = <<>> ELSE strays = {}
    /\ IsFiniteSet(strays) /\ Cardinality(strays) <= MAX_FRAMES

Life == LifeTypeOK /\ Phases /\ OnePlaceEach /\ QueuedBefore /\ FewStrays

(***************************************************************************)
(* Sequences.                                                              *)
(***************************************************************************)

LEMMA Appended ==
  ASSUME NEW S, NEW s \in Seq(S), NEW x \in S
  PROVE  /\ Append(s, x) \in Seq(S)
         /\ Len(s) \in Nat /\ DOMAIN s = 1..Len(s)
         /\ Len(Append(s, x)) = Len(s) + 1
         /\ DOMAIN Append(s, x) = 1..(Len(s) + 1)
         /\ \A i \in 1..Len(s) : Append(s, x)[i] = s[i]
         /\ Append(s, x)[Len(s) + 1] = x
         /\ Range(Append(s, x)) = Range(s) \union {x}
<1>1. /\ Append(s, x) \in Seq(S) /\ Len(s) \in Nat /\ DOMAIN s = 1..Len(s)
      /\ Len(Append(s, x)) = Len(s) + 1
      /\ \A i \in 1..Len(s) : Append(s, x)[i] = s[i]
      /\ Append(s, x)[Len(s) + 1] = x
  BY AppendProperties, LenProperties
<1>2. DOMAIN Append(s, x) = 1..(Len(s) + 1)  BY <1>1, LenProperties
<1>3. 1..(Len(s) + 1) = (1..Len(s)) \union {Len(s) + 1}  BY <1>1
<1>4. Range(Append(s, x)) = Range(s) \union {x}
  BY <1>1, <1>2, <1>3, Zenon DEF Range
<1> QED  BY <1>1, <1>2, <1>4

LEMMA Taken ==
  ASSUME NEW S, NEW s \in Seq(S), s # <<>>
  PROVE  /\ Tail(s) \in Seq(S) /\ Head(s) \in S
         /\ Len(s) \in Nat /\ Len(Tail(s)) = Len(s) - 1
         /\ Range(s) = {Head(s)} \union Range(Tail(s))
         /\ IsInjective(s) => Head(s) \notin Range(Tail(s)) /\ IsInjective(Tail(s))
<1>1. /\ Tail(s) \in Seq(S) /\ Head(s) \in S /\ Len(Tail(s)) = Len(s) - 1
      /\ \A i \in 1..Len(Tail(s)) : Tail(s)[i] = s[i + 1]
  BY HeadTailProperties
<1>2. Len(s) \in Nat \ {0} /\ Head(s) = s[1]  BY EmptySeq, LenProperties
<1>3. DOMAIN s = 1..Len(s) /\ DOMAIN Tail(s) = 1..(Len(s) - 1)
  BY <1>1, LenProperties
<1>4. \A i \in 1..(Len(s) - 1) : Tail(s)[i] = s[i + 1]  BY <1>1
<1>5. Range(s) \subseteq {Head(s)} \union Range(Tail(s))
  <2>1. SUFFICES ASSUME NEW i \in 1..Len(s), i # 1 PROVE s[i] \in Range(Tail(s))
    BY <1>2, <1>3 DEF Range
  <2>2. i - 1 \in 1..(Len(s) - 1) /\ (i - 1) + 1 = i  BY <1>2, <2>1
  <2>3. s[i] = Tail(s)[i - 1]  BY <1>4, <2>2
  <2> QED  BY <1>3, <2>2, <2>3 DEF Range
<1>6. {Head(s)} \union Range(Tail(s)) \subseteq Range(s)
  <2>1. Head(s) \in Range(s)  BY <1>2, <1>3 DEF Range
  <2>2. SUFFICES ASSUME NEW i \in 1..(Len(s) - 1) PROVE s[i + 1] \in Range(s)
    BY <1>3, <1>4, <2>1 DEF Range
  <2>3. i + 1 \in 1..Len(s)  BY <1>2
  <2> QED  BY <1>3, <2>3 DEF Range
<1>7. ASSUME IsInjective(s)
      PROVE  Head(s) \notin Range(Tail(s)) /\ IsInjective(Tail(s))
  <2>1. \A i, j \in 1..Len(s) : s[i] = s[j] => i = j  BY <1>3, <1>7 DEF IsInjective
  <2>2. \A i \in 1..(Len(s) - 1) : i + 1 \in 1..Len(s) /\ i + 1 # 1  BY <1>2
  <2>3. 1 \in 1..Len(s)  BY <1>2
  <2>4. Head(s) \notin Range(Tail(s))
    <3>1. SUFFICES ASSUME NEW i \in 1..(Len(s) - 1) PROVE s[i + 1] # s[1]
      BY <1>2, <1>3, <1>4 DEF Range
    <3> QED  BY <2>1, <2>2, <2>3
  <2>5. IsInjective(Tail(s))
    <3>1. SUFFICES ASSUME NEW i \in 1..(Len(s) - 1), NEW j \in 1..(Len(s) - 1),
                          s[i + 1] = s[j + 1]
                   PROVE  i = j
      BY <1>3, <1>4 DEF IsInjective
    <3>2. i + 1 = j + 1  BY <2>1, <2>2, <3>1
    <3> QED  BY <1>2, <3>2
  <2> QED  BY <2>4, <2>5
<1> QED  BY <1>1, <1>2, <1>5, <1>6, <1>7

\* A sequence has no more elements than places.
LEMMA RangeCounted ==
  ASSUME NEW S, NEW s \in Seq(S)
  PROVE  IsFiniteSet(Range(s)) /\ Cardinality(Range(s)) <= Len(s)
<1>1. Len(s) \in Nat /\ DOMAIN s = 1..Len(s) /\ s \in [1..Len(s) -> S]
  BY LenProperties
<1>2. s \in Surjection(1..Len(s), Range(s))
  <2>1. \A i \in 1..Len(s) : s[i] \in Range(s)  BY <1>1 DEF Range
  <2>2. s \in [1..Len(s) -> Range(s)]  BY <1>1, <2>1
  <2>3. \A t \in Range(s) : \E i \in 1..Len(s) : s[i] = t  BY <1>1 DEF Range
  <2> QED  BY <2>2, <2>3 DEF Surjection
<1>3. IsFiniteSet(1..Len(s)) /\ Cardinality(1..Len(s)) = Len(s)
  <2>1. 1 \in Int /\ Len(s) \in Int  BY <1>1
  <2>2. /\ IsFiniteSet(1..Len(s))
        /\ Cardinality(1..Len(s)) = IF 1 > Len(s) THEN 0 ELSE Len(s) - 1 + 1
    BY <2>1, FS_Interval
  <2> QED  BY <1>1, <2>2
<1> QED  BY <1>2, <1>3, FS_Surjection

(***************************************************************************)
(* Reception.                                                              *)
(***************************************************************************)

LEMMA FrameEnd ==
  ASSUME HEADER_SIZE \in Nat \ {0}, NEW f, f.at \in Nat, f.size \in Nat
  PROVE  End(f) \in Nat /\ f.at < End(f)
BY DEF End

LEMMA WireFields ==
  ASSUME TypeOK
  PROVE  /\ HEADER_SIZE \in Nat \ {0} /\ Len(wire) \in Nat /\ DOMAIN wire = 1..Len(wire)
         /\ Len(handed) \in Nat /\ DOMAIN handed = 1..Len(handed)
         /\ \A i \in DOMAIN wire :
              /\ wire[i].at \in Nat /\ wire[i].size \in Sizes /\ wire[i].size \in Nat
              /\ End(wire[i]) \in Nat /\ wire[i].at < End(wire[i])
         /\ Written \in Nat
         /\ wire = <<>> <=> Len(wire) = 0
         /\ handed = <<>> <=> Len(handed) = 0
<1>1. /\ wire \in Seq([at : Nat, size : Sizes])
      /\ handed \in Seq([at : Nat, size : Sizes, passedOn : BOOLEAN])
  BY DEF TypeOK
<1>2. HEADER_SIZE \in Nat \ {0} /\ Sizes \subseteq Nat  BY StreamConstants
<1>3. /\ Len(wire) \in Nat /\ DOMAIN wire = 1..Len(wire)
      /\ Len(handed) \in Nat /\ DOMAIN handed = 1..Len(handed)
  BY <1>1, LenProperties
<1>4. (wire = <<>> <=> Len(wire) = 0) /\ (handed = <<>> <=> Len(handed) = 0)
  BY <1>1, EmptySeq
<1>5. ASSUME NEW i \in DOMAIN wire
      PROVE  /\ wire[i].at \in Nat /\ wire[i].size \in Sizes /\ wire[i].size \in Nat
             /\ End(wire[i]) \in Nat /\ wire[i].at < End(wire[i])
  <2>1. wire[i] \in [at : Nat, size : Sizes]  BY <1>1, <1>3, <1>5, ElementOfSeq
  <2>2. wire[i].at \in Nat /\ wire[i].size \in Sizes  BY <2>1
  <2>3. wire[i].size \in Nat  BY <1>2, <2>2
  <2> QED  BY <1>2, <2>2, <2>3, FrameEnd
<1>6. Written \in Nat
  <2>1. CASE wire = <<>>  BY <2>1 DEF Written
  <2>2. CASE wire # <<>>
    <3>1. Len(wire) \in DOMAIN wire  BY <1>3, <1>4, <2>2
    <3> QED  BY <1>5, <2>2, <3>1 DEF Written
  <2> QED  BY <2>1, <2>2
<1> QED  BY <1>2, <1>3, <1>4, <1>5, <1>6

\* The frame at the place the parser has got to is the next one.
LEMMA NextFrame ==
  ASSUME Received, NEW i \in DOMAIN wire, wire[i].at = Offset
  PROVE  i = Len(handed) + 1
<1> DEFINE n == Len(handed)
<1>1. TypeOK /\ InSync /\ Contiguous  BY DEF Received
<1>2. /\ n \in Nat /\ n <= Len(wire) /\ Len(wire) \in Nat /\ DOMAIN wire = 1..Len(wire)
      /\ \A j \in DOMAIN wire :
           wire[j].at \in Nat /\ End(wire[j]) \in Nat /\ wire[j].at < End(wire[j])
  BY <1>1, WireFields DEF InSync
<1>3. CASE n = 0
  <2>1. wire[i].at = 0  BY <1>1, <1>3, WireFields DEF InSync
  <2>2. SUFFICES ASSUME i # 1 PROVE FALSE  BY <1>3
  <2>3. 1 \in DOMAIN wire /\ i \in DOMAIN wire /\ 1 < i  BY <1>2, <2>2
  <2>4. End(wire[1]) <= wire[i].at  BY <1>1, <2>3 DEF Contiguous
  <2> QED  BY <1>2, <2>1, <2>3, <2>4
<1>4. CASE n # 0
  <2>1. n \in DOMAIN wire /\ n \in DOMAIN handed  BY <1>1, <1>2, <1>4, WireFields
  <2>2. wire[i].at = End(wire[n])
    <3>1. Offset = End(handed[n])  BY <1>1, <1>4, WireFields DEF InSync
    <3>2. handed[n].at = wire[n].at /\ handed[n].size = wire[n].size
      BY <1>1, <2>1 DEF InSync
    <3> QED  BY <3>1, <3>2 DEF End
  <2>3. ~(i <= n)
    <3>1. SUFFICES ASSUME i < n PROVE FALSE  BY <1>2, <2>1, <2>2
    <3>2. End(wire[i]) <= wire[n].at  BY <1>1, <2>1, <3>1 DEF Contiguous
    <3> QED  BY <1>2, <2>1, <2>2, <3>2
  <2>4. ~(i > n + 1)
    <3>1. SUFFICES ASSUME i > n + 1 PROVE FALSE  OBVIOUS
    <3>2. n + 1 \in DOMAIN wire /\ n + 1 < i  BY <1>2, <3>1
    <3>3. wire[n + 1].at = End(wire[n])  BY <1>1, <2>1, <3>2 DEF Contiguous
    <3>4. End(wire[n + 1]) <= wire[i].at  BY <1>1, <3>2 DEF Contiguous
    <3> QED  BY <1>2, <2>2, <3>2, <3>3, <3>4
  <2> QED  BY <1>2, <2>3, <2>4
<1> QED  BY <1>3, <1>4

LEMMA ReceivedInit == Init => Received
<1> SUFFICES ASSUME Init PROVE Received  OBVIOUS
<1>1. /\ wire = <<>> /\ handed = <<>> /\ arrived = 0 /\ consumed = 0 /\ consumedTotal = 0
      /\ netPc = "poll" /\ mainPc = "new"
  BY DEF Init
<1>2. Written = 0 /\ Offset = 0  BY <1>1 DEF Written, Offset
<1>3. Len(<<>>) = 0 /\ DOMAIN <<>> = {}  OBVIOUS
<1>4. TypeOK
  <2>1. /\ wire \in Seq([at : Nat, size : Sizes])
        /\ handed \in Seq([at : Nat, size : Sizes, passedOn : BOOLEAN])
    BY <1>1, EmptySeq
  <2> QED  BY <1>1, <1>2, <2>1 DEF TypeOK
<1>5. InSync  BY <1>1, <1>2, <1>3 DEF InSync
<1>6. Contiguous  BY <1>1, <1>3 DEF Contiguous
<1> QED  BY <1>4, <1>5, <1>6 DEF Received

\* The server appends a frame where the last one ends.
LEMMA ReceivedBroadcast ==
  ASSUME Received, NEW size \in Sizes, Broadcast(size)
  PROVE  Received'
<1> DEFINE f == [at |-> Written, size |-> size]
           n == Len(wire)
<1>1. TypeOK /\ InSync /\ Contiguous  BY DEF Received
<1>2. /\ wire' = Append(wire, f)
      /\ UNCHANGED <<arrived, consumed, consumedTotal, netPc, handed, mainPc>>
  BY DEF Broadcast, netVars, mainVars
<1>3. /\ HEADER_SIZE \in Nat \ {0} /\ n \in Nat /\ DOMAIN wire = 1..n
      /\ \A i \in DOMAIN wire :
           wire[i].at \in Nat /\ End(wire[i]) \in Nat /\ wire[i].at < End(wire[i])
      /\ Written \in Nat /\ (wire = <<>> <=> n = 0)
  BY <1>1, WireFields
<1>4. f \in [at : Nat, size : Sizes]  BY <1>3
<1>5. /\ wire' \in Seq([at : Nat, size : Sizes]) /\ Len(wire') = n + 1
      /\ DOMAIN wire' = 1..(n + 1)
      /\ \A i \in 1..n : wire'[i] = wire[i]
      /\ wire'[n + 1] = f
  <2>1. wire \in Seq([at : Nat, size : Sizes])  BY <1>1 DEF TypeOK
  <2> QED  BY <1>2, <1>4, <2>1, Appended
<1>6. f.at = Written /\ End(f) \in Nat /\ Written < End(f)
  <2>1. size \in Nat  BY StreamConstants
  <2> QED  BY <1>3, <2>1 DEF End
<1> HIDE DEF f
<1>7. Written' = End(f)
  <2>1. wire' # <<>>  BY <1>3, <1>5
  <2> QED  BY <1>5, <2>1 DEF Written, End
<1>8. TypeOK'
  <2>1. arrived' \in 0..Written'  BY <1>1, <1>2, <1>3, <1>6, <1>7 DEF TypeOK
  <2>2. Offset' = Offset  BY <1>2 DEF Offset
  <2> QED  BY <1>1, <1>2, <1>5, <2>1, <2>2 DEF TypeOK
<1>9. InSync'
  <2>1. Len(handed) <= n /\ DOMAIN handed = 1..Len(handed) /\ Len(handed) \in Nat
    BY <1>1, WireFields DEF InSync
  <2>2. \A i \in DOMAIN handed : wire'[i] = wire[i]  BY <1>3, <1>5, <2>1
  <2>3. Offset' = Offset  BY <1>2 DEF Offset
  <2> QED  BY <1>1, <1>2, <1>3, <1>5, <2>1, <2>2, <2>3 DEF InSync, End
<1>10. Contiguous'
  <2>1. wire'[1].at = 0
    <3>1. CASE n = 0  BY <1>3, <1>5, <1>6, <3>1 DEF Written
    <3>2. CASE n # 0
      <4>1. 1 \in 1..n  BY <1>3, <3>2
      <4> QED  BY <1>1, <1>3, <1>5, <3>2, <4>1 DEF Contiguous
    <3> QED  BY <3>1, <3>2
  <2>2. ASSUME NEW i \in 1..n
        PROVE  End(wire[i]) <= Written /\ (i = n => End(wire[i]) = Written)
    <3>1. n \in 1..n /\ Written = End(wire[n])  BY <1>3 DEF Written
    <3>2. CASE i = n
      <4>1. End(wire[i]) = Written  BY <3>1, <3>2
      <4> QED  BY <1>3, <4>1
    <3>3. CASE i # n
      <4>1. i < n
        <5>1. n \in Nat  BY <1>3
        <5> QED  BY <3>3, <5>1
      <4>2. End(wire[i]) <= wire[n].at  BY <1>1, <1>3, <3>1, <4>1 DEF Contiguous
      <4>3. /\ End(wire[i]) \in Nat
            /\ wire[n].at \in Nat /\ End(wire[n]) \in Nat /\ wire[n].at < End(wire[n])
        BY <1>3, <3>1
      <4>4. End(wire[i]) <= End(wire[n])  BY <4>2, <4>3
      <4> QED  BY <3>1, <3>3, <4>4
    <3> QED  BY <3>2, <3>3
  <2>3. ASSUME NEW i \in 1..(n + 1), NEW j \in 1..(n + 1), i < j
        PROVE  End(wire'[i]) <= wire'[j].at
    <3>1. i \in 1..n  BY <1>3, <2>3
    <3>2. CASE j = n + 1  BY <1>5, <1>6, <2>2, <3>1, <3>2
    <3>3. CASE j # n + 1
      <4>1. j \in 1..n  BY <1>3, <3>3
      <4> QED  BY <1>1, <1>3, <1>5, <2>3, <3>1, <4>1 DEF Contiguous
    <3> QED  BY <3>2, <3>3
  <2>4. ASSUME NEW i \in 1..(n + 1), NEW j \in 1..(n + 1), j = i + 1
        PROVE  wire'[j].at = End(wire'[i])
    <3>1. i \in 1..n  BY <1>3, <2>4
    <3>2. CASE j = n + 1
      <4>1. i = n
        <5>1. n \in Nat  BY <1>3
        <5> QED  BY <2>4, <3>2, <5>1
      <4>2. End(wire[i]) = Written  BY <2>2, <3>1, <4>1
      <4>3. wire'[i] = wire[i] /\ wire'[j] = f  BY <1>5, <3>1, <3>2
      <4> QED  BY <1>6, <4>2, <4>3
    <3>3. CASE j # n + 1
      <4>1. j \in 1..n  BY <1>3, <3>3
      <4> QED  BY <1>1, <1>3, <1>5, <2>4, <3>1, <4>1 DEF Contiguous
    <3> QED  BY <3>2, <3>3
  <2>5. \A i, j \in DOMAIN wire' : i < j => End(wire'[i]) <= wire'[j].at
    BY <1>5, <2>3
  <2>6. \A i, j \in DOMAIN wire' : j = i + 1 => wire'[j].at = End(wire'[i])
    BY <1>5, <2>4
  <2> QED  BY <2>1, <2>5, <2>6 DEF Contiguous, End
<1> QED  BY <1>8, <1>9, <1>10 DEF Received

\* A step of the parser that changes neither what is sent nor what is handed on.
LEMMA ReceivedKeeps ==
  ASSUME Received, UNCHANGED <<wire, handed>>, Offset' = Offset,
         consumed' \in Nat, consumedTotal' \in Nat,
         arrived' \in 0..Written, Offset <= arrived',
         netPc' \in {"poll", "onMessage"},
         mainPc' \in {"new", "connected", "callbackSet", "handlerSet", "disconnected"}
  PROVE  Received'
<1>1. Written' = Written  BY DEF Written, End
<1>2. TypeOK'  BY <1>1 DEF Received, TypeOK
<1>3. InSync'  BY DEF Received, InSync, End
<1>4. Contiguous'  BY DEF Received, Contiguous, End
<1> QED  BY <1>2, <1>3, <1>4 DEF Received

LEMMA ReceivedHandle ==
  ASSUME Received, NEW k \in DOMAIN wire, HandleFrame(wire[k])
  PROVE  /\ Received'
         /\ Len(handed) \in Nat /\ Len(handed') = Len(handed) + 1
         /\ netPc = "onMessage" /\ UNCHANGED <<mainPc, netPc>>
<1> DEFINE n == Len(handed)
           h == [at |-> wire[k].at, size |-> wire[k].size,
                 passedOn |-> mainPc = "handlerSet"]
<1>1. TypeOK /\ InSync /\ Contiguous  BY DEF Received
<1>2. /\ netPc = "onMessage" /\ wire[k].at = Offset /\ End(wire[k]) <= arrived
      /\ handed' = Append(handed, h)
      /\ consumedTotal' = consumedTotal + HEADER_SIZE + wire[k].size
      /\ UNCHANGED <<wire, arrived, consumed, netPc, mainPc>>
  BY DEF HandleFrame, Complete, mainVars
<1>3. k = n + 1  BY <1>2, NextFrame
<1>4. /\ HEADER_SIZE \in Nat \ {0} /\ n \in Nat /\ n <= Len(wire)
      /\ Len(wire) \in Nat /\ DOMAIN wire = 1..Len(wire) /\ DOMAIN handed = 1..n
      /\ wire[k].at \in Nat /\ wire[k].size \in Sizes /\ wire[k].size \in Nat
  BY <1>1, WireFields DEF InSync
<1>5. h \in [at : Nat, size : Sizes, passedOn : BOOLEAN]  BY <1>4
<1>6. /\ handed' \in Seq([at : Nat, size : Sizes, passedOn : BOOLEAN])
      /\ Len(handed') = n + 1 /\ DOMAIN handed' = 1..(n + 1)
      /\ \A i \in 1..n : handed'[i] = handed[i]
      /\ handed'[n + 1] = h
  <2>1. handed \in Seq([at : Nat, size : Sizes, passedOn : BOOLEAN])
    BY <1>1 DEF TypeOK
  <2> QED  BY <1>2, <1>5, <2>1, Appended
<1>7. h.at = wire[k].at /\ h.size = wire[k].size  OBVIOUS
<1> HIDE DEF h
<1>8. Offset' = End(wire[k])
  <2>1. PICK at, size : at = wire[k].at /\ size = wire[k].size  OBVIOUS
  <2>2. at \in Nat /\ size \in Nat /\ consumed \in Nat /\ consumedTotal \in Nat
    BY <1>1, <1>4, <2>1 DEF TypeOK
  <2>3. at = consumed + consumedTotal  BY <1>2, <2>1 DEF Offset
  <2>4. Offset' = consumed + (consumedTotal + HEADER_SIZE + size)
    BY <1>2, <2>1 DEF Offset
  <2>5. End(wire[k]) = at + HEADER_SIZE + size  BY <2>1 DEF End
  <2> QED  BY <1>4, <2>2, <2>3, <2>4, <2>5
<1>9. TypeOK'
  <2>1. consumedTotal' \in Nat  BY <1>1, <1>2, <1>4 DEF TypeOK
  <2>2. Written' = Written  BY <1>2 DEF Written, End
  <2>3. Offset' <= arrived'  BY <1>2, <1>8
  <2> QED  BY <1>1, <1>2, <1>6, <2>1, <2>2, <2>3 DEF TypeOK
<1>10. InSync'
  <2>1. Len(handed') <= Len(wire')  BY <1>2, <1>3, <1>4, <1>6
  <2>2. ASSUME NEW i \in 1..(n + 1)
        PROVE  handed'[i].at = wire[i].at /\ handed'[i].size = wire[i].size
    <3>1. CASE i = n + 1  BY <1>3, <1>6, <1>7, <3>1
    <3>2. CASE i # n + 1
      <4>1. i \in 1..n
        <5>1. n \in Nat  BY <1>4
        <5> QED  BY <3>2, <5>1
      <4> QED  BY <1>1, <1>4, <1>6, <4>1 DEF InSync
    <3> QED  BY <3>1, <3>2
  <2>3. handed' # <<>>  BY <1>4, <1>6, EmptySeq
  <2>4. End(handed'[n + 1]) = End(wire[k])  BY <1>6, <1>7 DEF End
  <2>5. Offset' = (IF handed = <<>> THEN 0 ELSE End(handed[Len(handed)]))'
    BY <1>6, <1>8, <2>3, <2>4 DEF End
  <2> QED  BY <1>2, <1>6, <2>1, <2>2, <2>5 DEF InSync
<1>11. Contiguous'  BY <1>1, <1>2 DEF Contiguous, End
<1> QED  BY <1>2, <1>4, <1>6, <1>9, <1>10, <1>11 DEF Received

LEMMA ReceivedReturn ==
  ASSUME Received, Return
  PROVE  Received' /\ UNCHANGED <<wire, handed, mainPc>>
<1>1. /\ netPc' = "poll" /\ consumed' = consumed + consumedTotal /\ consumedTotal' = 0
      /\ UNCHANGED <<wire, arrived, handed, mainPc>>
  BY DEF Return, mainVars
<1>2. consumed \in Nat /\ consumedTotal \in Nat  BY DEF Received, TypeOK
<1>3. Offset' = Offset  BY <1>1, <1>2 DEF Offset
<1>4. consumed' \in Nat /\ consumedTotal' \in Nat  BY <1>1, <1>2
<1>5. arrived' \in 0..Written /\ Offset <= arrived'  BY <1>1 DEF Received, TypeOK
<1>6. mainPc' \in {"new", "connected", "callbackSet", "handlerSet", "disconnected"}
  BY <1>1 DEF Received, TypeOK
<1> QED  BY <1>1, <1>3, <1>4, <1>5, <1>6, ReceivedKeeps

LEMMA ReceivedRead ==
  ASSUME Received, NEW n \in (arrived + 1)..Written, Read(n)
  PROVE  Received' /\ UNCHANGED <<wire, handed, mainPc>> /\ mainPc # "disconnected"
<1>1. /\ mainPc # "disconnected" /\ arrived' = n
      /\ netPc' \in {"poll", "onMessage"}
      /\ UNCHANGED <<wire, consumed, consumedTotal, handed, mainPc>>
  BY DEF Read, Connected, mainVars
<1>2. /\ consumed \in Nat /\ consumedTotal \in Nat /\ Offset <= arrived
      /\ arrived \in Nat /\ Written \in Nat
  BY WireFields DEF Received, TypeOK
<1>3. Offset' = Offset  BY <1>1 DEF Offset
<1>4. Offset \in Nat  BY <1>2 DEF Offset
<1>5. arrived' \in 0..Written /\ Offset <= arrived'  BY <1>1, <1>2, <1>4
<1>6. mainPc' \in {"new", "connected", "callbackSet", "handlerSet", "disconnected"}
  BY <1>1 DEF Received, TypeOK
<1> QED  BY <1>1, <1>2, <1>3, <1>5, <1>6, ReceivedKeeps

\* The main thread, and threads of other modules.
LEMMA ReceivedApart ==
  ASSUME Received, UNCHANGED <<wire, arrived, consumed, consumedTotal, netPc, handed>>,
         mainPc' \in {"new", "connected", "callbackSet", "handlerSet", "disconnected"}
  PROVE  Received'
<1>1. /\ consumed \in Nat /\ consumedTotal \in Nat /\ arrived \in 0..Written
      /\ Offset <= arrived /\ netPc \in {"poll", "onMessage"}
  BY DEF Received, TypeOK
<1>2. Offset' = Offset  BY DEF Offset
<1> QED  BY <1>1, <1>2, ReceivedKeeps

\* When onMessage() finds no whole frame where it stands, there is none behind.
LEMMA NothingLeft ==
  ASSUME Received, Return, NEW i \in DOMAIN wire, End(wire[i]) <= arrived
  PROVE  i <= Len(handed)
<1> DEFINE n == Len(handed)
<1>1. TypeOK /\ InSync /\ Contiguous  BY DEF Received
<1>2. \A j \in DOMAIN wire : ~Complete(wire[j])  BY DEF Return
<1>3. /\ n \in Nat /\ n <= Len(wire) /\ Len(wire) \in Nat /\ DOMAIN wire = 1..Len(wire)
      /\ \A j \in DOMAIN wire :
           /\ wire[j].at \in Nat /\ wire[j].size \in Nat
           /\ End(wire[j]) \in Nat /\ wire[j].at < End(wire[j])
      /\ HEADER_SIZE \in Nat /\ arrived \in Nat
      /\ handed = <<>> <=> n = 0
  BY <1>1, WireFields DEF InSync, TypeOK
<1>4. SUFFICES ASSUME i > n PROVE FALSE  BY <1>3
<1>5. n + 1 \in DOMAIN wire  BY <1>3, <1>4
<1>6. wire[n + 1].at = Offset
  <2>1. CASE n = 0  BY <1>1, <1>3, <1>5, <2>1, WireFields DEF InSync, Contiguous
  <2>2. CASE n # 0
    <3>1. n \in DOMAIN wire /\ n \in DOMAIN handed  BY <1>1, <1>3, <2>2, WireFields
    <3>2. Offset = End(handed[n])  BY <1>1, <1>3, <2>2 DEF InSync
    <3>3. End(handed[n]) = End(wire[n])  BY <1>1, <3>1 DEF InSync, End
    <3> QED  BY <1>1, <1>5, <3>1, <3>2, <3>3 DEF Contiguous
  <2> QED  BY <2>1, <2>2
<1>7. End(wire[n + 1]) <= arrived
  <2>1. CASE i = n + 1  BY <2>1
  <2>2. CASE i # n + 1
    <3>1. n + 1 < i  BY <1>3, <1>4, <2>2
    <3>2. End(wire[n + 1]) <= wire[i].at  BY <1>1, <1>5, <3>1 DEF Contiguous
    <3>3. wire[i].at \in Nat /\ End(wire[i]) \in Nat /\ wire[i].at < End(wire[i])
          /\ End(wire[n + 1]) \in Nat
      BY <1>3, <1>5
    <3> QED  BY <1>3, <3>2, <3>3
  <2> QED  BY <2>1, <2>2
<1>8. Offset + HEADER_SIZE <= arrived
  <2>1. PICK at, size : at = wire[n + 1].at /\ size = wire[n + 1].size  OBVIOUS
  <2>2. End(wire[n + 1]) = at + HEADER_SIZE + size  BY <2>1 DEF End
  <2>3. at \in Nat /\ size \in Nat  BY <1>3, <1>5, <2>1
  <2>4. Offset = at  BY <1>6, <2>1
  <2> QED  BY <1>3, <1>7, <2>2, <2>3, <2>4
<1> QED  BY <1>2, <1>5, <1>6, <1>7, <1>8 DEF Complete

(***************************************************************************)
(* The life of a frame's buffer.                                           *)
(***************************************************************************)

LEMMA LifeStarts == LifeInit => Received /\ Life
<1> SUFFICES ASSUME LifeInit PROVE Received /\ Life  OBVIOUS
<1>1. Received  BY ReceivedInit DEF LifeInit
<1>2. /\ queue = <<>> /\ closed_ = FALSE /\ wPc = "idle" /\ wFrame = 0 /\ exitPc = "exec"
      /\ home = {} /\ strays = {} /\ early = 0 /\ handed = <<>> /\ mainPc = "new"
  BY DEF LifeInit, Init
<1>3. /\ Len(<<>>) = 0 /\ DOMAIN <<>> = {} /\ Range(<<>>) = {} /\ 1..0 = {}
      /\ IsInjective(<<>>)
  BY DEF Range, IsInjective
<1>4. MAX_FRAMES \in Nat  BY LifecycleConstants
<1>5. LifeTypeOK
  <2>1. queue \in Seq(Frames)  BY <1>2, EmptySeq
  <2>2. Len(queue) <= MAX_FRAMES  BY <1>2, <1>3, <1>4
  <2>3. Range(queue) = {} /\ Frames = {}  BY <1>2, <1>3 DEF Frames
  <2> QED  BY <1>1, <1>2, <2>1, <2>2, <2>3 DEF Received, LifeTypeOK
<1>6. Phases  BY <1>2 DEF Phases
<1>7. OnePlaceEach /\ QueuedBefore
  <2>1. Range(queue) = {} /\ Frames = {} /\ IsInjective(queue)
    BY <1>2, <1>3 DEF Frames
  <2> QED  BY <1>2, <2>1 DEF OnePlaceEach, QueuedBefore
<1>8. FewStrays
  <2>1. IsFiniteSet({}) /\ Cardinality({}) = 0  BY FS_EmptySet
  <2> QED  BY <1>2, <1>4, <2>1 DEF FewStrays
<1> QED  BY <1>1, <1>5, <1>6, <1>7, <1>8 DEF Life

\* The parts of the invariant that are about places, spelled out.
LEMMA LifeFacts ==
  ASSUME Life
  PROVE  /\ TypeOK /\ queue \in Seq(Frames) /\ Len(queue) <= MAX_FRAMES /\ Len(queue) \in Nat
         /\ Range(queue) \subseteq Frames /\ wFrame \in Frames \union {0}
         /\ home \subseteq Frames /\ strays \subseteq Frames
         /\ home \intersect (Range(queue) \union strays \union {wFrame}) = {}
         /\ Len(handed) \in Nat /\ Frames = 1..Len(handed) /\ 0 \notin Frames
<1>1. /\ TypeOK /\ queue \in Seq(Frames) /\ Len(queue) <= MAX_FRAMES
      /\ wFrame \in Frames \union {0} /\ home \subseteq Frames /\ strays \subseteq Frames
      /\ home \intersect (Range(queue) \union strays \union {wFrame}) = {}
  BY DEF Life, LifeTypeOK
<1>2. Len(queue) \in Nat /\ DOMAIN queue = 1..Len(queue)  BY <1>1, LenProperties
<1>3. \A i \in DOMAIN queue : queue[i] \in Frames  BY <1>1, <1>2, ElementOfSeq
<1>4. Range(queue) \subseteq Frames  BY <1>3 DEF Range
<1>5. Len(handed) \in Nat  BY <1>1, WireFields
<1>6. Frames = 1..Len(handed) /\ 0 \notin Frames  BY <1>5 DEF Frames
<1> QED  BY <1>1, <1>2, <1>4, <1>5, <1>6

\* A step of the connection that hands nothing on.
LEMMA LifeElsewhere ==
  ASSUME Life, TypeOK', handed' = handed, Elsewhere,
         mainPc' = "disconnected" => mainPc = "disconnected" /\ netPc' = "poll"
  PROVE  Life'
<1>1. UNCHANGED <<queue, closed_, wPc, wFrame, exitPc, home, strays, early>>
  BY DEF Elsewhere, schedulerVars
<1>2. Frames' = Frames  BY DEF Frames
<1>3. LifeTypeOK'  BY <1>1, <1>2 DEF Life, LifeTypeOK
<1>4. Phases'  BY <1>1 DEF Life, Phases
<1>5. OnePlaceEach' /\ QueuedBefore'
  BY <1>1, <1>2 DEF Life, OnePlaceEach, QueuedBefore
<1>6. FewStrays'  BY <1>1 DEF Life, FewStrays
<1> QED  BY <1>3, <1>4, <1>5, <1>6 DEF Life

\* A frame is handed on: it is new, and it is queued or its buffer goes home.
LEMMA LifeHandle ==
  ASSUME Life, Received, NEW k \in DOMAIN wire, Handle(wire[k])
  PROVE  Received' /\ Life'
<1> DEFINE n == Len(handed')
<1>1. /\ Received' /\ Len(handed) \in Nat /\ n = Len(handed) + 1
      /\ netPc = "onMessage" /\ UNCHANGED <<mainPc, netPc>>
  BY ReceivedHandle DEF Handle
<1>2. /\ \/ ~closed_ /\ Len(queue) < MAX_FRAMES /\ queue' = Append(queue, n) /\ home' = home
         \/ home' = home \union {n} /\ queue' = queue
      /\ UNCHANGED <<closed_, wPc, wFrame, exitPc, strays, early>>
  BY DEF Handle
<1>3. Frames' = Frames \union {n} /\ n \notin Frames /\ n # 0
  BY <1>1 DEF Frames
<1> HIDE DEF n
<1>4. /\ queue \in Seq(Frames) /\ Len(queue) <= MAX_FRAMES /\ Len(queue) \in Nat
      /\ Range(queue) \subseteq Frames /\ wFrame \in Frames \union {0}
      /\ home \subseteq Frames /\ strays \subseteq Frames
      /\ home \intersect (Range(queue) \union strays \union {wFrame}) = {}
  BY LifeFacts
<1>5. MAX_FRAMES \in Nat  BY LifecycleConstants
<1>6. Phases /\ OnePlaceEach /\ QueuedBefore /\ FewStrays /\ LifeTypeOK  BY DEF Life
<1>7. TypeOK'  BY <1>1 DEF Received
<1>8. queue \in Seq(Frames')  BY <1>3, <1>4, SeqMonotonic
<1>9. Phases'  BY <1>1, <1>2, <1>6 DEF Phases
<1>10. CASE home' = home \union {n} /\ queue' = queue
  <2>1. LifeTypeOK'
    <3>1. home' \intersect (Range(queue) \union strays \union {wFrame}) = {}
      BY <1>3, <1>4, <1>10
    <3> QED  BY <1>2, <1>3, <1>4, <1>6, <1>7, <1>8, <1>10, <3>1 DEF LifeTypeOK
  <2>2. OnePlaceEach'  BY <1>2, <1>3, <1>4, <1>6, <1>10 DEF OnePlaceEach
  <2>3. QueuedBefore' /\ FewStrays'
    BY <1>2, <1>6, <1>10 DEF QueuedBefore, FewStrays
  <2> QED  BY <1>1, <1>9, <2>1, <2>2, <2>3 DEF Life
<1>11. CASE ~closed_ /\ Len(queue) < MAX_FRAMES /\ queue' = Append(queue, n) /\ home' = home
  <2>1. /\ queue' \in Seq(Frames') /\ Len(queue') = Len(queue) + 1
        /\ DOMAIN queue = 1..Len(queue) /\ DOMAIN queue' = 1..(Len(queue) + 1)
        /\ \A i \in 1..Len(queue) : queue'[i] = queue[i]
        /\ queue'[Len(queue) + 1] = n
        /\ Range(queue') = Range(queue) \union {n}
    <3>1. n \in Frames'  BY <1>3
    <3> QED  BY <1>8, <1>11, <3>1, Appended
  <2>2. LifeTypeOK'
    <3>1. Len(queue') <= MAX_FRAMES  BY <1>4, <1>5, <1>11, <2>1
    <3>2. home' \intersect (Range(queue') \union strays \union {wFrame}) = {}
      BY <1>3, <1>4, <1>11, <2>1
    <3> QED  BY <1>2, <1>3, <1>4, <1>6, <1>7, <1>11, <2>1, <3>1, <3>2 DEF LifeTypeOK
  <2>3. IsInjective(queue')
    <3>1. SUFFICES ASSUME NEW i \in 1..(Len(queue) + 1), NEW j \in 1..(Len(queue) + 1),
                          queue'[i] = queue'[j]
                   PROVE  i = j
      BY <2>1 DEF IsInjective
    <3>2. \A l \in 1..Len(queue) : queue[l] \in Range(queue)  BY <2>1 DEF Range
    <3>3. \A l \in 1..Len(queue) : queue'[l] # n  BY <1>3, <1>4, <2>1, <3>2
    <3>6. /\ i \in 1..Len(queue) \/ i = Len(queue) + 1
          /\ j \in 1..Len(queue) \/ j = Len(queue) + 1
      <4>1. Len(queue) \in Nat  BY <1>4
      <4> QED  BY <4>1
    <3>4. CASE i = Len(queue) + 1 \/ j = Len(queue) + 1
      BY <2>1, <3>1, <3>3, <3>4, <3>6
    <3>5. CASE i \in 1..Len(queue) /\ j \in 1..Len(queue)
      <4>1. queue[i] = queue[j]  BY <2>1, <3>1, <3>5
      <4> QED  BY <1>6, <2>1, <3>5, <4>1 DEF OnePlaceEach, IsInjective
    <3> QED  BY <3>4, <3>5, <3>6
  <2>4. OnePlaceEach'
    <3>1. Frames \ home = (Range(queue) \union strays \union {wFrame}) \ {0}
      BY <1>6 DEF OnePlaceEach
    <3>2. n \notin home /\ n \notin strays /\ n # wFrame  BY <1>3, <1>4
    <3>3. Frames' \ home
            = (Range(queue) \union {n} \union strays \union {wFrame}) \ {0}
      BY <1>3, <3>1, <3>2
    <3>4. /\ wFrame \notin Range(queue') \union strays
          /\ Range(queue') \intersect strays = {}
      BY <1>6, <2>1, <3>2 DEF OnePlaceEach
    <3> QED  BY <1>2, <1>11, <2>1, <2>3, <3>3, <3>4 DEF OnePlaceEach
  <2>5. QueuedBefore'  BY <1>2, <1>11 DEF QueuedBefore
  <2>6. exitPc = "exec"  BY <1>6, <1>11 DEF Phases
  <2>7. FewStrays'  BY <1>2, <1>6, <2>6 DEF FewStrays
  <2> QED  BY <1>1, <1>9, <2>2, <2>4, <2>5, <2>7 DEF Life
<1> QED  BY <1>2, <1>10, <1>11

\* The parts of the invariant that a step of the worker or of the exit keeps.
LEMMA LifeStep ==
  ASSUME Life, UNCHANGED connection, queue' \in Seq(Frames), Len(queue') <= MAX_FRAMES,
         closed_' \in BOOLEAN, wPc' \in {"idle", "inFlight", "decode"},
         wFrame' \in Frames \union {0},
         exitPc' \in {"exec", "join", "window", "scheduler", "net", "end"},
         home' \subseteq Frames, strays' \subseteq Frames, early' \in Nat,
         home' \intersect (Range(queue') \union strays' \union {wFrame'}) = {}
  PROVE  LifeTypeOK' /\ Frames' = Frames
<1>1. /\ UNCHANGED <<wire, arrived, consumed, consumedTotal, netPc, handed, mainPc>>
  BY DEF connection, vars, netVars, mainVars
<1>2. Frames' = Frames  BY <1>1 DEF Frames
<1>3. TypeOK'  BY <1>1, LifeFacts DEF TypeOK, Written, End, Offset
<1> QED  BY <1>2, <1>3 DEF LifeTypeOK

LEMMA LifeWorker == Life /\ Worker => Life'
<1> SUFFICES ASSUME Life, Worker PROVE Life'  OBVIOUS
<1>0. /\ queue \in Seq(Frames) /\ Len(queue) <= MAX_FRAMES /\ Len(queue) \in Nat
      /\ Range(queue) \subseteq Frames /\ wFrame \in Frames \union {0}
      /\ home \subseteq Frames /\ strays \subseteq Frames
      /\ home \intersect (Range(queue) \union strays \union {wFrame}) = {}
      /\ 0 \notin Frames
  BY LifeFacts
<1>1. Phases /\ OnePlaceEach /\ QueuedBefore /\ FewStrays /\ LifeTypeOK  BY DEF Life
<1>2. CASE Take \/ (Pop /\ ~PopFrame)
  <2>1. /\ wPc \in {"idle", "inFlight"} /\ wPc' \in {"idle", "inFlight"}
        /\ wPc' # "idle" => exitPc \in {"exec", "join"}
        /\ UNCHANGED <<queue, closed_, wFrame, exitPc, home, strays, early>>
        /\ UNCHANGED connection
    BY <1>2 DEF Take, Pop
  <2>2. LifeTypeOK' /\ Frames' = Frames  BY <1>0, <1>1, <2>1, LifeStep DEF LifeTypeOK
  <2>3. Phases'
    <3>1. UNCHANGED <<mainPc, netPc>>  BY <2>1 DEF connection, vars, netVars, mainVars
    <3> QED  BY <1>1, <2>1, <3>1 DEF Phases
  <2>4. OnePlaceEach' /\ QueuedBefore' /\ FewStrays'
    BY <1>1, <2>1, <2>2 DEF OnePlaceEach, QueuedBefore, FewStrays
  <2> QED  BY <2>2, <2>3, <2>4 DEF Life
<1>3. CASE PopFrame
  <2>1. /\ wPc = "inFlight" /\ queue # <<>> /\ wFrame' = Head(queue)
        /\ queue' = Tail(queue) /\ wPc' = "decode"
        /\ UNCHANGED <<closed_, exitPc, home, strays, early>> /\ UNCHANGED connection
    BY <1>3 DEF PopFrame
  <2>2. /\ queue' \in Seq(Frames) /\ wFrame' \in Frames /\ Len(queue') = Len(queue) - 1
        /\ Range(queue) = {wFrame'} \union Range(queue')
        /\ wFrame' \notin Range(queue') /\ IsInjective(queue')
    BY <1>0, <1>1, <2>1, Taken DEF OnePlaceEach
  <2>3. wFrame = 0  BY <1>1, <2>1 DEF Phases
  <2>4. LifeTypeOK' /\ Frames' = Frames
    <3>1. Len(queue') <= MAX_FRAMES
      BY <1>0, <2>2, LifecycleConstants
    <3>2. home \intersect (Range(queue') \union strays \union {wFrame'}) = {}
      BY <1>0, <2>2
    <3> QED  BY <1>0, <1>1, <2>1, <2>2, <3>1, <3>2, LifeStep DEF LifeTypeOK
  <2>5. Phases'
    <3>1. UNCHANGED <<mainPc, netPc>>  BY <2>1 DEF connection, vars, netVars, mainVars
    <3>2. wFrame' # 0  BY <1>0, <2>2
    <3> QED  BY <1>1, <2>1, <3>1, <3>2 DEF Phases
  <2>6. OnePlaceEach'
    <3>1. (Range(queue) \union strays \union {wFrame}) \ {0}
            = (Range(queue') \union strays \union {wFrame'}) \ {0}
      BY <2>2, <2>3
    <3>2. wFrame' \notin strays /\ Range(queue') \intersect strays = {}
      BY <1>1, <2>2 DEF OnePlaceEach
    <3> QED  BY <1>1, <2>1, <2>2, <2>4, <3>1, <3>2 DEF OnePlaceEach
  <2>7. QueuedBefore'  BY <1>1, <2>1, <2>2 DEF QueuedBefore
  <2>8. FewStrays'
    <3>1. exitPc \in {"exec", "join"}  BY <1>1, <2>1 DEF Phases
    <3> QED  BY <1>1, <2>1, <3>1 DEF FewStrays
  <2> QED  BY <2>4, <2>5, <2>6, <2>7, <2>8 DEF Life
<1>4. CASE Finish
  <2>1. /\ wPc = "decode" /\ home' = home \union {wFrame} /\ wFrame' = 0 /\ wPc' = "idle"
        /\ UNCHANGED <<queue, closed_, exitPc, strays, early>> /\ UNCHANGED connection
    BY <1>4 DEF Finish
  <2>2. wFrame # 0 /\ wFrame \in Frames  BY <1>0, <1>1, <2>1 DEF Phases
  <2>3. LifeTypeOK' /\ Frames' = Frames
    <3>1. home' \intersect (Range(queue) \union strays \union {0}) = {}
      BY <1>0, <1>1, <2>1, <2>2 DEF OnePlaceEach
    <3> QED  BY <1>0, <1>1, <2>1, <2>2, <3>1, LifeStep DEF LifeTypeOK
  <2>4. Phases'
    <3>1. UNCHANGED <<mainPc, netPc>>  BY <2>1 DEF connection, vars, netVars, mainVars
    <3> QED  BY <1>1, <2>1, <3>1 DEF Phases
  <2>5. OnePlaceEach'
    <3>1. Frames \ home' = (Range(queue) \union strays) \ {0}
      BY <1>1, <2>1, <2>2 DEF OnePlaceEach
    <3>2. 0 \notin Range(queue) \union strays  BY <1>0
    <3> QED  BY <1>1, <2>1, <2>3, <3>1, <3>2 DEF OnePlaceEach
  <2>6. QueuedBefore' /\ FewStrays'  BY <1>1, <2>1 DEF QueuedBefore, FewStrays
  <2> QED  BY <2>3, <2>4, <2>5, <2>6 DEF Life
<1> QED  BY <1>2, <1>3, <1>4 DEF Worker

LEMMA LifeExit == Life /\ (Stop \/ Exit) => Life'
<1> SUFFICES ASSUME Life, Stop \/ Exit PROVE Life'  OBVIOUS
<1>0. /\ queue \in Seq(Frames) /\ Len(queue) <= MAX_FRAMES
      /\ Range(queue) \subseteq Frames /\ wFrame \in Frames \union {0}
      /\ home \subseteq Frames /\ strays \subseteq Frames
      /\ home \intersect (Range(queue) \union strays \union {wFrame}) = {}
      /\ Len(handed) \in Nat /\ Frames = 1..Len(handed)
  BY LifeFacts
<1>1. Phases /\ OnePlaceEach /\ QueuedBefore /\ FewStrays /\ LifeTypeOK  BY DEF Life
<1>2. CASE Stop
  <2>1. /\ mainPc \in {"new", "handlerSet"} /\ exitPc = "exec" /\ exitPc' = "join"
        /\ closed_' = TRUE /\ early' = Len(handed)
        /\ UNCHANGED <<queue, wPc, wFrame, home, strays>> /\ UNCHANGED connection
    BY <1>2 DEF Stop, Step
  <2>2. LifeTypeOK' /\ Frames' = Frames  BY <1>0, <1>1, <2>1, LifeStep DEF LifeTypeOK
  <2>3. Phases'
    <3>1. UNCHANGED <<mainPc, netPc>>  BY <2>1 DEF connection, vars, netVars, mainVars
    <3> QED  BY <1>1, <2>1, <3>1 DEF Phases
  <2>4. OnePlaceEach'  BY <1>1, <2>1, <2>2 DEF OnePlaceEach
  <2>5. QueuedBefore'  BY <1>0, <2>1 DEF QueuedBefore
  <2>6. FewStrays'  BY <1>1, <2>1 DEF FewStrays
  <2> QED  BY <2>2, <2>3, <2>4, <2>5, <2>6 DEF Life
<1>3. CASE Join \/ JoinNetwork
  <2>1. /\ \/ wPc = "idle" /\ exitPc = "join" /\ exitPc' = "window"
           \/ exitPc = "net" /\ exitPc' = "end"
        /\ UNCHANGED <<queue, closed_, wPc, wFrame, home, strays, early>>
        /\ UNCHANGED connection
    BY <1>3 DEF Join, JoinNetwork, Step, schedulerVars
  <2>2. LifeTypeOK' /\ Frames' = Frames  BY <1>0, <1>1, <2>1, LifeStep DEF LifeTypeOK
  <2>3. Phases'
    <3>1. UNCHANGED <<mainPc, netPc>>  BY <2>1 DEF connection, vars, netVars, mainVars
    <3> QED  BY <1>1, <2>1, <3>1 DEF Phases
  <2>4. OnePlaceEach' /\ QueuedBefore'
    BY <1>1, <2>1, <2>2 DEF OnePlaceEach, QueuedBefore
  <2>5. FewStrays'  BY <1>1, <2>1 DEF FewStrays
  <2> QED  BY <2>2, <2>3, <2>4, <2>5 DEF Life
<1>4. CASE DestroyWindow
  <2>1. /\ exitPc = "window" /\ exitPc' = "scheduler"
        /\ UNCHANGED <<queue, closed_, wPc, wFrame, home, strays, early>>
        /\ UNCHANGED <<wire, arrived, consumed, consumedTotal, netPc, handed>>
        /\ \/ mainPc' = mainPc
           \/ netPc = "poll" /\ mainPc' = "disconnected"
    BY <1>4 DEF DestroyWindow, Step, Disconnect, Goto, schedulerVars, connection, vars,
                netVars, mainVars
  <2>2. Frames' = Frames  BY <2>1 DEF Frames
  <2>3. TypeOK'  BY <1>1, <2>1 DEF LifeTypeOK, TypeOK, Written, End, Offset
  <2>4. LifeTypeOK'  BY <1>1, <2>1, <2>2, <2>3 DEF LifeTypeOK
  <2>5. Phases'  BY <1>1, <2>1 DEF Phases
  <2>6. OnePlaceEach' /\ QueuedBefore'
    BY <1>1, <2>1, <2>2 DEF OnePlaceEach, QueuedBefore
  <2>7. FewStrays'  BY <1>1, <2>1 DEF FewStrays
  <2> QED  BY <2>4, <2>5, <2>6, <2>7 DEF Life
<1>5. CASE DestroyScheduler
  <2>1. /\ exitPc = "scheduler" /\ exitPc' = "net"
        /\ strays' = strays \union Range(queue) /\ queue' = <<>>
        /\ UNCHANGED <<closed_, wPc, wFrame, home, early>> /\ UNCHANGED connection
    BY <1>5 DEF DestroyScheduler, Step
  <2>2. /\ queue' \in Seq(Frames) /\ Len(queue') = 0 /\ Range(queue') = {}
        /\ IsInjective(queue')
    <3>1. Len(<<>>) = 0 /\ DOMAIN <<>> = {}  OBVIOUS
    <3> QED  BY <2>1, <3>1, EmptySeq DEF Range, IsInjective
  <2>3. LifeTypeOK' /\ Frames' = Frames
    <3>1. Len(queue') <= MAX_FRAMES  BY <2>2, LifecycleConstants
    <3>2. home' \intersect (Range(queue') \union strays' \union {wFrame'}) = {}
      BY <1>0, <2>1, <2>2
    <3>3. strays' \subseteq Frames  BY <1>0, <2>1
    <3> QED  BY <1>0, <1>1, <2>1, <2>2, <3>1, <3>2, <3>3, LifeStep DEF LifeTypeOK
  <2>4. Phases'
    <3>1. UNCHANGED <<mainPc, netPc>>  BY <2>1 DEF connection, vars, netVars, mainVars
    <3> QED  BY <1>1, <2>1, <3>1 DEF Phases
  <2>5. OnePlaceEach'
    <3>1. /\ Frames \ home = (Range(queue) \union strays \union {wFrame}) \ {0}
          /\ wFrame \notin Range(queue) \union strays
      BY <1>1 DEF OnePlaceEach
    <3>2. Range(queue') \union strays' = Range(queue) \union strays  BY <2>1, <2>2
    <3>3. Range(queue') \intersect strays' = {}  BY <2>2
    <3> QED  BY <2>1, <2>2, <2>3, <3>1, <3>2, <3>3 DEF OnePlaceEach
  <2>6. QueuedBefore'  BY <1>1, <2>1, <2>2 DEF QueuedBefore
  <2>7. FewStrays'
    <3>1. strays = {} /\ strays' = Range(queue)  BY <1>1, <2>1 DEF FewStrays
    <3>2. IsFiniteSet(Range(queue)) /\ Cardinality(Range(queue)) <= Len(queue)
      BY <1>0, RangeCounted
    <3>3. Cardinality(Range(queue)) \in Nat /\ Len(queue) \in Nat /\ MAX_FRAMES \in Nat
      BY <1>0, <3>2, FS_CardinalityType, LenProperties, LifecycleConstants
    <3>4. Cardinality(strays') <= MAX_FRAMES  BY <1>0, <3>1, <3>2, <3>3
    <3> QED  BY <2>1, <3>1, <3>2, <3>4 DEF FewStrays
  <2> QED  BY <2>3, <2>4, <2>5, <2>6, <2>7 DEF Life
<1> QED  BY <1>2, <1>3, <1>4, <1>5 DEF Exit

LEMMA LifeGoesOn == Received /\ Life /\ [LifeNext]_lifeVars => Received' /\ Life'
<1> SUFFICES ASSUME Received, Life, [LifeNext]_lifeVars PROVE Received' /\ Life'
  OBVIOUS
<1>0. Phases /\ TypeOK  BY DEF Life, Received
<1>1. CASE (\E size \in Sizes : Broadcast(size)) /\ Elsewhere
  <2>1. PICK size \in Sizes : Broadcast(size)  BY <1>1
  <2>2. handed' = handed /\ mainPc' = mainPc /\ mainPc # "disconnected"
    BY <2>1 DEF Broadcast, Connected, netVars, mainVars
  <2>3. Received' /\ TypeOK'  BY <2>1, ReceivedBroadcast DEF Received
  <2> QED  BY <1>1, <2>2, <2>3, LifeElsewhere
<1>2. CASE Network
  <2>1. CASE \E i \in DOMAIN wire : Handle(wire[i])  BY <2>1, LifeHandle
  <2>2. CASE Return /\ Elsewhere
    <3>1. /\ Received' /\ TypeOK' /\ UNCHANGED <<wire, handed, mainPc>>
          /\ netPc' = "poll"
      BY <2>2, ReceivedReturn DEF Received, Return
    <3> QED  BY <2>2, <3>1, LifeElsewhere
  <2>3. CASE \E n \in (arrived + 1)..Written : Read(n) /\ Elsewhere
    <3>1. PICK n \in (arrived + 1)..Written : Read(n) /\ Elsewhere  BY <2>3
    <3>2. /\ Received' /\ TypeOK' /\ UNCHANGED <<wire, handed, mainPc>>
          /\ mainPc # "disconnected"
      BY <3>1, ReceivedRead DEF Received
    <3> QED  BY <3>1, <3>2, LifeElsewhere
  <2> QED  BY <1>2, <2>1, <2>2, <2>3 DEF Network
<1>3. CASE Worker
  <2>1. UNCHANGED connection  BY <1>3 DEF Worker, Take, Pop, PopFrame, Finish
  <2>2. UNCHANGED <<wire, arrived, consumed, consumedTotal, netPc, handed, mainPc>>
    BY <2>1 DEF connection, vars, netVars, mainVars
  <2> QED  BY <1>0, <1>3, <2>2, LifeWorker, ReceivedApart DEF TypeOK
<1>4. CASE Connect
  <2>1. /\ UNCHANGED <<wire, arrived, consumed, consumedTotal, netPc, handed>>
        /\ mainPc' \in {"connected", "callbackSet", "handlerSet"} /\ Elsewhere
    BY <1>4 DEF Connect, Main, Goto, netVars
  <2>2. Received' /\ TypeOK'  BY <2>1, ReceivedApart DEF Received
  <2> QED  BY <2>1, <2>2, LifeElsewhere
<1>5. CASE Stop \/ Exit
  <2>1. /\ UNCHANGED <<wire, arrived, consumed, consumedTotal, netPc, handed>>
        /\ mainPc' = mainPc \/ mainPc' = "disconnected"
    BY <1>5 DEF Stop, Exit, Join, DestroyWindow, DestroyScheduler, JoinNetwork, Disconnect,
                Goto, connection, vars, netVars, mainVars
  <2> QED  BY <1>0, <1>5, <2>1, LifeExit, ReceivedApart DEF TypeOK
<1>6. CASE Ended \/ UNCHANGED lifeVars
  <2>1. UNCHANGED lifeVars  BY <1>6 DEF Ended
  <2>2. /\ UNCHANGED <<wire, arrived, consumed, consumedTotal, netPc, handed, mainPc>>
        /\ Elsewhere
    BY <2>1 DEF lifeVars, Elsewhere, connection, vars, netVars, mainVars
  <2>3. Received' /\ TypeOK'  BY <1>0, <2>2, ReceivedApart DEF TypeOK, Received
  <2> QED  BY <1>0, <2>2, <2>3, LifeElsewhere DEF Phases
<1> QED  BY <1>1, <1>2, <1>3, <1>4, <1>5, <1>6 DEF LifeNext

(***************************************************************************)
(* The theorems.                                                           *)
(***************************************************************************)

LEMMA LifeAlways == LifeSpec => [](Received /\ Life)
BY LifeStarts, LifeGoesOn, PTL DEF LifeSpec

\* However TCP cuts the stream, what onMessage() hands on are the frames that
\* were sent, whole and in order, and it never takes something else for a
\* header; and a buffer that is back in the pool belongs to no frame
\* (streamClient.cpp:30-63).
THEOREM ReceptionInSync == LifeSpec => []ClientInv
<1>1. Received /\ Life => ClientInv  BY DEF Received, Life, ClientInv
<1> QED  BY <1>1, LifeAlways, PTL

\* When the pool is destroyed its buffers are back, but for those of at most
\* MAX_FRAMES frames that were queued before stop() (main.cpp:81-84).
THEOREM FewBuffersAstray == LifeSpec => []OnlyQueuedStray
<1>1. Received /\ Life => OnlyQueuedStray
  <2> SUFFICES ASSUME Life, mainPc = "disconnected"
               PROVE  /\ wPc = "idle" /\ netPc = "poll"
                      /\ (1..Len(handed)) \ home \subseteq Range(queue) \union strays
                      /\ Range(queue) \union strays \subseteq 1..early
                      /\ Cardinality(Range(queue) \union strays) <= MAX_FRAMES
    BY DEF OnlyQueuedStray
  <2>0. Phases /\ OnePlaceEach /\ QueuedBefore /\ FewStrays  BY DEF Life
  <2>1. /\ exitPc \in {"scheduler", "net", "end"} /\ netPc = "poll" /\ wPc = "idle"
        /\ wFrame = 0 /\ closed_
    BY <2>0 DEF Phases, Life, LifeTypeOK
  <2>2. (1..Len(handed)) \ home \subseteq Range(queue) \union strays
    BY <2>0, <2>1 DEF OnePlaceEach, Frames
  <2>3. Range(queue) \union strays \subseteq 1..early  BY <2>0, <2>1 DEF QueuedBefore
  <2>4. Cardinality(Range(queue) \union strays) <= MAX_FRAMES
    <3>1. CASE exitPc \in {"net", "end"}
      <4>1. queue = <<>> /\ Cardinality(strays) <= MAX_FRAMES  BY <2>0, <3>1 DEF FewStrays
      <4>2. Range(queue) \union strays = strays  BY <4>1 DEF Range
      <4> QED  BY <4>1, <4>2
    <3>2. CASE exitPc = "scheduler"
      <4>1. Range(queue) \union strays = Range(queue)  BY <2>0, <3>2 DEF FewStrays
      <4>2. queue \in Seq(Frames) /\ Len(queue) <= MAX_FRAMES /\ Len(queue) \in Nat
        BY LifeFacts
      <4>3. IsFiniteSet(Range(queue)) /\ Cardinality(Range(queue)) <= Len(queue)
        BY <4>2, RangeCounted
      <4>4. Cardinality(Range(queue)) \in Nat /\ MAX_FRAMES \in Nat
        BY <4>3, FS_CardinalityType, LifecycleConstants
      <4>5. Cardinality(Range(queue)) <= MAX_FRAMES  BY <4>2, <4>3, <4>4
      <4> QED  BY <4>1, <4>5
    <3> QED  BY <2>1, <3>1, <3>2
  <2> QED  BY <2>1, <2>2, <2>3, <2>4
<1> QED  BY <1>1, LifeAlways, PTL

\* When onMessage() returns, every frame that has arrived has been handed on
\* (the comment at lines 33-34 of streamClient.cpp).
THEOREM EverythingRead == LifeSpec => NothingLeftBehind
<1>1. Received /\ Life /\ [LifeNext]_lifeVars =>
        [netPc = "onMessage" /\ netPc' = "poll"
           => \A i \in DOMAIN wire : End(wire[i]) <= arrived => i <= Len(handed)]_vars
  <2> SUFFICES ASSUME Received, Life, LifeNext, netPc = "onMessage", netPc' = "poll",
                      NEW i \in DOMAIN wire, End(wire[i]) <= arrived
               PROVE  i <= Len(handed)
    BY DEF lifeVars, connection
  <2>1. Return
    <3>1. CASE Network
      <4>1. CASE \E k \in DOMAIN wire : Handle(wire[k])
        BY <4>1 DEF Handle, HandleFrame
      <4>2. CASE \E n \in (arrived + 1)..Written : Read(n) /\ Elsewhere
        BY <4>2 DEF Read
      <4> QED  BY <3>1, <4>1, <4>2 DEF Network
    <3>2. CASE ~Network
      <4>1. netPc' = netPc
        BY <3>2 DEF LifeNext, Broadcast, Worker, Take, Pop, PopFrame, Finish, Connect, Main,
                    Goto, Stop, Exit, Join, DestroyWindow, DestroyScheduler, JoinNetwork,
                    Disconnect, Ended, lifeVars, connection, vars, netVars
      <4> QED  BY <4>1
    <3> QED  BY <3>1, <3>2
  <2> QED  BY <2>1, NothingLeft
<1> QED  BY <1>1, LifeAlways, PTL DEF LifeSpec, NothingLeftBehind

=============================================================================
