--------------------------- MODULE VideoPath_proofs ---------------------------
(***************************************************************************)
(* What VideoPath.tla promises for payloads of any length, pictures of any *)
(* shape and widgets of any size: decoding starts where it can, a picture  *)
(* fits its widget and, but for a stale stride, its buffer, and a paint    *)
(* that mixed two pictures is followed by another.                         *)
(***************************************************************************)
EXTENDS VideoPath, FiniteSetTheorems, SequenceTheorems, TLAPS

(***************************************************************************)
(* containsIDR.                                                            *)
(***************************************************************************)

LEMMA PayloadBytes ==
  ASSUME NEW d \in Payloads
  PROVE  /\ d \in Seq(Bytes) /\ Len(d) \in Nat /\ DOMAIN d = 1..Len(d)
         /\ \A i \in 1..Len(d) : d[i] \in 0..255
<1>1. PICK n \in 1..PayloadLength : d \in [1..n -> Bytes]  BY DEF Payloads
<1>2. n \in Nat  BY VideoConstants
<1>3. d \in Seq(Bytes) /\ Len(d) = n  BY <1>1, <1>2
<1> QED  BY <1>1, <1>2, <1>3, VideoConstants

\* A short sequence is found where its elements are.
LEMMA FoundAt ==
  ASSUME NEW d \in Seq(Nat), NEW i \in Nat \ {0}, NEW s \in Seq(Nat), Len(s) > 0
  PROVE  At(d, i, s) <=> /\ i + Len(s) - 1 <= Len(d)
                         /\ \A k \in 1..Len(s) : d[i + k - 1] = s[k]
<1> DEFINE n == Len(s)
           m == i + n - 1
<1>1. Len(d) \in Nat /\ n \in Nat \ {0}  BY LenProperties
<1>2. SUFFICES ASSUME m <= Len(d)
               PROVE  SubSeq(d, i, m) = s <=> \A k \in 1..n : d[i + k - 1] = s[k]
  BY DEF At
<1>3. m \in Nat /\ i <= m /\ m - i + 1 = n  BY <1>1
<1>4. \A k \in i..m : d[k] \in Nat  BY <1>1, <1>2
<1> HIDE DEF m
<1>5. /\ SubSeq(d, i, m) \in Seq(Nat)
      /\ Len(SubSeq(d, i, m)) = m - i + 1
      /\ \A k \in 1..(m - i + 1) : SubSeq(d, i, m)[k] = d[i + k - 1]
  BY <1>3, <1>4, SubSeqProperties
<1> HIDE DEF n
<1>6. /\ Len(SubSeq(d, i, m)) = n
      /\ \A k \in 1..n : SubSeq(d, i, m)[k] = d[i + k - 1]
  BY <1>3, <1>5
<1>7. (\A k \in 1..n : SubSeq(d, i, m)[k] = s[k]) => SubSeq(d, i, m) = s
  BY <1>5, <1>6, SeqEqual DEF n
<1> QED  BY <1>6, <1>7

\* A start code of three bytes, or of four.
LEMMA StartCode ==
  ASSUME NEW d \in Seq(Nat), NEW i \in Nat \ {0}
  PROVE  /\ At(d, i, <<0, 0, 1>>) <=>
              i + 2 <= Len(d) /\ d[i] = 0 /\ d[i + 1] = 0 /\ d[i + 2] = 1
         /\ At(d, i, <<0, 0, 0, 1>>) <=>
              i + 3 <= Len(d) /\ d[i] = 0 /\ d[i + 1] = 0 /\ d[i + 2] = 0 /\ d[i + 3] = 1
<1>1. /\ <<0, 0, 1>> \in Seq(Nat) /\ Len(<<0, 0, 1>>) = 3
      /\ <<0, 0, 0, 1>> \in Seq(Nat) /\ Len(<<0, 0, 0, 1>>) = 4
  OBVIOUS
<1>2. At(d, i, <<0, 0, 1>>) <=> /\ i + 3 - 1 <= Len(d)
                                /\ \A k \in 1..3 : d[i + k - 1] = <<0, 0, 1>>[k]
  <2>1. 3 > 0  OBVIOUS
  <2> QED  BY <1>1, <2>1, FoundAt
<1>3. At(d, i, <<0, 0, 0, 1>>) <=> /\ i + 4 - 1 <= Len(d)
                                   /\ \A k \in 1..4 : d[i + k - 1] = <<0, 0, 0, 1>>[k]
  <2>1. 4 > 0  OBVIOUS
  <2> QED  BY <1>1, <2>1, FoundAt
<1>4. 1..3 = {1, 2, 3} /\ 1..4 = {1, 2, 3, 4}  OBVIOUS
<1>5. /\ i + 1 - 1 = i /\ i + 2 - 1 = i + 1 /\ i + 3 - 1 = i + 2 /\ i + 4 - 1 = i + 3
  OBVIOUS
<1> QED  BY <1>2, <1>3, <1>4, <1>5

\* One turn of the loop at byte i, when from holds what it finds further on.
Turn(d, from, i) ==
    LET hdr == IF At(d, i, <<0, 0, 1>>) THEN 3
               ELSE IF At(d, i, <<0, 0, 0, 1>>) THEN 4 ELSE 0
        nal == i + hdr
    IN  /\ i + 2 <= Len(d)
        /\ IF hdr = 0 THEN from[i + 1]
           ELSE nal <= Len(d) /\ (d[nal] % 32 = 5 \/ from[nal + 1])

Loop(d) == CHOOSE from : from = [i \in 1..(Len(d) + 2) |-> Turn(d, from, i)]

LEMMA LoopIsLoop == \A d : containsIDR(d) = Loop(d)[1]
BY DEF containsIDR, Loop, Turn

\* What the loop should find from byte i on.
Later(d, i) == \E j \in NALHeaders(d) : j >= i + 3 /\ d[j] % 32 = 5

LEMMA Headers ==
  ASSUME NEW d \in Payloads, NEW j \in Nat
  PROVE  j \in NALHeaders(d) <=>
           j > 3 /\ j <= Len(d) /\ d[j - 3] = 0 /\ d[j - 2] = 0 /\ d[j - 1] = 1
<1>1. d \in Seq(Nat) /\ Len(d) \in Nat /\ DOMAIN d = 1..Len(d)
  <2>1. Bytes \subseteq Nat  BY VideoConstants
  <2> QED  BY <2>1, PayloadBytes, SeqMonotonic
<1>2. SUFFICES ASSUME j > 3 PROVE j \in NALHeaders(d) <=>
                 j <= Len(d) /\ d[j - 3] = 0 /\ d[j - 2] = 0 /\ d[j - 1] = 1
  BY <1>1 DEF NALHeaders
<1>3. /\ j - 3 \in Nat \ {0} /\ (j - 3) + 1 = j - 2 /\ (j - 3) + 2 = j - 1
      /\ (j \in DOMAIN d) <=> (j <= Len(d))
  BY <1>1, <1>2
<1>4. At(d, j - 3, <<0, 0, 1>>) <=>
        j - 1 <= Len(d) /\ d[j - 3] = 0 /\ d[j - 2] = 0 /\ d[j - 1] = 1
  <2> DEFINE i == j - 3
  <2>1. At(d, i, <<0, 0, 1>>) <=>
          i + 2 <= Len(d) /\ d[i] = 0 /\ d[i + 1] = 0 /\ d[i + 2] = 1
    BY <1>1, <1>3, StartCode
  <2> QED  BY <1>3, <2>1
<1> QED  BY <1>1, <1>2, <1>3, <1>4 DEF NALHeaders

\* A start code is not cut short by the next: where one has been skipped with
\* the header that follows it, no other begins.
LEMMA NoneInside ==
  ASSUME NEW d \in Emitted, NEW n \in NALHeaders(d), NEW j \in NALHeaders(d), j > n
  PROVE  j >= n + 4
<1>1. d \in Payloads /\ d[n] # 0  BY DEF Emitted
<1>2. n \in Nat /\ j \in Nat /\ n <= Len(d) /\ n > 3
  BY <1>1, PayloadBytes DEF NALHeaders
<1>3. d[n - 3] = 0 /\ d[n - 2] = 0 /\ d[n - 1] = 1  BY <1>1, <1>2, Headers
<1>4. d[j - 3] = 0 /\ d[j - 2] = 0 /\ d[j - 1] = 1  BY <1>1, <1>2, Headers
<1>5. j # n + 1
  <2>1. SUFFICES ASSUME j = n + 1 PROVE FALSE  OBVIOUS
  <2>2. j - 2 = n - 1  BY <1>2, <2>1
  <2> QED  BY <1>3, <1>4, <2>2
<1>6. j # n + 2
  <2>1. SUFFICES ASSUME j = n + 2 PROVE FALSE  OBVIOUS
  <2>2. j - 3 = n - 1  BY <1>2, <2>1
  <2> QED  BY <1>3, <1>4, <2>2
<1>7. j # n + 3
  <2>1. SUFFICES ASSUME j = n + 3 PROVE FALSE  OBVIOUS
  <2>2. j - 3 = n  BY <1>2, <2>1
  <2> QED  BY <1>1, <1>4, <2>2
<1> QED  BY <1>2, <1>5, <1>6, <1>7

\* Later() solves the equation of the loop.
LEMMA LaterTurns ==
  ASSUME NEW d \in Emitted, NEW from, NEW i \in 1..(Len(d) + 2),
         \A k \in 1..(Len(d) + 2) : from[k] = Later(d, k)
  PROVE  Turn(d, from, i) <=> Later(d, i)
<1>1. d \in Payloads  BY DEF Emitted
<1>2. Len(d) \in Nat /\ DOMAIN d = 1..Len(d)  BY <1>1, PayloadBytes
<1>3. \A j \in NALHeaders(d) : j \in Nat /\ j <= Len(d)  BY <1>2 DEF NALHeaders
<1>4. i \in Nat \ {0}  BY <1>2
<1>5. CASE ~(i + 2 <= Len(d))
  <2>1. ~Turn(d, from, i)  BY <1>5 DEF Turn
  <2>2. ~Later(d, i)  BY <1>2, <1>3, <1>4, <1>5 DEF Later
  <2> QED  BY <2>1, <2>2 DEF Turn, Later
<1>6. CASE i + 2 <= Len(d)
  <2>0. d \in Seq(Nat)
    <3>1. Bytes \subseteq Nat  BY VideoConstants
    <3> QED  BY <1>1, <3>1, PayloadBytes, SeqMonotonic
  <2> DEFINE three == At(d, i, <<0, 0, 1>>)
             four  == At(d, i, <<0, 0, 0, 1>>)
  <2>1. three <=> d[i] = 0 /\ d[i + 1] = 0 /\ d[i + 2] = 1
    BY <1>4, <1>6, <2>0, StartCode
  <2>2. i + 3 \in NALHeaders(d) <=> i + 3 <= Len(d) /\ three
    <3>1. /\ i + 3 \in Nat /\ i + 3 > 3
          /\ (i + 3) - 3 = i /\ (i + 3) - 2 = i + 1 /\ (i + 3) - 1 = i + 2
      BY <1>4
    <3> QED  BY <1>1, <2>1, <3>1, Headers
  <2>3. CASE three
    <3> DEFINE nal == i + 3
    <3>1. Turn(d, from, i) <=> nal <= Len(d) /\ (d[nal] % 32 = 5 \/ from[nal + 1])
      BY <1>6, <2>3 DEF Turn
    <3>2. CASE nal <= Len(d)
      <4>1. nal \in NALHeaders(d) /\ nal + 1 \in 1..(Len(d) + 2)
        BY <1>2, <1>4, <2>2, <2>3, <3>2
      <4>2. Later(d, i) <=> d[nal] % 32 = 5 \/ Later(d, nal + 1)
        <5>1. \A j \in NALHeaders(d) : j >= i + 3 <=> j = nal \/ j >= (nal + 1) + 3
          BY <1>3, <1>4, <4>1, NoneInside
        <5> QED  BY <4>1, <5>1 DEF Later
      <4>3. from[nal + 1] = Later(d, nal + 1)  BY <4>1
      <4> HIDE DEF nal
      <4> QED  BY <3>1, <3>2, <4>2, <4>3 DEF Later
    <3>3. CASE ~(nal <= Len(d))
      <4>1. ~Later(d, i)  BY <1>2, <1>3, <1>4, <3>3 DEF Later
      <4> QED  BY <3>1, <3>3, <4>1 DEF Later
    <3> QED  BY <3>2, <3>3
  <2>4. CASE ~three /\ four
    <3> DEFINE nal == i + 4
    <3>1. Turn(d, from, i) <=> nal <= Len(d) /\ (d[nal] % 32 = 5 \/ from[nal + 1])
      BY <1>6, <2>4 DEF Turn
    <3>2. i + 3 <= Len(d) /\ d[i + 1] = 0 /\ d[i + 2] = 0 /\ d[i + 3] = 1
      BY <1>4, <2>0, <2>4, StartCode
    <3>3. i + 3 \notin NALHeaders(d)  BY <2>2, <2>4
    <3>4. CASE nal <= Len(d)
      <4>1. nal \in NALHeaders(d) /\ nal + 1 \in 1..(Len(d) + 2)
        <5>1. /\ nal \in Nat /\ nal > 3
              /\ nal - 3 = i + 1 /\ nal - 2 = i + 2 /\ nal - 1 = i + 3
          BY <1>4
        <5>2. nal + 1 \in 1..(Len(d) + 2)  BY <1>2, <1>4, <3>4
        <5> QED  BY <1>1, <3>2, <3>4, <5>1, <5>2, Headers
      <4>2. Later(d, i) <=> d[nal] % 32 = 5 \/ Later(d, nal + 1)
        <5>1. \A j \in NALHeaders(d) : j >= i + 3 <=> j = nal \/ j >= (nal + 1) + 3
          <6>1. \A j \in NALHeaders(d) : j > nal => j >= nal + 4  BY <4>1, NoneInside
          <6> QED  BY <1>3, <1>4, <3>3, <6>1
        <5> QED  BY <4>1, <5>1 DEF Later
      <4>3. from[nal + 1] = Later(d, nal + 1)  BY <4>1
      <4> HIDE DEF nal
      <4> QED  BY <3>1, <3>4, <4>2, <4>3 DEF Later
    <3>5. CASE ~(nal <= Len(d))
      <4>1. ~Later(d, i)  BY <1>2, <1>3, <1>4, <3>3, <3>5 DEF Later
      <4> QED  BY <3>1, <3>5, <4>1 DEF Later
    <3> QED  BY <3>4, <3>5
  <2>5. CASE ~three /\ ~four
    <3>1. Turn(d, from, i) <=> from[i + 1]  BY <1>6, <2>5 DEF Turn
    <3>2. from[i + 1] = Later(d, i + 1)  BY <1>2, <1>4, <1>6
    <3>3. i + 3 \notin NALHeaders(d)  BY <2>2, <2>5
    <3>4. \A j \in NALHeaders(d) : j >= i + 3 <=> j >= (i + 1) + 3
      BY <1>3, <1>4, <3>3
    <3>5. Later(d, i) <=> Later(d, i + 1)  BY <3>4 DEF Later
    <3> QED  BY <3>1, <3>2, <3>5 DEF Later
  <2> QED  BY <2>3, <2>4, <2>5
<1> QED  BY <1>5, <1>6

\* The equation of the loop has a solution, so the function is one.
LEMMA LoopSolves ==
  ASSUME NEW d \in Emitted
  PROVE  Loop(d) = [i \in 1..(Len(d) + 2) |-> Turn(d, Loop(d), i)]
<1> DEFINE n == Len(d) + 2
           W == [i \in 1..n |-> Later(d, i)]
<1>1. \A k \in 1..n : W[k] = Later(d, k)  OBVIOUS
<1>2. ASSUME NEW i \in 1..n PROVE Turn(d, W, i) = Later(d, i)
  <2>1. Turn(d, W, i) <=> Later(d, i)
    <3> HIDE DEF W
    <3> QED  BY <1>1, LaterTurns
  <2>2. Turn(d, W, i) \in BOOLEAN /\ Later(d, i) \in BOOLEAN
    <3> HIDE DEF W
    <3> QED  BY DEF Turn, Later
  <2> HIDE DEF W
  <2> QED  BY <2>1, <2>2
<1>3. W = [i \in 1..n |-> Turn(d, W, i)]  BY <1>2
<1>4. \E from : from = [i \in 1..n |-> Turn(d, from, i)]  BY <1>3
<1> QED  BY <1>4 DEF Loop

\* A set of numbers with a bound has a largest one.
LEMMA Largest ==
  ASSUME NEW n \in Nat, NEW S, S \subseteq 1..n, S # {}
  PROVE  \E m \in S : \A i \in S : i <= m
<1> DEFINE above == {i..n : i \in S}
<1>1. above # {} /\ above \subseteq FiniteSubsetsOf(Nat)
  <2> SUFFICES ASSUME NEW i \in S PROVE i..n \in FiniteSubsetsOf(Nat)
    BY DEF FiniteSubsetsOf
  <2> QED  BY FS_Interval DEF FiniteSubsetsOf
<1>2. PICK X \in above : \A Y \in above : ~(<<Y, X>> \in StrictSubsetOrdering(Nat))
  <2>1. IsWellFoundedOn(StrictSubsetOrdering(Nat), FiniteSubsetsOf(Nat))
    BY FS_StrictSubsetOrderingWellFounded
  <2> HIDE DEF above
  <2> QED  BY <1>1, <2>1, WFMin
<1>3. PICK m \in S : X = m..n  BY <1>2
<1>4. ASSUME NEW i \in S, ~(i <= m) PROVE FALSE
  <2>1. i \in Nat /\ m \in Nat /\ m < i /\ m <= n  BY <1>4
  <2>2. i..n \subseteq m..n /\ m \in m..n /\ m \notin i..n  BY <2>1
  <2>3. i..n \in SUBSET Nat /\ m..n \in SUBSET Nat  BY <2>1
  <2>4. <<i..n, m..n>> \in StrictSubsetOrdering(Nat)
    BY <2>2, <2>3 DEF StrictSubsetOrdering
  <2>5. i..n \in above  OBVIOUS
  <2> HIDE DEF above
  <2> QED  BY <1>2, <1>3, <2>4, <2>5
<1> QED  BY <1>4

\* A turn looks only further on.
LEMMA TurnLooksAhead ==
  ASSUME NEW d \in Payloads, NEW f, NEW g, NEW i \in 1..(Len(d) + 2),
         \A k \in 1..(Len(d) + 2) : k > i => (f[k] <=> g[k])
  PROVE  Turn(d, f, i) <=> Turn(d, g, i)
<1>1. Len(d) \in Nat  BY PayloadBytes
<1> DEFINE hdr == IF At(d, i, <<0, 0, 1>>) THEN 3
                  ELSE IF At(d, i, <<0, 0, 0, 1>>) THEN 4 ELSE 0
<1>2. hdr \in {0, 3, 4}  OBVIOUS
<1>3. ASSUME NEW from PROVE
        Turn(d, from, i) <=>
          /\ i + 2 <= Len(d)
          /\ hdr = 0 => from[i + 1]
          /\ hdr # 0 => i + hdr <= Len(d) /\ (d[i + hdr] % 32 = 5 \/ from[i + hdr + 1])
  BY DEF Turn
<1> HIDE DEF hdr
<1>4. i + 2 <= Len(d) => (f[i + 1] <=> g[i + 1])  BY <1>1
<1>5. i + hdr <= Len(d) => (f[i + hdr + 1] <=> g[i + hdr + 1])  BY <1>1, <1>2
<1> QED  BY <1>3, <1>4, <1>5

\* Every solution of the equation is the same, from the end of the payload on.
LEMMA LoopIsLater ==
  ASSUME NEW d \in Emitted, NEW i \in 1..(Len(d) + 2)
  PROVE  Loop(d)[i] <=> Later(d, i)
<1>1. d \in Payloads /\ Len(d) + 2 \in Nat  BY PayloadBytes DEF Emitted
<1> DEFINE n == Len(d) + 2
           W == [k \in 1..n |-> Later(d, k)]
           Wrong == {k \in 1..n : ~(Loop(d)[k] <=> Later(d, k))}
<1>2. SUFFICES ASSUME Wrong # {} PROVE FALSE  OBVIOUS
<1>3. PICK m \in Wrong : \A k \in Wrong : k <= m
  <2>1. Wrong \subseteq 1..n  OBVIOUS
  <2> HIDE DEF Wrong
  <2> QED  BY <1>1, <1>2, <2>1, Largest
<1>4. \A k \in 1..n : W[k] = Later(d, k)  OBVIOUS
<1>5. \A k \in 1..n : k > m => (Loop(d)[k] <=> W[k])  BY <1>1, <1>3, <1>4
<1> HIDE DEF W
<1>6. Turn(d, Loop(d), m) <=> Turn(d, W, m)  BY <1>1, <1>3, <1>5, TurnLooksAhead
<1>7. Turn(d, W, m) <=> Later(d, m)  BY <1>3, <1>4, LaterTurns
<1>8. Loop(d)[m] <=> Turn(d, Loop(d), m)  BY <1>3, LoopSolves
<1> QED  BY <1>3, <1>6, <1>7, <1>8

\* In what an encoder emits the loop finds an IDR slice where there is one.
LEMMA IDRFound ==
  ASSUME NEW d \in Emitted
  PROVE  containsIDR(d) <=> HasIDR(d)
<1>1. d \in Payloads /\ 1 \in 1..(Len(d) + 2)  BY PayloadBytes DEF Emitted
<1>2. Loop(d)[1] <=> Later(d, 1)  BY <1>1, LoopIsLater
<1>3. \A j \in NALHeaders(d) : j >= 1 + 3
  BY <1>1, PayloadBytes DEF NALHeaders
<1>4. Later(d, 1) <=> HasIDR(d)  BY <1>3 DEF Later, HasIDR
<1> QED  BY <1>2, <1>4, LoopIsLoop

\* What a payload is, as the actions tell payloads apart.
LEMMA KindsAgree ==
  ASSUME NEW k \in Kinds
  PROVE  /\ k = [idr |-> k.idr, found |-> k.found]
         /\ k.idr \in BOOLEAN /\ k.found \in BOOLEAN
         /\ k.found <=> k.idr
<1>1. PICK d \in Emitted : k = [idr |-> HasIDR(d), found |-> containsIDR(d)]
  BY DEF Kinds
<1>2. HasIDR(d) \in BOOLEAN  BY DEF HasIDR
<1>3. containsIDR(d) \in BOOLEAN
  <2>1. d \in Payloads /\ 1 \in 1..(Len(d) + 2)  BY PayloadBytes DEF Emitted
  <2>2. Loop(d)[1] = Turn(d, Loop(d), 1)  BY <2>1, LoopSolves
  <2>3. Turn(d, Loop(d), 1) \in BOOLEAN  BY DEF Turn
  <2> QED  BY <2>2, <2>3, LoopIsLoop
<1> QED  BY <1>1, <1>2, <1>3, IDRFound

(***************************************************************************)
(* The inductive invariant.                                                *)
(***************************************************************************)

\* While decode() has an AVFrame and an AVPacket, the pools have none.
Lent ==
    \A o \in DOMAIN pool :
      /\ wPc = "idle" => pool[o].in = pool[o].made /\ pool[o].made <= 1
      /\ wPc # "idle" => pool[o].in = 0 /\ pool[o].made = 1

\* Rows of the length the buffer was allocated with, for a shape of its size.
Strided(f, n) == \E s \in Shapes : s.w = f.stride /\ s.w * s.h = n

\* A picture, in a buffer of at least its size.
Picture(f) ==
    /\ f.shape \in Shapes
    /\ f.len >= f.shape.w * f.shape.h
    /\ f.scaledFrom = <<f.shape.w, f.shape.h>>
    /\ Strided(f, f.shape.w * f.shape.h)

\* The decoder's buffer has exactly the size of the last picture.
Decoded ==
    /\ decoded.picture = 0 => decoded = NoFrame
    /\ decoded.picture > 0 => Picture(decoded) /\ decoded.len = decoded.shape.w * decoded.shape.h
    /\ wPc = "onVideoFrame" => decoded.picture > 0

\* What the widget has is what it was given, and the screen has nothing before.
Stored ==
    /\ videoFrame_.picture = 0 => videoFrame_ = NoFrame /\ screen.picture = 0
    /\ videoFrame_.picture > 0 => Picture(videoFrame_)

\* Between paints the screen may be right; in a paint only what it goes by
\* counts.
Repaint ==
    \/ uiPc = "idle" /\ UpToDate
    \/ dirty \/ posted > 0 \/ wPc = "post"
    \/ uiPc = "paintGL" /\ (videoFrame_.picture > 0 => rect = ItemRect(size, videoFrame_.shape))

PictureKept == TypeOK /\ Lent /\ Decoded /\ Stored /\ Repaint /\ RectFits

(***************************************************************************)
(* The rectangle.                                                          *)
(***************************************************************************)

\* Rounding x/y stays on its side of a whole number.
LEMMA RoundBounds ==
  ASSUME NEW x \in Nat, NEW y \in Nat \ {0}, NEW n \in Nat
  PROVE  /\ Round(x, y) \in Nat
         /\ x <= n * y => Round(x, y) <= n
         /\ Round(x, y) > n => x > n * y
<1> DEFINE k == Round(x, y)
<1>1. k \in Nat /\ k * (2 * y) <= 2 * x + y  BY DEF Round
<1> HIDE DEF k
<1>2. ASSUME k > n PROVE x > n * y
  <2>1. PICK e \in Nat : k = n + 1 + e  BY <1>1, <1>2
  <2>2. k * (2 * y) = 2 * (n * y) + 2 * y + 2 * (e * y)  BY <2>1
  <2>3. n * y \in Nat /\ e * y \in Nat  BY <2>1
  <2> QED  BY <1>1, <2>2, <2>3
<1>3. ASSUME x <= n * y PROVE k <= n
  <2>1. n * y \in Nat  OBVIOUS
  <2> QED  BY <1>1, <1>2, <1>3, <2>1
<1> QED  BY <1>1, <1>2, <1>3 DEF k

LEMMA EvenBelow ==
  ASSUME NEW n \in Nat
  PROVE  Even(n) \in Nat /\ Even(n) <= n
BY DEF Even

LEMMA ShapeNumbers ==
  ASSUME NEW s \in Shapes
  PROVE  /\ s.w \in Nat \ {0} /\ s.h \in Nat \ {0} /\ s.w * s.h \in Nat \ {0}
         /\ AspectRatio(s)[1] \in Nat \ {0} /\ AspectRatio(s)[2] \in Nat \ {0}
<1>1. /\ s.w \in Nat \ {0} /\ s.h \in Nat \ {0}
      /\ s.sar[1] \in Nat /\ s.sar[2] \in Nat \ {0}
  BY VideoConstants
<1>2. \A m, n \in Nat \ {0} : m * n \in Nat \ {0}  OBVIOUS
<1>3. s.w * s.h \in Nat \ {0}  BY <1>1, <1>2
<1>4. CASE s.sar[1] = 0  BY <1>1, <1>3, <1>4 DEF AspectRatio
<1>5. CASE s.sar[1] # 0
  <2>1. s.sar[1] \in Nat \ {0}  BY <1>1, <1>5
  <2>2. s.w * s.sar[1] \in Nat \ {0} /\ s.h * s.sar[2] \in Nat \ {0}  BY <1>1, <1>2, <2>1
  <2>3. AspectRatio(s) = <<s.w * s.sar[1], s.h * s.sar[2]>>  BY <1>5 DEF AspectRatio
  <2> QED  BY <1>1, <1>3, <2>2, <2>3
<1> QED  BY <1>4, <1>5

\* As high as the widget or as wide, and the other way not beyond it.
LEMMA RectInside ==
  ASSUME NEW s \in Shapes, NEW sz \in Sizes
  PROVE  LET r == ItemRect(sz, s)
         IN  /\ r \in Nat \X Nat
             /\ r[1] <= sz[1] /\ r[2] <= sz[2]
             /\ r[1] = sz[1] \/ r[2] = sz[2]
<1> DEFINE a == AspectRatio(s)[1]
           b == AspectRatio(s)[2]
           x == sz[1]
           y == sz[2]
           w == Even(Round(y * a, b))
           h == Even(Round(x * b, a))
<1>1. a \in Nat \ {0} /\ b \in Nat \ {0}  BY ShapeNumbers
<1>2. x \in Nat /\ y \in Nat  BY VideoConstants
<1>3. ItemRect(sz, s) = IF w <= x THEN <<w, y>> ELSE <<x, h>>
  BY DEF ItemRect, HighOrWide
<1> HIDE DEF a, b, x, y
<1>4. y * a \in Nat /\ x * b \in Nat  BY <1>1, <1>2
<1>5. /\ Round(y * a, b) \in Nat
      /\ Round(y * a, b) > x => y * a > x * b
  BY <1>1, <1>2, <1>4, RoundBounds
<1>6. /\ Round(x * b, a) \in Nat
      /\ x * b <= y * a => Round(x * b, a) <= y
  BY <1>1, <1>2, <1>4, RoundBounds
<1>7. w \in Nat /\ w <= Round(y * a, b)  BY <1>5, EvenBelow
<1>8. h \in Nat /\ h <= Round(x * b, a)  BY <1>6, EvenBelow
<1> HIDE DEF w, h
<1>9. w > x => h <= y
  <2>1. SUFFICES ASSUME w > x PROVE h <= y  OBVIOUS
  <2>2. Round(y * a, b) > x  BY <1>2, <1>5, <1>7, <2>1
  <2>3. x * b <= y * a  BY <1>4, <1>5, <2>2
  <2> QED  BY <1>2, <1>6, <1>8, <2>3
<1>10. CASE w <= x
  <2>1. ItemRect(sz, s) = <<w, y>>  BY <1>3, <1>10
  <2> QED  BY <1>2, <1>7, <1>10, <2>1 DEF x, y
<1>11. CASE w > x
  <2>1. ItemRect(sz, s) = <<x, h>>  BY <1>2, <1>3, <1>7, <1>11
  <2> QED  BY <1>2, <1>8, <1>9, <1>11, <2>1 DEF x, y
<1> QED  BY <1>2, <1>7, <1>10, <1>11

(***************************************************************************)
(* The steps.                                                              *)
(***************************************************************************)

LEMMA KeptInit == Init => PictureKept
<1> SUFFICES ASSUME Init PROVE PictureKept  OBVIOUS
<1>1. NoFrame \in FrameType
  <2>1. NoShape \in Shapes \union {NoShape}  OBVIOUS
  <2>2. 0 \in 0..PictureBound  BY VideoConstants
  <2> HIDE DEF NoShape
  <2> QED  BY <2>1, <2>2 DEF NoFrame, FrameType
<1>2. TypeOK
  <2>1. 0 \in 0..PictureBound  BY VideoConstants
  <2> QED  BY <1>1, <2>1 DEF Init, TypeOK
<1>3. Lent  BY DEF Init, Lent
<1>4. Decoded /\ Stored
  <2>1. decoded = NoFrame /\ videoFrame_ = NoFrame /\ NoFrame.picture = 0
    BY DEF Init, NoFrame
  <2> QED  BY <2>1 DEF Init, Decoded, Stored
<1>5. Repaint /\ RectFits  BY DEF Init, Repaint, RectFits
<1> QED  BY <1>2, <1>3, <1>4, <1>5 DEF PictureKept

\* The pools, on the way into decode() and out of it.
LEMMA KeptDecode == PictureKept /\ (\E k \in Kinds : Decode(k)) => PictureKept'
<1> SUFFICES ASSUME PictureKept, NEW k \in Kinds, Decode(k) PROVE PictureKept'  OBVIOUS
<1>0. TypeOK /\ Lent /\ Decoded /\ Stored /\ Repaint /\ RectFits  BY DEF PictureKept
<1>1. /\ wPc = "idle" /\ wPc' \in {"idle", "receive"}
      /\ UNCHANGED <<isStarted_, cached, decoded, videoFrame_, posted, widgetVars>>
  BY DEF Decode
<1>2. /\ pool \in [{"frame", "packet"} -> [in : Nat, made : Nat]]
      /\ \A o \in {"frame", "packet"} : pool[o].in = pool[o].made /\ pool[o].made <= 1
  BY <1>0, <1>1 DEF TypeOK, Lent
<1> DEFINE one == Get(pool, "packet")
           both == Get(one, "frame")
<1>3. /\ one \in [{"frame", "packet"} -> [in : Nat, made : Nat]]
      /\ one["packet"].in = 0 /\ one["packet"].made = 1
      /\ one["frame"] = pool["frame"]
  BY <1>2 DEF Get
<1>4. /\ Put(one, "packet") \in [{"frame", "packet"} -> [in : Nat, made : Nat]]
      /\ \A o \in {"frame", "packet"} :
           Put(one, "packet")[o].in = Put(one, "packet")[o].made /\ Put(one, "packet")[o].made <= 1
  <2> HIDE DEF one
  <2> QED  BY <1>2, <1>3 DEF Put
<1>5. /\ both \in [{"frame", "packet"} -> [in : Nat, made : Nat]]
      /\ \A o \in {"frame", "packet"} : both[o].in = 0 /\ both[o].made = 1
  <2> HIDE DEF one
  <2> QED  BY <1>2, <1>3 DEF Get
<1> HIDE DEF one, both
<1>6. \/ wPc' = "idle" /\ pool' = pool
      \/ wPc' = "idle" /\ pool' = Put(one, "packet")
      \/ wPc' = "receive" /\ pool' = both
  BY <1>1 DEF Decode, one, both
<1>7. pool' \in [{"frame", "packet"} -> [in : Nat, made : Nat]]  BY <1>2, <1>4, <1>5, <1>6
<1>8. Lent'  BY <1>1, <1>2, <1>4, <1>5, <1>6, <1>7 DEF Lent
<1>9. TypeOK'
  <2>1. k.idr \in BOOLEAN /\ k.found \in BOOLEAN  BY KindsAgree
  <2>2. call' \in [started : BOOLEAN, idr : BOOLEAN, sent : BOOLEAN]
    BY <1>0, <2>1 DEF Decode, TypeOK
  <2> QED  BY <1>0, <1>1, <1>7, <2>2 DEF TypeOK, widgetVars
<1>10. Decoded' /\ Stored'
  BY <1>0, <1>1 DEF Decoded, Stored, Picture, Strided, widgetVars
<1>11. Repaint' /\ RectFits'
  BY <1>0, <1>1 DEF Repaint, UpToDate, RectFits, widgetVars
<1> QED  BY <1>8, <1>9, <1>10, <1>11 DEF PictureKept

LEMMA KeptDecodeEnd == PictureKept /\ DecodeEnd => PictureKept'
<1> SUFFICES ASSUME PictureKept, DecodeEnd PROVE PictureKept'  OBVIOUS
<1>0. TypeOK /\ Lent /\ Decoded /\ Stored /\ Repaint /\ RectFits  BY DEF PictureKept
<1>1. /\ wPc = "receive" /\ wPc' = "idle"
      /\ pool' = Put(Put(pool, "frame"), "packet")
      /\ UNCHANGED <<isStarted_, call, cached, decoded, videoFrame_, posted, widgetVars>>
  BY DEF DecodeEnd
<1>2. /\ pool \in [{"frame", "packet"} -> [in : Nat, made : Nat]]
      /\ \A o \in {"frame", "packet"} : pool[o].in = 0 /\ pool[o].made = 1
  BY <1>0, <1>1 DEF TypeOK, Lent
<1> DEFINE one == Put(pool, "frame")
<1>3. /\ one \in [{"frame", "packet"} -> [in : Nat, made : Nat]]
      /\ one["frame"].in = 1 /\ one["frame"].made = 1 /\ one["packet"] = pool["packet"]
  BY <1>2 DEF Put
<1>4. /\ pool' \in [{"frame", "packet"} -> [in : Nat, made : Nat]]
      /\ \A o \in {"frame", "packet"} : pool'[o].in = 1 /\ pool'[o].made = 1
  <2>1. pool' = Put(one, "packet")  BY <1>1
  <2> HIDE DEF one
  <2> QED  BY <1>2, <1>3, <2>1 DEF Put
<1>5. Lent'  BY <1>1, <1>4 DEF Lent
<1>6. TypeOK'  BY <1>0, <1>1, <1>4 DEF TypeOK, widgetVars
<1>7. Decoded' /\ Stored'
  BY <1>0, <1>1 DEF Decoded, Stored, Picture, Strided, widgetVars
<1>8. Repaint' /\ RectFits'
  BY <1>0, <1>1 DEF Repaint, UpToDate, RectFits, widgetVars
<1> QED  BY <1>5, <1>6, <1>7, <1>8 DEF PictureKept

\* The buffer is kept only for a picture of its size.
LEMMA KeptReceive == PictureKept /\ (\E s \in Shapes : Receive(s)) => PictureKept'
<1> SUFFICES ASSUME PictureKept, NEW s \in Shapes, Receive(s) PROVE PictureKept'  OBVIOUS
<1>0. TypeOK /\ Lent /\ Decoded /\ Stored /\ Repaint /\ RectFits  BY DEF PictureKept
<1> DEFINE f == updateVideoFrameSize(decoded, s)
<1>1. /\ wPc = "receive" /\ wPc' = "onVideoFrame"
      /\ isStarted_' = TRUE /\ cached' = refresh(cached, s)
      /\ decoded.picture < PictureBound
      /\ decoded' = [f EXCEPT !.picture = @ + 1, !.shape = s, !.scaledFrom = cached']
      /\ UNCHANGED <<call, pool, videoFrame_, posted, widgetVars>>
  BY DEF Receive
<1>11. cached' = <<s.w, s.h>>
  <2>1. cached \in Nat \X Nat  BY <1>0 DEF TypeOK
  <2> QED  BY <1>1, <2>1 DEF refresh
<1>2. s.w \in Nat \ {0} /\ s.h \in Nat \ {0} /\ s.w * s.h \in Nat \ {0}  BY ShapeNumbers
<1>3. decoded \in FrameType  BY <1>0 DEF TypeOK
<1> DEFINE n == s.w * s.h
<1>4. /\ f \in FrameType /\ f.picture = decoded.picture
      /\ f.len = n /\ Strided(f, n)
  <2>1. CASE n = decoded.len
    <3>1. f = decoded  BY <2>1 DEF updateVideoFrameSize
    <3>2. decoded.picture > 0
      <4>1. SUFFICES ASSUME decoded.picture = 0 PROVE FALSE  BY <1>3 DEF FrameType
      <4>2. decoded.len = 0  BY <1>0, <4>1 DEF Decoded, NoFrame
      <4> QED  BY <1>2, <2>1, <4>2
    <3>3. Strided(decoded, n)  BY <1>0, <2>1, <3>2 DEF Decoded, Picture
    <3> HIDE DEF f, n
    <3> QED  BY <1>3, <2>1, <3>1, <3>3
  <2>2. CASE n # decoded.len
    <3>1. f = [decoded EXCEPT !.len = n, !.stride = s.w]
      BY <2>2 DEF updateVideoFrameSize
    <3>2. n \in Nat  BY <1>2
    <3> HIDE DEF f
    <3>3. f.stride = s.w  BY <1>3, <3>1 DEF FrameType
    <3>4. Strided(f, n)  BY <3>3 DEF Strided
    <3> HIDE DEF n
    <3> QED  BY <1>2, <1>3, <3>1, <3>2, <3>4 DEF FrameType
  <2> QED  BY <2>1, <2>2
<1> HIDE DEF f
<1>5. /\ decoded' \in FrameType /\ decoded'.picture = decoded.picture + 1
      /\ decoded'.shape = s /\ decoded'.scaledFrom = <<s.w, s.h>>
      /\ decoded'.len = n /\ decoded'.stride = f.stride
  <2>1. decoded.picture + 1 \in 0..PictureBound  BY <1>1, <1>3, VideoConstants DEF FrameType
  <2>2. decoded' = [f EXCEPT !.picture = decoded.picture + 1, !.shape = s, !.scaledFrom = <<s.w, s.h>>]
    <3>1. decoded' = [f EXCEPT !.picture = f.picture + 1, !.shape = s, !.scaledFrom = cached']
      BY <1>1
    <3> QED  BY <1>4, <1>11, <3>1
  <2> HIDE DEF n
  <2> QED  BY <1>2, <1>4, <2>1, <2>2 DEF FrameType
<1>6. Decoded'
  <2>1. decoded'.picture > 0  BY <1>3, <1>5 DEF FrameType
  <2>2. n >= n  BY <1>2
  <2>3. Strided(decoded', n)  BY <1>4, <1>5 DEF Strided
  <2>4. Picture(decoded')  BY <1>5, <2>2, <2>3 DEF Picture
  <2>5. decoded'.picture # 0  BY <1>5, <2>1 DEF FrameType
  <2> QED  BY <1>5, <2>1, <2>4, <2>5 DEF Decoded
<1>7. Stored'  BY <1>0, <1>1 DEF Stored, Picture, Strided, widgetVars
<1>8. Lent'  BY <1>0, <1>1 DEF Lent
<1>9. TypeOK'  BY <1>0, <1>1, <1>2, <1>5, <1>11 DEF TypeOK, widgetVars
<1>10. Repaint' /\ RectFits'
  BY <1>0, <1>1 DEF Repaint, UpToDate, RectFits, widgetVars
<1> QED  BY <1>6, <1>7, <1>8, <1>9, <1>10 DEF PictureKept

\* The widget's buffer may be larger, its stride is the decoder's.
LEMMA KeptStore == PictureKept /\ StoreFrame("onVideoFrame", "post") => PictureKept'
<1> SUFFICES ASSUME PictureKept, StoreFrame("onVideoFrame", "post") PROVE PictureKept'
  OBVIOUS
<1>0. TypeOK /\ Lent /\ Decoded /\ Stored /\ Repaint /\ RectFits  BY DEF PictureKept
<1>1. /\ wPc = "onVideoFrame" /\ wPc' = "post"
      /\ videoFrame_' = CopyFrame(videoFrame_, decoded)
      /\ UNCHANGED <<isStarted_, call, pool, cached, decoded, posted, widgetVars>>
  BY DEF StoreFrame, decoderVars
<1>2. decoded \in FrameType /\ videoFrame_ \in FrameType  BY <1>0 DEF TypeOK
<1>3. decoded.picture > 0 /\ Picture(decoded)  BY <1>0, <1>1 DEF Decoded
<1>4. /\ videoFrame_' \in FrameType
      /\ videoFrame_'.picture = decoded.picture /\ videoFrame_'.shape = decoded.shape
      /\ videoFrame_'.scaledFrom = decoded.scaledFrom
      /\ videoFrame_'.stride = decoded.stride
      /\ videoFrame_'.len >= decoded.len
  BY <1>1, <1>2 DEF CopyFrame, FrameType
<1>5. Picture(videoFrame_')
  <2>1. decoded.shape \in Shapes  BY <1>3 DEF Picture
  <2>2. decoded.shape.w * decoded.shape.h \in Nat  BY <2>1, ShapeNumbers
  <2>3. videoFrame_'.len \in Nat /\ decoded.len \in Nat  BY <1>2, <1>4 DEF FrameType
  <2>4. decoded.len >= decoded.shape.w * decoded.shape.h  BY <1>3 DEF Picture
  <2>5. videoFrame_'.len >= decoded.shape.w * decoded.shape.h
    BY <1>4, <2>2, <2>3, <2>4
  <2> QED  BY <1>3, <1>4, <2>1, <2>5 DEF Picture, Strided
<1>6. Stored'
  <2>1. videoFrame_'.picture > 0 /\ videoFrame_'.picture # 0
    BY <1>2, <1>3, <1>4 DEF FrameType
  <2> QED  BY <1>5, <2>1 DEF Stored
<1>7. Decoded'  BY <1>0, <1>1 DEF Decoded, Picture, Strided
<1>8. Lent'  BY <1>0, <1>1 DEF Lent
<1>9. TypeOK'  BY <1>0, <1>1, <1>4 DEF TypeOK, widgetVars
<1>10. Repaint'  BY <1>1 DEF Repaint
<1>11. RectFits'  BY <1>0, <1>1 DEF RectFits, widgetVars
<1> QED  BY <1>6, <1>7, <1>8, <1>9, <1>10, <1>11 DEF PictureKept

LEMMA KeptPost == PictureKept /\ PostUpdate("post", "receive") => PictureKept'
<1> SUFFICES ASSUME PictureKept, PostUpdate("post", "receive") PROVE PictureKept'
  OBVIOUS
<1>0. TypeOK /\ Lent /\ Decoded /\ Stored /\ Repaint /\ RectFits  BY DEF PictureKept
<1>1. /\ wPc = "post" /\ wPc' = "receive" /\ posted' = posted + 1
      /\ UNCHANGED <<isStarted_, call, pool, cached, decoded, videoFrame_, widgetVars>>
  BY DEF PostUpdate, decoderVars
<1>2. posted' \in Nat /\ posted' > 0  BY <1>0, <1>1 DEF TypeOK
<1>3. TypeOK'  BY <1>0, <1>1, <1>2 DEF TypeOK, widgetVars
<1>4. Lent'  BY <1>0, <1>1 DEF Lent
<1>5. Decoded' /\ Stored'
  BY <1>0, <1>1 DEF Decoded, Stored, Picture, Strided, widgetVars
<1>6. Repaint'  BY <1>2 DEF Repaint
<1>7. RectFits'  BY <1>0, <1>1 DEF RectFits, widgetVars
<1> QED  BY <1>3, <1>4, <1>5, <1>6, <1>7 DEF PictureKept

\* The UI thread leaves the decoder and the picture alone.
LEMMA PaintKeeps ==
  ASSUME PictureKept, UNCHANGED <<workerVars, videoFrame_>>,
         videoFrame_.picture = 0 => screen'.picture = 0,
         TypeOK', Repaint', RectFits'
  PROVE  PictureKept'
<1>0. Lent /\ Decoded /\ Stored  BY DEF PictureKept
<1>1. Lent'  BY <1>0 DEF Lent, workerVars, decoderVars
<1>2. Decoded'  BY <1>0 DEF Decoded, Picture, Strided, workerVars, decoderVars
<1>3. Stored'  BY <1>0 DEF Stored, Picture, Strided
<1> QED  BY <1>1, <1>2, <1>3 DEF PictureKept

\* What makes a repaint due: an update(), a click or a new size.
LEMMA KeptDirty ==
  PictureKept /\ (\/ HandleUpdate
                  \/ \E s \in BOOLEAN : setSelected(s)
                  \/ \E sz \in Sizes : Resize(sz)) => PictureKept'
<1> SUFFICES ASSUME PictureKept,
                    \/ HandleUpdate
                    \/ \E s \in BOOLEAN : setSelected(s)
                    \/ \E sz \in Sizes : Resize(sz)
             PROVE PictureKept'
  OBVIOUS
<1>0. TypeOK /\ Stored  BY DEF PictureKept
<1>1. /\ uiPc = "idle" /\ dirty' = TRUE
      /\ UNCHANGED <<workerVars, videoFrame_, uiPc, rect, screen>>
  BY DEF HandleUpdate, setSelected, Resize
<1>2. posted' \in Nat /\ selected_' \in BOOLEAN /\ size' \in Sizes
  <2>1. CASE HandleUpdate  BY <1>0, <2>1 DEF HandleUpdate, TypeOK
  <2>2. CASE \E s \in BOOLEAN : setSelected(s)  BY <1>0, <2>2 DEF setSelected, TypeOK
  <2>3. CASE \E sz \in Sizes : Resize(sz)  BY <1>0, <2>3 DEF Resize, TypeOK
  <2> QED  BY <2>1, <2>2, <2>3
<1>3. TypeOK'  BY <1>0, <1>1, <1>2 DEF TypeOK, workerVars, decoderVars
<1>4. Repaint' /\ RectFits'  BY <1>1 DEF Repaint, RectFits
<1>5. videoFrame_.picture = 0 => screen'.picture = 0  BY <1>0, <1>1 DEF Stored
<1>6. UNCHANGED <<workerVars, videoFrame_>>  BY <1>1
<1> QED  BY <1>3, <1>4, <1>5, <1>6, PaintKeeps

LEMMA KeptGeometry == PictureKept /\ PaintGeometry => PictureKept'
<1> SUFFICES ASSUME PictureKept, PaintGeometry PROVE PictureKept'  OBVIOUS
<1>0. TypeOK /\ Stored  BY DEF PictureKept
<1>1. /\ uiPc' = "paintGL" /\ dirty' = FALSE
      /\ UNCHANGED <<workerVars, videoFrame_, posted, size, selected_, screen>>
      /\ IF videoFrame_.shape.h = 0 THEN rect' \in {<<0, size[2]>>, <<size[1], 0>>}
                                    ELSE rect' = ItemRect(size, videoFrame_.shape)
  BY DEF PaintGeometry
<1>2. videoFrame_.picture \in Nat /\ size \in Sizes  BY <1>0 DEF TypeOK, FrameType
<1>3. /\ rect' \in Nat \X Nat
      /\ videoFrame_.picture > 0 =>
           /\ rect' = ItemRect(size, videoFrame_.shape)
           /\ rect'[1] <= size[1] /\ rect'[2] <= size[2]
           /\ rect'[1] = size[1] \/ rect'[2] = size[2]
  <2>1. CASE videoFrame_.picture = 0
    <3>1. videoFrame_.shape.h = 0  BY <1>0, <2>1 DEF Stored, NoFrame, NoShape
    <3>2. size[1] \in Nat /\ size[2] \in Nat  BY <1>2, VideoConstants
    <3> QED  BY <1>1, <2>1, <3>1, <3>2
  <2>2. CASE videoFrame_.picture > 0
    <3>1. videoFrame_.shape \in Shapes  BY <1>0, <2>2 DEF Stored, Picture
    <3>2. rect' = ItemRect(size, videoFrame_.shape)  BY <1>1, <3>1, ShapeNumbers
    <3> QED  BY <1>2, <3>1, <3>2, RectInside
  <2> QED  BY <1>2, <2>1, <2>2
<1>4. TypeOK'  BY <1>0, <1>1, <1>3 DEF TypeOK, workerVars, decoderVars
<1>5. Repaint'  BY <1>1, <1>3 DEF Repaint
<1>6. RectFits'
  <2>1. SUFFICES ASSUME screen.picture > 0
                 PROVE  /\ rect'[1] <= size[1] /\ rect'[2] <= size[2]
                        /\ rect'[1] + 1 >= size[1] \/ rect'[2] + 1 >= size[2]
    BY <1>1 DEF RectFits
  <2>2. screen.picture # 0  BY <1>0, <2>1 DEF TypeOK
  <2>3. videoFrame_.picture > 0  BY <1>0, <1>2, <2>2 DEF Stored
  <2>4. rect'[1] \in Nat /\ rect'[2] \in Nat  BY <1>3
  <2> QED  BY <1>3, <2>3, <2>4
<1>7. videoFrame_.picture = 0 => screen'.picture = 0  BY <1>0, <1>1 DEF Stored
<1>8. UNCHANGED <<workerVars, videoFrame_>>  BY <1>1
<1> QED  BY <1>4, <1>5, <1>6, <1>7, <1>8, PaintKeeps

\* A paint that ends shows what it went by.
LEMMA KeptTextures == PictureKept /\ PaintTextures => PictureKept'
<1> SUFFICES ASSUME PictureKept, PaintTextures PROVE PictureKept'  OBVIOUS
<1>0. TypeOK /\ Stored /\ Repaint  BY DEF PictureKept
<1>1. /\ uiPc = "paintGL" /\ uiPc' = "idle"
      /\ screen' = [picture |-> updateTexture, rect |-> rect, selected |-> selected_]
      /\ UNCHANGED <<workerVars, videoFrame_, posted, dirty, rect, size, selected_>>
  BY DEF PaintTextures
<1>2. videoFrame_ \in FrameType  BY <1>0 DEF TypeOK
<1>3. updateTexture = videoFrame_.picture
  <2>1. CASE videoFrame_.picture = 0  BY <1>0, <2>1 DEF updateTexture, Stored
  <2>2. CASE videoFrame_.picture > 0
    <3>1. Picture(videoFrame_)  BY <1>0, <2>2 DEF Stored
    <3>2. videoFrame_.shape.w * videoFrame_.shape.h \in Nat \ {0}
      BY <3>1, ShapeNumbers DEF Picture
    <3>3. videoFrame_.len # 0  BY <1>2, <3>1, <3>2 DEF Picture, FrameType
    <3> QED  BY <3>3 DEF updateTexture
  <2> QED  BY <1>2, <2>1, <2>2 DEF FrameType
<1>4. screen' = [picture |-> videoFrame_.picture, rect |-> rect, selected |-> selected_]
  BY <1>1, <1>3
<1>5. TypeOK'
  <2>1. screen' \in [picture : 0..PictureBound, rect : Nat \X Nat, selected : BOOLEAN]
    BY <1>0, <1>2, <1>4 DEF TypeOK, FrameType
  <2> QED  BY <1>0, <1>1, <2>1 DEF TypeOK, workerVars, decoderVars
<1>6. Repaint'
  <2>1. CASE dirty \/ posted > 0 \/ wPc = "post"
    BY <1>1, <2>1 DEF Repaint, workerVars, decoderVars
  <2>2. CASE videoFrame_.picture > 0 => rect = ItemRect(size, videoFrame_.shape)
    BY <1>1, <1>4, <2>2 DEF Repaint, UpToDate
  <2> QED  BY <1>0, <1>1, <2>1, <2>2 DEF Repaint
<1>7. RectFits'  BY <1>1 DEF RectFits
<1>8. videoFrame_.picture = 0 => screen'.picture = 0  BY <1>4
<1>9. UNCHANGED <<workerVars, videoFrame_>>  BY <1>1
<1> QED  BY <1>5, <1>6, <1>7, <1>8, <1>9, PaintKeeps

LEMMA KeptNext == PictureKept /\ [Next]_vars => PictureKept'
<1> SUFFICES ASSUME PictureKept, [Next]_vars PROVE PictureKept'  OBVIOUS
<1>1. CASE \E k \in Kinds : Decode(k)  BY <1>1, KeptDecode
<1>2. CASE \E s \in Shapes : Receive(s)  BY <1>2, KeptReceive
<1>3. CASE OnVideoFrame  BY <1>3, KeptStore, KeptPost DEF OnVideoFrame
<1>4. CASE DecodeEnd  BY <1>4, KeptDecodeEnd
<1>5. CASE HandleUpdate \/ (\E s \in BOOLEAN : setSelected(s)) \/ (\E sz \in Sizes : Resize(sz))
  BY <1>5, KeptDirty
<1>6. CASE PaintGeometry  BY <1>6, KeptGeometry
<1>7. CASE PaintTextures  BY <1>7, KeptTextures
<1>8. CASE UNCHANGED vars
  <2>1. UNCHANGED <<isStarted_, call, pool, cached, decoded, wPc, videoFrame_, posted,
                    dirty, uiPc, rect, size, selected_, screen>>
    BY <1>8 DEF vars, workerVars, decoderVars, widgetVars
  <2> QED
    BY <2>1 DEF PictureKept, TypeOK, Lent, Decoded, Stored, Picture, Strided, Repaint,
                UpToDate, RectFits
<1> QED
  BY <1>1, <1>2, <1>3, <1>4, <1>5, <1>6, <1>7, <1>8 DEF Next, Worker, Paint

LEMMA KeptAlways == Spec => []PictureKept
BY KeptInit, KeptNext, PTL DEF Spec

(***************************************************************************)
(* The theorems.                                                           *)
(***************************************************************************)

\* Whatever decode() meets, one AVFrame and one AVPacket serve the decoder and
\* go back to their pools; and once there are pictures, the rectangle drawn is
\* inside the widget and reaches across it (FFmpegPool.hpp:55-78,
\* videoWidget.cpp:252-257, here in exact arithmetic).
THEOREM PicturesCorrect == Spec => []PictureInv
<1>1. PictureKept => PictureInv
  <2> SUFFICES ASSUME PictureKept PROVE PictureInv  OBVIOUS
  <2>0. TypeOK /\ Lent /\ RectFits  BY DEF PictureKept
  <2>1. PoolsBalanced
    <3>1. ASSUME NEW o \in DOMAIN pool
          PROVE  pool[o].made <= 1 /\ (wPc = "idle" => pool[o].in = pool[o].made)
      <4>1. CASE wPc = "idle"  BY <2>0, <4>1 DEF Lent
      <4>2. CASE wPc # "idle"
        <5>1. pool[o].made = 1  BY <2>0, <4>2 DEF Lent
        <5> QED  BY <4>2, <5>1
      <4> QED  BY <4>1, <4>2
    <3> QED  BY <3>1 DEF PoolsBalanced
  <2> QED  BY <2>0, <2>1 DEF PictureInv
<1> QED  BY <1>1, KeptAlways, PTL

\* A picture in a buffer of its own stride fits it; one in a buffer of another
\* stride has that of a shape of as many bytes.
LEMMA PictureFits ==
  ASSUME NEW f \in FrameType, Picture(f)
  PROVE  RowsFit(f) \/ StrideStale(f)
<1> DEFINE w == f.shape.w
           h == f.shape.h
<1>1. /\ f.shape \in Shapes /\ f.len \in Nat /\ f.len >= w * h
      /\ w \in Nat \ {0} /\ h \in Nat \ {0}
  BY ShapeNumbers DEF Picture, FrameType
<1>2. PICK s \in Shapes : s.w = f.stride /\ s.w * s.h = w * h
  BY DEF Picture, Strided
<1>3. CASE f.stride = w
  <2>1. w * (h - 1) + w = w * h /\ w * h \in Nat  BY <1>1
  <2>2. f.stride * (h - 1) + w <= f.len  BY <1>1, <1>3, <2>1
  <2> QED  BY <1>1, <1>3, <2>2 DEF RowsFit
<1>4. CASE f.stride # w  BY <1>2, <1>4 DEF StrideStale
<1> QED  BY <1>3, <1>4

\* A picture was scaled from its own size, and its rows fit its buffer unless
\* the stride is still that of another shape of as many bytes: the one case in
\* which they may not (videoDecoder.cpp:17-35, 109-152).
THEOREM PicturesWhole == Spec => []FrameWhole
<1>1. PictureKept => FrameWhole
  <2> SUFFICES ASSUME PictureKept, NEW f \in Pictures
               PROVE  f.scaledFrom = <<f.shape.w, f.shape.h>> /\ (RowsFit(f) \/ StrideStale(f))
    BY DEF FrameWhole
  <2>1. TypeOK /\ Decoded /\ Stored  BY DEF PictureKept
  <2>2. f \in FrameType /\ f.picture > 0  BY <2>1 DEF TypeOK, Pictures
  <2>3. Picture(f)  BY <2>1, <2>2 DEF Pictures, Decoded, Stored
  <2> QED  BY <2>2, <2>3, PictureFits DEF Picture
<1> QED  BY <1>1, KeptAlways, PTL

\* A stream without two shapes of as many bytes never meets that case: all its
\* pictures fit their buffers.
THEOREM PicturesFit ==
  ASSUME \A s, t \in Shapes : s.w * s.h = t.w * t.h => s.w = t.w
  PROVE  Spec => []RowsAlwaysFit
<1>1. PictureKept => RowsAlwaysFit
  <2> SUFFICES ASSUME PictureKept, NEW f \in Pictures PROVE RowsFit(f)
    BY DEF RowsAlwaysFit
  <2>1. TypeOK /\ Decoded /\ Stored  BY DEF PictureKept
  <2>2. f \in FrameType /\ f.picture > 0  BY <2>1 DEF TypeOK, Pictures
  <2>3. Picture(f)  BY <2>1, <2>2 DEF Pictures, Decoded, Stored
  <2>4. ~StrideStale(f)  BY <2>3 DEF StrideStale, Picture
  <2> QED  BY <2>2, <2>3, <2>4, PictureFits
<1> QED  BY <1>1, KeptAlways, PTL

\* As long as the screen is not as it should be, a paint is due or under way
\* (videoWidget.cpp:51-60, 133-145).
THEOREM RepaintDue == Spec => []RepaintComing
<1>1. PictureKept => RepaintComing  BY DEF PictureKept, Repaint, RepaintComing
<1> QED  BY <1>1, KeptAlways, PTL

\* For payloads of any length, made as encoders make them: until a picture has
\* come out, exactly those with an IDR slice are sent to the codec
\* (videoDecoder.cpp:37-59, 94-96).
THEOREM StartsDecodable == Spec => []StartsAtIDR
<1>1. Init => StartsAtIDR  BY DEF Init, StartsAtIDR
<1>2. StartsAtIDR /\ [Next]_vars => StartsAtIDR'
  <2> SUFFICES ASSUME StartsAtIDR, [Next]_vars PROVE StartsAtIDR'  OBVIOUS
  <2>1. ASSUME NEW k \in Kinds, Decode(k) PROVE StartsAtIDR'
    <3>1. k.idr \in BOOLEAN /\ k.found \in BOOLEAN /\ (k.found <=> k.idr)  BY KindsAgree
    <3>2. call' = [started |-> isStarted_, idr |-> k.idr, sent |-> isStarted_ \/ k.found]
      BY <2>1 DEF Decode
    <3>3. call'.started = isStarted_ /\ call'.idr = k.idr /\ call'.sent = (isStarted_ \/ k.found)
      BY <3>2
    <3> QED  BY <3>1, <3>3 DEF StartsAtIDR
  <2>2. CASE UNCHANGED call  BY <2>2 DEF StartsAtIDR
  <2>3. Next => (\E k \in Kinds : Decode(k)) \/ UNCHANGED call
    BY DEF Next, Worker, Receive, OnVideoFrame, StoreFrame, PostUpdate, DecodeEnd, Paint,
           HandleUpdate, PaintGeometry, PaintTextures, setSelected, Resize, decoderVars,
           workerVars
  <2>4. UNCHANGED vars => UNCHANGED call  BY DEF vars, workerVars, decoderVars
  <2> QED  BY <2>1, <2>2, <2>3, <2>4
<1> QED  BY <1>1, <1>2, PTL DEF Spec

=============================================================================
