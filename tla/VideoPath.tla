------------------------------ MODULE VideoPath ------------------------------
(***************************************************************************)
(* One stream's way from a received payload to the screen: VideoDecoder    *)
(* with its FFmpegPools on a worker, the copy into VideoWidget under its   *)
(* mutex, and the paint on the UI thread, which takes the mutex twice.     *)
(*                                                                         *)
(* A picture is its number, its shape and the layout of its buffer.  The   *)
(* three planes are laid out alike (shapes are even) and are one.  FFmpeg, *)
(* Qt and OpenGL are external: avcodec takes or refuses a packet and gives *)
(* any number of pictures for it, a scaler can be made for what it gives,  *)
(* and Qt paints a visible widget some time after update().                *)
(***************************************************************************)
EXTENDS Naturals, Sequences

CONSTANTS
    Bytes, PayloadLength,  \* payloads: strings of Bytes, bounded in length
    Shapes,                \* pictures avcodec gives: w, h, sar = <<num, den>>
    Sizes,                 \* sizes of the widget: <<width, height>>
    PictureBound           \* bound: pictures

ASSUME VideoConstants ==
    /\ Bytes \subseteq 0..255
    /\ PayloadLength \in Nat /\ PictureBound \in Nat
    /\ Shapes \subseteq [w : Nat \ {0}, h : Nat \ {0}, sar : Nat \X (Nat \ {0})]
    /\ Sizes \subseteq (Nat \X Nat)

VARIABLES
    isStarted_,   \* a picture has come out of the codec
    call,         \* history: the last decode(): started, idr, sent
    pool,         \* the pools of AVFrames and AVPackets: objects in, objects made
    wPc,          \* the worker: "idle", "receive", "onVideoFrame" or "post"
    cached,       \* the size swsContext_ was made for
    decoded,      \* VideoDecoder::videoFrame_
    videoFrame_,  \* VideoWidget::videoFrame_
    posted,       \* invocations of update() in the UI thread's event queue
    dirty,        \* update() was called since the last paint began
    uiPc,         \* the UI thread: "idle" or in paintGL, after updateMVP()
    rect,         \* the rectangle of the last updateMVP()
    size,         \* the size of the widget
    selected_,
    screen        \* what the last paint left: picture, rect, selected

decoderVars == <<isStarted_, call, pool, cached, decoded>>
workerVars  == <<decoderVars, wPc>>
widgetVars  == <<dirty, uiPc, rect, size, selected_, screen>>
vars == <<workerVars, videoFrame_, posted, widgetVars>>

NoShape == [w |-> 0, h |-> 0, sar |-> <<0, 1>>]
NoFrame == [picture |-> 0, shape |-> NoShape, scaledFrom |-> <<0, 0>>, len |-> 0, stride |-> 0]

Init ==
    /\ isStarted_ = FALSE
    /\ call = [started |-> FALSE, idr |-> FALSE, sent |-> FALSE]
    /\ pool = [o \in {"frame", "packet"} |-> [in |-> 0, made |-> 0]]
    /\ wPc = "idle"
    /\ cached = <<0, 0>>
    /\ decoded = NoFrame
    /\ videoFrame_ = NoFrame
    /\ posted = 0
    /\ dirty = TRUE
    /\ uiPc = "idle"
    /\ rect = <<0, 0>>
    /\ size \in Sizes
    /\ selected_ = FALSE
    /\ screen = [picture |-> 0, rect |-> <<0, 0>>, selected |-> FALSE]

----
(* containsIDR: bytes are numbered from 1.                                 *)

Payloads == UNION {[1..n -> Bytes] : n \in 1..PayloadLength}

At(d, i, s) == i + Len(s) - 1 <= Len(d) /\ SubSeq(d, i, i + Len(s) - 1) = s

\* Bug: only the start code of four bytes is known.
ContainsIDRBug(d) ==
    \E i \in DOMAIN d : At(d, i, <<0, 0, 0, 1>>) /\ i + 4 <= Len(d) /\ d[i + 4] % 32 = 5

\* The loop, from byte i on.
containsIDR(d) ==
    LET from[i \in 1..(Len(d) + 2)] ==
          LET hdr == IF At(d, i, <<0, 0, 1>>) THEN 3
                     ELSE IF At(d, i, <<0, 0, 0, 1>>) THEN 4 ELSE 0
              nal == i + hdr
          IN  /\ i + 2 <= Len(d)
              /\ IF hdr = 0 THEN from[i + 1]
                 ELSE nal <= Len(d) /\ (d[nal] % 32 = 5 \/ from[nal + 1])
    IN from[1]

\* What it is for: some NAL unit of the payload is an IDR slice.
NALHeaders(d) == {i \in DOMAIN d : i > 3 /\ At(d, i - 3, <<0, 0, 1>>)}
HasIDR(d) == \E i \in NALHeaders(d) : d[i] % 32 = 5

\* What an encoder emits: no NAL header is zero.
Emitted == {d \in Payloads : \A i \in NALHeaders(d) : d[i] # 0}

\* A payload matters by what it holds and what the loop finds in it.
Kinds == {[idr |-> HasIDR(d), found |-> containsIDR(d)] : d \in Emitted}

----
(* FFmpegPool.                                                             *)

Get(p, o) == IF p[o].in > 0 THEN [p EXCEPT ![o].in = @ - 1]
                            ELSE [p EXCEPT ![o].made = @ + 1]
Put(p, o) == [p EXCEPT ![o].in = @ + 1]

----
(* The worker.                                                             *)

\* decode() up to avcodec_send_packet.
Decode(k) ==
    /\ wPc = "idle"
    /\ LET sent == isStarted_ \/ k.found
       IN  /\ call' = [started |-> isStarted_, idr |-> k.idr, sent |-> sent]
           /\ IF sent
                THEN \/ /\ pool' = Put(Get(pool, "packet"), "packet")
                        /\ UNCHANGED wPc
                     \/ /\ pool' = Get(Get(pool, "packet"), "frame")
                        /\ wPc' = "receive"
                ELSE UNCHANGED <<pool, wPc>>
    /\ UNCHANGED <<isStarted_, cached, decoded, videoFrame_, posted, widgetVars>>

\* The scaler is made anew when the size of the picture has changed.
refresh(c, s) == IF s.w # c[1] \/ s.h # c[2] THEN <<s.w, s.h>> ELSE c

\* Bug: a buffer with rows of the right length is kept.
UpdateVideoFrameSizeBug(f, s) ==
    IF s.w = f.stride THEN f ELSE [f EXCEPT !.len = s.w * s.h, !.stride = s.w]

\* A buffer of the right size is kept, and its stride with it.
updateVideoFrameSize(f, s) ==
    IF s.w * s.h = f.len THEN f ELSE [f EXCEPT !.len = s.w * s.h, !.stride = s.w]

\* One avcodec_receive_frame() that gives a picture: refresh() and sws_scale().
Receive(s) ==
    /\ wPc = "receive"
    /\ decoded.picture < PictureBound
    /\ isStarted_' = TRUE
    /\ cached' = refresh(cached, s)
    /\ decoded' = [updateVideoFrameSize(decoded, s) EXCEPT
                     !.picture = @ + 1, !.shape = s, !.scaledFrom = cached']
    /\ wPc' = "onVideoFrame"
    /\ UNCHANGED <<call, pool, videoFrame_, posted, widgetVars>>

\* VideoFrame::operator=: the target's buffer only grows.
CopyFrame(to, from) == [from EXCEPT !.len = IF to.len < from.len THEN from.len ELSE to.len]

StoreFrame(here, next) ==
    /\ wPc = here
    /\ videoFrame_' = CopyFrame(videoFrame_, decoded)
    /\ wPc' = next
    /\ UNCHANGED <<decoderVars, posted, widgetVars>>

PostUpdate(here, next) ==
    /\ wPc = here
    /\ posted' = posted + 1
    /\ wPc' = next
    /\ UNCHANGED <<decoderVars, videoFrame_, widgetVars>>

\* Bug: update() is posted before the picture is there.
OnVideoFrameBug == PostUpdate("onVideoFrame", "post") \/ StoreFrame("post", "receive")

OnVideoFrame == StoreFrame("onVideoFrame", "post") \/ PostUpdate("post", "receive")

\* The codec has nothing more; decode() returns.
DecodeEnd ==
    /\ wPc = "receive"
    /\ pool' = Put(Put(pool, "frame"), "packet")
    /\ wPc' = "idle"
    /\ UNCHANGED <<isStarted_, call, cached, decoded, videoFrame_, posted, widgetVars>>

----
(* The UI thread.                                                          *)

Round(x, y) == (2 * x + y) \div (2 * y)
Even(n) == (n \div 2) * 2

\* A sample aspect ratio of 0 is unknown.
AspectRatio(s) == IF s.sar[1] = 0 THEN <<s.w, s.h>> ELSE <<s.w * s.sar[1], s.h * s.sar[2]>>

HighOrWide(sz, w, h) == IF w <= sz[1] THEN <<w, sz[2]>> ELSE <<sz[1], h>>

\* Bug: multiplied by the ratio where it should be divided.
ItemRectBug(sz, s) ==
    LET a == AspectRatio(s)
    IN HighOrWide(sz, Even(Round(sz[2] * a[1], a[2])), Even(Round(sz[1] * a[1], a[2])))

\* updateItemRect(): as high as the widget or, if that is too wide, as wide.
ItemRect(sz, s) ==
    LET a == AspectRatio(s)
    IN HighOrWide(sz, Even(Round(sz[2] * a[1], a[2])), Even(Round(sz[1] * a[2], a[1])))

\* A posted update(); events are handled between paints.
HandleUpdate ==
    /\ uiPc = "idle"
    /\ posted > 0
    /\ posted' = posted - 1
    /\ dirty' = TRUE
    /\ UNCHANGED <<workerVars, videoFrame_, uiPc, rect, size, selected_, screen>>

\* paintGL up to updateMVP().  Before the first picture the proportions are
\* 0/0 and their conversion to an integer is undefined: the rectangle, of which
\* nothing is drawn then, is as high or as wide as the widget.
PaintGeometry ==
    /\ uiPc = "idle"
    /\ dirty
    /\ dirty' = FALSE
    /\ IF videoFrame_.shape.h = 0 THEN rect' \in {<<0, size[2]>>, <<size[1], 0>>}
                                  ELSE rect' = ItemRect(size, videoFrame_.shape)
    /\ uiPc' = "paintGL"
    /\ UNCHANGED <<workerVars, videoFrame_, posted, size, selected_, screen>>

\* What the textures hold after the upload, if there are data.
updateTexture == IF videoFrame_.len = 0 THEN screen.picture ELSE videoFrame_.picture

\* The rest of paintGL: textures and border.
PaintTextures ==
    /\ uiPc = "paintGL"
    /\ screen' = [picture |-> updateTexture, rect |-> rect, selected |-> selected_]
    /\ uiPc' = "idle"
    /\ UNCHANGED <<workerVars, videoFrame_, posted, dirty, rect, size, selected_>>

setSelected(s) ==
    /\ uiPc = "idle"
    /\ s # selected_
    /\ selected_' = s
    /\ dirty' = TRUE
    /\ UNCHANGED <<workerVars, videoFrame_, posted, uiPc, rect, size, screen>>

\* External: Qt paints a widget again that was resized.
Resize(sz) ==
    /\ uiPc = "idle"
    /\ sz # size
    /\ size' = sz
    /\ dirty' = TRUE
    /\ UNCHANGED <<workerVars, videoFrame_, posted, uiPc, rect, selected_, screen>>

----

Worker == (\E s \in Shapes : Receive(s)) \/ OnVideoFrame \/ DecodeEnd
Paint  == HandleUpdate \/ PaintGeometry \/ PaintTextures

Next ==
    \/ \E k \in Kinds : Decode(k)
    \/ Worker
    \/ Paint
    \/ \E s \in BOOLEAN : setSelected(s)
    \/ \E sz \in Sizes : Resize(sz)

Spec == Init /\ [][Next]_vars

\* A decode() ends and the UI thread handles its events.
FairSpec == Spec /\ WF_vars(Worker) /\ WF_vars(Paint)

----
(* Properties.                                                             *)

FrameType == [picture : 0..PictureBound, shape : Shapes \union {NoShape},
              scaledFrom : Nat \X Nat, len : Nat, stride : Nat]

\* Every variable has its type.
TypeOK ==
    /\ isStarted_ \in BOOLEAN
    /\ call \in [started : BOOLEAN, idr : BOOLEAN, sent : BOOLEAN]
    /\ pool \in [{"frame", "packet"} -> [in : Nat, made : Nat]]
    /\ wPc \in {"idle", "receive", "onVideoFrame", "post"}
    /\ cached \in Nat \X Nat
    /\ decoded \in FrameType /\ videoFrame_ \in FrameType
    /\ posted \in Nat
    /\ dirty \in BOOLEAN /\ selected_ \in BOOLEAN
    /\ uiPc \in {"idle", "paintGL"}
    /\ rect \in Nat \X Nat /\ size \in Sizes
    /\ screen \in [picture : 0..PictureBound, rect : Nat \X Nat, selected : BOOLEAN]

\* Until a picture has come out, exactly the payloads with an IDR slice are
\* sent to the codec (videoDecoder.cpp:93: the first frame must be decodable).
StartsAtIDR == ~call.started => (call.sent <=> call.idr)

\* Whatever decode() meets, its AVFrame and its AVPacket go back, and one of
\* each serves the decoder for its life (FFmpegPool.hpp:55-78).
PoolsBalanced ==
    \A o \in DOMAIN pool :
      /\ pool[o].made <= 1
      /\ wPc = "idle" => pool[o].in = pool[o].made

\* The picture can be written to its buffer, and read from it, row by row at
\* the buffer's stride: the rows do not overlap and the last one ends inside.
RowsFit(f) ==
    /\ f.stride >= f.shape.w
    /\ f.stride * (f.shape.h - 1) + f.shape.w <= f.len

\* The stride is that of an earlier picture of as many bytes.
StrideStale(f) ==
    \E s \in Shapes : /\ s.w = f.stride /\ s.w # f.shape.w
                     /\ s.w * s.h = f.shape.w * f.shape.h

Pictures == {f \in {decoded, videoFrame_} : f.picture > 0}

\* A picture, in the decoder and in the widget, was scaled from its own size
\* and its rows fit its buffer, with one exception: line 24 keeps a buffer of
\* the right number of bytes with its old stride, so that after a change to
\* another shape of as many bytes the rows may overlap or pass the end of the
\* buffer.  A stream without two such shapes never meets it.
FrameWhole ==
    \A f \in Pictures :
      /\ f.scaledFrom = <<f.shape.w, f.shape.h>>
      /\ RowsFit(f) \/ StrideStale(f)

\* Every picture can be put on the screen, also after a change of resolution:
\* its rows fit its buffer.  The code breaks this where line 24 keeps a stride.
RowsAlwaysFit == \A f \in Pictures : RowsFit(f)

\* The screen shows the widget as it is: its picture in its own proportions.
UpToDate ==
    /\ screen.picture = videoFrame_.picture
    /\ screen.picture > 0 => screen.rect = ItemRect(size, videoFrame_.shape)
    /\ screen.selected = selected_

\* A paint that took the geometry of one picture and the pixels of the next,
\* or missed a change, is followed by another: no picture is stored, and
\* nothing is clicked, without an update() that comes after it (lines 51-60
\* against 133-145).
RepaintComing ==
    \/ UpToDate
    \/ dirty \/ posted > 0 \/ wPc = "post"
    \/ uiPc = "paintGL" /\ (videoFrame_.picture > 0 => rect = ItemRect(size, videoFrame_.shape))

\* Before the picture changes again, it is on the screen as it should be.
PictureShown ==
    \A n \in 1..PictureBound :
      videoFrame_.picture = n ~> (screen.picture = n /\ UpToDate) \/ videoFrame_.picture > n

\* Once there are pictures, the rectangle is inside the widget and reaches
\* across it one way, but for the pixel that makes a number even.
RectFits ==
    uiPc = "paintGL" /\ screen.picture > 0 =>
      /\ rect[1] <= size[1] /\ rect[2] <= size[2]
      /\ rect[1] + 1 >= size[1] \/ rect[2] + 1 >= size[2]

\* Types, the pools' balance, and the geometry.
PictureInv == TypeOK /\ PoolsBalanced /\ RectFits

=============================================================================
