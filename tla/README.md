# Verification of DreamRawStream

TLA+ modules, TLC configurations and TLAPS proofs about DreamRawStream: a server that captures
camera and microphone, encodes and broadcasts over TCP, and a client that receives up to nine such
streams, decodes and shows them. Paths below are those of the repository; line numbers are those
of the commit modelled.

## 1. The system

### Components, their state and operations

| Component | Source | State | Operations |
|---|---|---|---|
| MemoryPool, PooledBuffer | `common/memoryPool.hpp` | free blocks filed by size; the block and size a buffer owns | allocate, deallocate, move construction and assignment, destructors |
| ConcurrentQueue | `common/concurrentQueue.hpp` | deque, capacity, `closed_`, two condition variables | push, pop, their try and timed forms, peek, visit_front, close, reopen |
| DreamThread, DataHandler | `common/dreamThread.hpp`, `dataHandler.hpp` | a jthread; the next handler | start, exit, wait; setNextHandler, handle |
| FFmpegPool | `common/FFmpegPool.hpp` | packets or frames not in use | get, put, clear |
| Parsers | `common/h264NaluParser.hpp`, `aacAdtsParser.hpp` | none | pure functions that no file includes |
| Camera | `streamServer/src/camera/camera.cpp` | V4L2 buffers, mappings, copy buffer | open, init, startCapture, getBuffer, stopCapture, uninit, close |
| Audio, encoders | `streamServer/src/camera/audio.cpp`, `h264Encoder.cpp`, `fdkAACEncoder.cpp` | handles of ALSA, x264, fdk-aac | getBuffer, encode |
| Capturers, StreamServer, server main | `streamServer/src/camera/*Capturer.cpp`, `server/streamServer.cpp`, `main.cpp` | two frame queues, three threads, a signal watcher | run, handle, getFrame, startServer, stopServer |
| StreamClient | `streamClient/src/client/streamClient.cpp` | a connection, a pool | connect, onMessage, disconnect |
| DecodeScheduler | `streamClient/src/client/decodeScheduler.cpp` | a queue per stream, tokens, held streams, workers, decoders, sinks | handle, workerLoop, setAudioStreamID, stop |
| Decoders | `streamClient/src/decoder/*.cpp` | codec contexts, scaler or resampler, one output frame | decode, refresh |
| VideoWidget | `streamClient/src/widget/videoWidget.cpp` | the latest frame, selected or not | onVideoFrame, setSelected, paintGL |
| AudioBufferDevice | `streamClient/src/audio/audioBufferDevice.cpp` | bytes to play, the frame being written | onAudioFrame, readData |
| ClientWindow, client main | `streamClient/src/widget/clientWindow.cpp`, `main.cpp` | the selected cell, a client per cell | eventFilter, onInputEditFinished |
| DreamNet | absent submodule | event loop, connections, buffers | external |

### How they interact

Server: each capturer's thread takes data from its device, encodes it, copies it to a buffer of
its own pool and calls `handle()` of StreamServer, which *blocks* while the queue of that type is
full. The thread "stream-push" polls both queues, takes the older front and broadcasts it. A
watcher thread turns SIGINT into `stopServer()`: stop and join the capturers with the queues closed,
then join the push thread, drain the queues, quit the event loop. The main thread then destroys
everything, queues before capturers and their pools.

Client: the network thread cuts the byte stream into frames and calls `handle()` of the scheduler,
which *drops* a frame when the stream's queue is full, and else gives the stream a token unless it
has one. Workers take tokens, decode one frame and put the token back if more are queued. A decoded
picture is copied into its VideoWidget under the widget's mutex, and an `update()` is posted to the UI
thread; decoded sound of the selected stream is appended to the AudioBufferDevice, which the audio
sink empties. The main thread selects the stream whose audio is played, stops the scheduler when the
user leaves, and destroys window, clients, scheduler and at last the network thread.

### What is hard

- Two locks, no common order of events: the frame is queued under the queue's lock and announced
  under `mtx_`, and the worker's test of `empty()` and `handle()`'s test of `inFlight_` depend on
  each other.
- Condition variables with `notify_one`, time-outs and spurious wakeups.
- Checks whose answer is used after the lock is released: `getFrame()`, `isSelected`.
- Stopping while any thread may be blocked anywhere, including in a queue that is being closed.
- Buffers that belong to a pool and travel through queues owned by somebody else.
- Devices, of which every call may fail half way.
- Buffers that are reused for the next frame, of which only some fields are set again.
- A picture that is replaced between the two moments at which a paint looks at it.
- One condition variable for a reader and several writers, and `notify_one`.

The full list, each at its line and with the properties that cover it, is `hazards` in
`PROJECT.json`. What makes each component correct:

- scheduler: one worker per stream, arrival order, no frame left behind, no worker asleep beside a
  token, `stop()` returns;
- queue: atomic, first-in first-out, bounded, no notification lost, `close()` releases everybody but
  lets readers finish;
- server: no gap and no reordering per type, the oldest frame first, the push thread never blocked,
  every buffer back in time, the process ends after a signal;
- pool: one owner per block, room for what was asked, bounded memory;
- connection: the frames that were sent, once and in order, without delay;
- camera: no buffer lost without a failure, no torn frame, no mapping left, the thread can be joined;
- microphone: every sample in a frame unless a read was short or a period does not fit, nothing in a
  frame that was not read, and a stop is obeyed;
- picture: decoding starts where it can, a picture's rows fit its buffer, and the last one is on
  the screen in its proportions;
- sound: nothing cut short, little lost, nobody asleep while there is something to do;
- exit: every thread ends, and no thread holds a buffer of a pool that is gone.

## 2. Modules

| Module | Models | Variables and actions against the code |
|---|---|---|
| `DecodeScheduler` | `decodeScheduler.cpp` | fields by their names; `pc`, `held`, `frame` are the locals of `workerLoop()`; one action between two lock operations: `Receive` and `Announce` are the two halves of `handle()`, `LoopTest`...`Finish` the sections of `workerLoop()`, `StopBegin`, `CloseQueue`, `StopNotify`, `Join` those of `stop()` |
| `OrderedStreams` | what the scheduler promises | bounded mailboxes, each served by at most one decoder, in order |
| `ConcurrentQueue` | `concurrentQueue.hpp` | a step is what a call does between taking the mutex and returning or waiting |
| `BoundedQueue` | what the queue promises | an atomic bounded queue that can be closed |
| `StreamServer` | `streamServer.cpp`, the capturers' `run()`, server `main.cpp` | `pc` of five threads; `getFrame()` is one step per queue operation, labelled with its line |
| `MemoryPool` | `memoryPool.hpp` | `freeBlocks_` is the multimap, in order of insertion per size; `room` is what malloc was asked for |
| `StreamClient` | `streamClient.cpp`, `onInputEditFinished()` | the stream as offsets; one step per iteration of `onMessage()` |
| `ClientLifecycle` | client `main.cpp`, `~ClientWindow`, `stop()`, one stream of the scheduler | extends `StreamClient`, whose actions it takes as they are; `home` are the frames whose buffer is back in the client's pool; `exitPc` is the main thread after `exec()` |
| `VideoPath` | `videoDecoder.cpp`, `FFmpegPool.hpp`, `VideoFrame`, `videoWidget.cpp` | `decoded` and `videoFrame_` are the two `videoFrame_` members; `Decode`, `Receive`, `OnVideoFrame`, `DecodeEnd` are the worker, `HandleUpdate`, `PaintGeometry`, `PaintTextures` the UI thread; `containsIDR` and `ItemRect` are operators |
| `AudioPath` | `audioDecoder.cpp`, `AudioFrame`, `audioBufferDevice.cpp` | `decoded` and `audioFrame_` by their names, `pc` says who waits on `cv_`; `OnAudioFrame` and `Resume` are `onAudioFrame()` before and after a wait, `Read` is `readData()` |
| `Camera` | `camera.cpp`, `CameraCapturer::run` | the driver's queued and filled buffers against `buffers_` and the mappings |
| `Microphone` | `audio.cpp`, `fdkAACEncoder.cpp`, `AudioCapturer::run` | samples are counted: read, passed on as bytes (`data`), kept by the encoder, handed on in frames |

`MC*.tla` hold the symmetry sets and constants of the TLC instances, `*_proofs.tla` the proofs
(`ClientLifecycle_proofs` those of `StreamClient` too, `Capture_proofs` those of `Camera` and `Microphone`, whose
common names begin with `Mic` in `Microphone` for that reason).
Operators whose name ends in `Bug` are variants of an action with one plausible error. No
specification uses them: they show that each property notices such an error (`mutants` in
`PROJECT.json`).

Composition: the queues inside `DecodeScheduler` and `StreamServer` are the atomic queues of
`BoundedQueue`, which `ConcurrentQueue` is proved to implement; `pop()` of an empty open queue is a
step that is not enabled. `MemoryPool` assumes that a pool outlives its buffers, which `StreamServer`
checks for the server (`BuffersReturned`); for the client `ClientLifecycle` finds which buffers are an
exception (`OnlyQueuedStray`). `VideoPath` and `AudioPath` are what `DecodeScheduler` has as the one step
`Decode`; that a stream's decoder is used by one worker at a time, which they assume, is
`OneWorkerPerStream`. `StopCompletes` assumes that decoders and sinks return. `VideoWidget` does, as it never
waits; `AudioBufferDevice` need not: a worker that waits for room (`audioBufferDevice.cpp:23`) when
`exec()` has returned and the sink reads no more is joined by `stop()` (client `main.cpp:79-81`), and
nobody wakes it. The device is commented out in `main.cpp` at this commit (lines 74-76).

External: DreamNet, V4L2, the encoders and decoders, the C++ library. TCP delivers bytes in order
and in any portions; `handleRead` appends to a buffer, calls the callback if there is one and removes
what it returns; `disconnect()` is assumed to return, and only when the network thread is out of the
callback, and a `quit()` before `loop()` is entered not to be lost. V4L2 is modelled as its documentation describes it, see the head of `Camera`. FFmpeg takes or
refuses a packet and gives any number of pictures; Qt paints a visible widget after `update()`; the AAC
encoder takes no more samples than complete its frame.

## 3. Runs

| Run | Instance | Shows |
|---|---|---|
| `scheduler` | 2 streams, 3 workers, queue of 1, 2 frames per stream, audio and video | `OneWorkerPerStream`, `NoStrandedFrame`, `NoLostWakeup`, `AtMostOneStaleAudio` |
| `scheduler_live` | 2 streams, 2 workers, queue of 2, 3 frames per stream | `EveryFrameServed`, `StopCompletes`, `ImplementsOrderedStreams` |
| `scheduler_starvation` | 3 streams, 2 workers | `EveryFrameServed` is violated (section 6) |
| `queue` | 3 producers, 3 consumers, capacity 2, no peek, no reopen | `NoLostElement`, `NoLostRoom`, `DrainedForGood`, `CallsReturn` |
| `queue_reopen` | the same with all operations and two values | `ImplementsBoundedQueue` |
| `server` | queues of 1 and 2, a frame more than each has room for, 2 times | `ServerInv` (`OldestFirst`), `MergeNeverBlocks`, `GaplessStream`, `BuffersReturned`, `EveryFrameSent`, `ShutdownTerminates` |
| `pool` | 3 buffers, sizes 0 to 2 | `OnePlace`, `PoolInv` (`RoomEnough`, `FootprintBound`, `NothingLeaked`) |
| `client` | header of 2 units, payloads of 0 and 3, 4 frames, queue of 2 | `ClientInv` (`InSync`), `OnlyQueuedStray`, `Reception` (`NothingLeftBehind`, `EveryFramePassedOn`), `ExitCompletes` |
| `picture` | all payloads of up to 8 bytes of 3 values, 3 shapes, 3 widget sizes, 3 pictures | `PictureInv` (`PoolsBalanced`, `RectFits`), `StartsAtIDR`, `FrameWhole`, `RepaintComing`, `PictureShown` |
| `picture_stride` | the same | `RowsAlwaysFit` is violated (section 6) |
| `sound` | 3 streams, frames of 1 or 2 units, a device of 3, 6 frames, 2 switches | `SoundInv` (`NothingCut`), `LostBySwitching`, `AsleepOnlyIfFull` |
| `capture` | camera: up to 4 buffers, every call may fail; microphone: AAC frames of 4 samples, periods of 2, 3, 4 and 8, 24 samples | `CameraInv` (`BufferAccounting`, `AllUnmapped`), `FrameIntact`, `EndsUnlessStarved`; `MicrophoneInv` (`SamplesAccounted`), `StopObeyed` |

Each module's `TypeOK` is checked too, in its `...Inv` where it has one.

Why the bounds suffice. *Scheduler*: more workers than streams is needed for a worker to wait on
`cv_` while others race for a token, three workers give two waiters or a waiter and a
race; a queue of one with two frames has drops, a queue of two with three frames has order. Two
streams are needed for a token to stand behind another and for the selection to change.
*Queue*: nobody calls `peek()` or `reopen()`; with them only safety is checked, for a reader that waits while
the queue is closed and reopened never learns of it. Three threads on each side let one wait, one be notified and one overtake; capacity two
distinguishes full, empty and in between. *Server*: both queues are filled and hold their capturer up,
one of them has an order, and with two times a frame may be older, equal or newer than another.
*Pool*: three buffers allow a free block to be chosen among two while one is in use; sizes 1 and 2
give reuse for a smaller size. `BlockBound` 7 is one more than `FootprintBound` allows, so
no run ends at the bound. *Client*: a header of two units can be cut, an empty payload is the
boundary, three units can be cut in two places; of four frames two can be queued, one decoded and one
refused or left in the connection. *Picture*: eight bytes hold two start codes with their headers, of
either length and overlapping; of the byte values 0 and 1 make start codes, and 101 is an IDR
slice; two of the shapes have the same number of bytes, the third has oblong
samples; of three pictures one may be on the screen, one in the widget and one in the decoder.
*Capture*: camera and microphone share nothing, so `MCCapture` lets one of them move while the other
rests in its initial state. *Sound*: with three writers one may hold the device, one wait and one be woken; the device is too small
for two frames of two units, so that the case in which all sleep, the exception of
`AsleepOnlyIfFull`, occurs. *Camera*: the code asks for 4 buffers; with every call failing the case in
which none is left with the driver occurs and may last.
*Microphone*: the periods divide the frame, equal it, exceed it, or do neither.

Bounded counters: `FrameBound` (frames per stream, type, connection or device), `ClockBound` (time),
`BlockBound` (mallocs), `BufferBound` (V4L2 buffers), `PayloadLength` (bytes), `PictureBound` (pictures),
`SwitchBound` (changes of the selected stream), `SampleBound` (samples). Symmetry is used only in runs without liveness
properties, for streams, workers, threads and buffers, which the code does not distinguish.

Only `sound` switches the deadlock check off: there all may sleep, and workers may wait for room when the
sink has stopped with the program; `AsleepOnlyIfFull` says when the first happens, and nothing is
claimed of the second. Elsewhere, where the system may end, the
module has an explicit step (`Stopped`, `Exited`, `Destroyed`, `Ended`), so a state in which everybody waits
for everybody would be reported.

### Fairness

Weak fairness of each thread's own next step, and nothing else: a thread that can run does so
eventually. Locks are held for a bounded time, therefore weak fairness of taking them is
justified when no other thread can keep them for ever; condition variables give no order, so a
`notify_one` chooses any waiter. Nothing external has to happen: no frame has to arrive, no deadline
to pass, no spurious wakeup, no selection, no signal, no stop. Exceptions are the bytes in `StreamClient`
(what is sent arrives while the connection lives) and the driver in `Camera` (it fills queued
buffers while streaming; it need not fail, so that a `VIDIOC_DQBUF` that waits for a driver without
buffers waits for ever). `AudioPath` has safety properties only. In
`VideoPath` the worker comes to the end of a `decode()` and the UI thread handles its events; no picture has
to come. In `Microphone` the capture thread runs, but a read of a running device may wait for ever, and
preparing a device need never succeed. `EveryFrameSent` shows progress for the frames of the run; that
one type could be held up by an endless supply of the other is not in its reach, because
`FrameBound` is finite. It and `ShutdownTerminates` assume that device calls, encoders and `sendBroadcast` return; `StopCompletes` that decoders and sinks do. The user need not leave: `ExitCompletes` begins with
`stop()`.

## 4. Proofs

`DecodeScheduler_proofs`, for any streams, workers, queue capacity and number of frames, from
`ConstantsAssumption` (finitely many workers, a positive capacity) and `FrameAssumption`:

- `TypeCorrect`: `[]TypeOK`. Not inductive alone: typing `TakeToken` to `Finish` needs `LocalsAgree` (a
  worker holds a stream, and a frame, exactly at the labels that use them). `TypeInv` is the
  conjunction.
- `TokensCorrect`: `[]TokenInv`, the invariant behind the next two, with `TypeInv`, `InFlightHeld` and `TokenUnique` preserved together: a
  token is appended only for a stream that is neither queued nor held (`Announce`) or by the worker
  that lets go of it (`Finish`); `AppendToken` and `TailToken` are the lemmas on the token sequence.
- `OneWorker`: `[]OneWorkerPerStream`, from `TokenInv` and `DecoderReady` (the decoder of the frame in
  hand exists).
- `NothingStranded`: `[]NoStrandedFrame`, from `TokenInv`. `PopFrame` keeps it because the worker
  still holds the stream; `Finish` because it looks at the queue after leaving `inFlight_`, in one
  section of `mtx_`; `Receive` because `netStream` stands for the announcement to come.
- `WakeupsKept`: `[]NoLostWakeup`, by counting: an appended token wakes one worker more, or nobody
  waits; a worker that takes a token was woken, or was not waiting and leaves as many woken workers as
  tokens were left. A spurious wakeup only adds to the woken.
- `OneStaleFrame`: `[]AtMostOneStaleAudio`, from `StaleInv`: a stream that has had its stale frame has no
  worker on the way to decode another, because the next one has to ask `CheckSelected` again.
- `SchedulerRefinement`: the scheduler implements `OrderedStreams`. Each action is shown to be one step of
  a mailbox or to leave all mailboxes alone; only `TypeInv` and `TokenInv` are needed beside the step,
  because what a mailbox calls "being served" is what the token protocol keeps in one worker's hands.

`ConcurrentQueue_proofs`, for any finite sets of threads, values and any capacity, from
`QueueConstants`:

- `TypeCorrect`: `[]TypeOK`, which is inductive.
- `ElementNotificationsKept`, `RoomNotificationsKept`: `[]NoLostElement` and `[]NoLostRoom`, assuming
  that `peek` is not used. The invariant adds `ClosedFree` (nobody waits on a closed queue: `close()`
  notifies all, and a call on a closed queue does not wait). The argument counts: an element that is
  added notifies one waiting reader more, or nobody waits; a reader that takes an element was
  notified, or was not waiting and took an element that some notified reader loses, and the count
  of elements falls with the count of notified readers. `Counting` is the lemma on cardinalities.
- `QueueRefinement`: the queue implements `BoundedQueue`, with `peek` and reopening too. Steps are first
  sorted by what they do to the contents (`Puts`, `Takes`, `Leaves`, `Blocks`, ...); the first two are
  operations of the abstract queue and the others leave it alone.
- `DrainedMeansEmpty`: `[]DrainedForGood`, from the refinement: an abstract queue that is closed and
  empty stays so until it is opened.

`StreamServer_proofs`, for any capacities, numbers of frames and times. The inductive invariant has four
layers: `Control` (types, who has been started, how far the shutdown has come and what each of its stages
implies for the capturers, who has a frame in hand), `SomeFrame` (what the answers of earlier `empty()`
calls still say), `Books` and `Ages` with `OldestSoFar`.

- `NeverBlocks`: `[]MergeNeverBlocks`. A queue seen non-empty stays so, as only the push thread pops.
- `Gapless`, `BuffersComeBack`: `[]GaplessStream`, `[]BuffersReturned`, from `Books`: numbers in the pipeline
  are consecutive, and a buffer is out exactly for each frame that is queued, in hand or being sent. That
  none is out at the end needs the shutdown's order: the queues are drained after every thread that
  could still add to them has finished.
- `MergeInOrder`: `[]ServerInv`. `OldestSoFar` says what the push thread knows of the frames that were there
  when it called: they are still queued, behind the fronts it compares, and each queue is sorted by time.

`MemoryPool_proofs`, for any buffers, sizes and number of blocks:

- `OneOwner`: `[]OnePlace`. It counts places, so the induction is on `Places`, which says the same of pairs
  of places: two different ones never name one block (`Apart`), each allocated block has one
  (`Accounted`), and each is large enough (`LargeEnough`). `FiledLast` and `TakenFirst` are what the pool's
  vectors do to places, `SmallestSize` is what `lower_bound` finds.
- `PoolCorrect`: `[]PoolInv`. The footprint counts per size the free blocks and the buffers in use: a block is
  allocated only when there is no free one, and the buffer that asks has none.

`ClientLifecycle_proofs`, for any header, frame sizes and queue capacity, with `StreamClient`:

- `ReceptionInSync`: `[]ClientInv`. `InSync` needs `Contiguous` (frames follow each other in the stream
  without a gap). `EverythingRead` is the action property `NothingLeftBehind`, from the same invariant: the
  loop ends only with less than a header, or less than the frame it announces, in the buffer.
- `FewBuffersAstray`: `[]OnlyQueuedStray`, from `Life`: `Phases` (what the stages of the exit say of the other
  threads), `OnePlaceEach` (a buffer is home, queued, decoded or astray) and `QueuedBefore` (nothing is
  queued after `stop()`).

`VideoPath_proofs`, for payloads of any length, pictures of any shape and widgets of any size:

- `StartsDecodable`: `[]StartsAtIDR`. The search is a recursive function, and induction over data is not to
  be had here. Instead `LoopSolves` shows that "an IDR slice begins at or after byte i" solves the
  equation of the loop, so that there is a solution, and `LoopIsLater` that there is no other: the largest
  byte at which one differed could not, since a turn looks only further on (`TurnLooksAhead`). The
  heart is `NoneInside`: after a start code the loop skips the header too, and no start code can
  begin there unless a header is zero, which encoders do not emit.
- `PicturesWhole`: `[]FrameWhole`; the decoder's buffer has exactly the number of bytes of its last picture
  (`Decoded`), the widget's at least that (`Stored`), and the stride is the width of a shape of as many
  bytes. `PictureFits` concludes: with its own width as stride the last row ends at the last byte; any
  other stride is the exception the property names.
- `PicturesFit`: `[]RowsAlwaysFit`, assuming that no two shapes of a stream have as many bytes and different
  widths. The run `picture_stride` shows that the assumption is needed.
- `RepaintDue`: `[]RepaintComing`, strengthened to `Repaint`: that the screen is right counts only between
  paints, for a paint under way may be about to spoil it.
- `PicturesCorrect`: `[]PictureInv`, with the pools (`Lent`) and the rectangle (`RectInside`). The proof, like
  the model, computes exactly; the code computes with floats, whose error for sizes of screens is far below
  the half pixel at which `std::round` decides, but that is not part of the proof.

`AudioPath_proofs`, for any finite number of streams and any sizes:

- `SoundWhole`: `[]SoundInv`, from `Measured` (a decoder's buffer and its stride were set together for the
  largest frame so far) and `Budget` (the bound of frames).
- `LossBounded`: `[]LostBySwitching`, from `Charged`: every frame lost, on its way to be lost, or late for
  another stream is charged to a change of the selection, and a change pays for two.
- `AsleepIfFull`: `[]AsleepOnlyIfFull`, strengthened to `Awake` by what holds while the sink is awake
  (`SinkAwake`): nobody waits for room in an empty device without having been woken. Of the room it is only
  assumed that one frame fits; `Sink \notin Streams` is an assumption on names.

`Capture_proofs`, for any number of buffers, and any frame size and periods:

- `BuffersAccounted`, `FramesIntact`: `[]CameraInv` and `[]FrameIntact`, from `Exchange`: queued, filled,
  in hand and lost buffers are apart and make up all (`OnePlaceEach`), the buffer in hand is untouched, and
  the mapped buffers are the first ones (`MappedFirst`), which is what `~Camera` relies on when `initMmap()`
  stopped half way. The proof needs `BufferBound > 0`: the code asks the driver for 4 buffers.
- `SamplesCounted`: `[]MicrophoneInv`. That nothing is made up needs that the encoder is told of as many
  samples as were read (`SpanCounts`, `NothingMadeUp`). That nothing is lost when periods divide the frame needs that the
  encoder always keeps whole periods (`WholePeriods`); that no more is lost than came irregularly when a
  period is a frame needs `InTheWay`: what the encoder keeps is then as good as lost already.

So every invariant a run checks is proved, and with them `NothingLeftBehind` and both refinements. Model-checked only: liveness, which is
beyond TLAPS here (`EveryFrameServed`, `StopCompletes`, `CallsReturn`, `EveryFrameSent`, `ShutdownTerminates`,
`ExitCompletes`, `EveryFramePassedOn`, `PictureShown`, `EndsUnlessStarved`, `StopObeyed`).

## 5. Results in short

The token protocol keeps a stream in one worker's hands and in order and leaves no frame behind,
provided there are as many workers as streams that may fall silent. The selection
of the audio stream may be late by one frame, never more. The queue loses no notification in
the operations the program uses. The server's `getFrame()` never blocks although it checks first and
acts later, because only one thread takes frames out; its shutdown ends in every interleaving and
returns every buffer. A pool's block may shrink in the pool's eyes but is never too small. Framing
never loses its place. The camera thread can be joined unless the camera streams with no buffer left to
fill: all lost to failed `VIDIOC_QBUF`s, or none queued.

*Client's exit.* `stop()` and the destructors end in every interleaving. When a client's pool is
destroyed no worker and no call of `onMessage()` holds one of its buffers, but the queue may: frames that
were queued before `stop()` and that no worker took, at most a queue full (`OnlyQueuedStray`).

*Picture.* The search for an IDR slice agrees with its definition on every payload an encoder can
emit. A paint that takes the geometry of one picture and the pixels of the next is always followed by
another, so the last picture is shown as it should be. A picture's rows
fit its buffer unless the stride was kept from another shape of as many bytes; then they need not
(section 6).

*Sound.* Although `stride` is set only when a buffer grows, no frame is cut short; it may be played with
the end of an older one. Writers share `audioFrame_`, so frames are lost and others played twice, but
only when the selection changes, and at most two for each change. The sink and the workers may all
sleep, but only with a worker that waits for room for the frame at hand: `notify_one` then woke a writer
that had no room where it should have woken the sink. Frames are some 11 kB and the device holds 64 kB: frames of
five workers have room in it together, those of more (there may be nine) have not. `AsleepOnlyIfFull` says that
this is the only way; it does not say that a worker returns, and with the sink stopped one that waits does not.

*Microphone.* With the period asked for (1024 samples, an AAC frame) samples are lost only after a short
read; with a period that does not divide the frame some are lost all the time, because `encode()` does
not look at how many the encoder took. An overrun is repaired if `snd_pcm_prepare()` succeeds, which nobody
looks at; after any other error every read fails, and the thread runs on without sound until it is
stopped, which it always obeys.

## 6. Findings

`scheduler_starvation` (code, `decodeScheduler.cpp:84-90` and `109`). `handle()` queues a frame before it
takes `mtx_`. A worker that holds the stream may take that frame and let go before `handle()` gets
`mtx_`, which then adds a token for an empty queue. The worker that takes this token waits
inside `pop()`, where only a frame of that stream or `stop()` can reach it. There are between 2 and 9
workers, by the number of cores: when as many streams as there are workers fall silent in this
way, other streams with frames are not served, although the README (line 28) promises nine at a
time. The counterexample has 2 workers and 3 streams. A `try_pop()` in line 109 would do.

`picture_stride` (code, `videoDecoder.cpp:24`). `updateVideoFrameSize()` keeps a plane's buffer, and its
stride, when the new picture has as many bytes. `refresh()` follows a change of resolution (line 127),
and 640x480 to 480x640 is one with the same product: `sws_scale()` (line 113) then writes 640 rows at a
stride of 640 to a buffer of 307200 bytes, some 100 kB past its end, and the widget reads it so. In the
run 4x2 becomes 2x4: the rows need 14 bytes and there are 8. Setting the stride whenever the width
has changed would do. `PicturesFit` proves that nothing else makes a picture too large for its buffer.

Noted without a run, because no comment or document says otherwise (see `hazards`): frames left in
`streamsQues_` at exit are returned to pools of clients that are destroyed already (client
`main.cpp:81-84`); `AudioBufferDevice` reads the shared `audioFrame_` again after waiting, and its
wakeups can end with all asleep when room is short; samples the AAC encoder did not take are dropped
(`fdkAACEncoder.cpp:57`); after a failed mmap `getBuffer()` copies from an address that is not mapped (`camera.cpp:79`, state `crashed` of
`Camera`).

## 7. Not modelled

- x264, OpenGL and shader set-up, layout, logging: calls of libraries without state the program depends on.
- URL parsing (`parseHostPort`) and the address line: a pure function and text.
- DreamNet: not in the repository. What matters most of it is that `disconnect()` waits for the callback
  and that the network thread ends after `quit()`; both are assumed, so a hazard that lies in them
  (client `main.cpp:82`) is not in the models' reach.
- The end of the program with `AudioBufferDevice` in use: see composition, section 2.
- A shorter sound frame that is played with the end of an older one (`audioDecoder.cpp:24`): no property
  forbids it.
- `h264NaluParser.hpp`, `aacAdtsParser.hpp`: included by no file.
- `setVideoSink`, `setAudioSink`, queue moves: called before threads share the objects.
- Frame sizes near 2^32 in `onMessage()`: the server does not produce them.
- Failures of the scaler and the resampler: what a null context does is undefined; the converted frame of
  `AudioDecoder`, which gets a new buffer for every frame without the old one being released.
- Sizes of camera pictures against the copy buffer.

## 8. Plan

Order, the most important behaviour first; 1 to 11 are done.

1. `DecodeScheduler`, `OrderedStreams`; proofs of types, tokens, `NoStrandedFrame`.
2. `ConcurrentQueue`, `BoundedQueue`; proofs of the notification counts.
3. `StreamServer`.
4. `MemoryPool`.
5. `StreamClient`.
6. `Camera`.
7. `ClientLifecycle`.
8. `AudioPath`.
9. `VideoPath`.
10. `Microphone`.
11. Proofs of all invariants and of the refinements.
12. What is left: the safety half of `EveryFramePassedOn` as a theorem (the first frame passed on is at most
    the one that was incomplete when the handler was set).
