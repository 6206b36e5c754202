----------------------------- MODULE Microphone -----------------------------
(***************************************************************************)
(* The server's sound: Audio reads a period at a time from ALSA,           *)
(* FdkAACEncoder gives what was read to the AAC encoder, and               *)
(* AudioCapturer hands on what comes out.                                  *)
(*                                                                         *)
(* Samples are counted, of 16 bits and one channel as in audio.cpp.  ALSA  *)
(* and FDK-AAC are external: a read gives a period or less, or reports     *)
(* that the device has overrun or failed, and preparing a device may fail; *)
(* the encoder takes no more samples than complete its frame, keeps them   *)
(* until the frame is complete, and reports how many it took.              *)
(***************************************************************************)
EXTENDS Naturals

CONSTANTS
    FRAME,        \* samples of an AAC frame
    Periods,      \* periods the hardware may agree to
    SampleBound   \* bound: samples read

ASSUME MicrophoneConstants ==
    /\ FRAME \in Nat \ {0}
    /\ Periods \subseteq Nat \ {0}
    /\ SampleBound \in Nat

VARIABLES
    micPc,      \* the capture thread: "init", "loop", "read", "encode", "end", "exit"
    stop,       \* its stop_token
    device,     \* "running", "overrun" or "failed"
    frames_,    \* the period agreed to
    data,       \* the bytes of the last read, as getBuffer() returns them
    inside,     \* samples the encoder keeps
    handled,    \* AAC frames handed to the next handler
    read,       \* history: samples read
    irregular   \* history: of these, in short reads or refused by the encoder

encoderVars == <<inside, handled>>
micVars == <<micPc, stop, device, frames_, data, encoderVars, read, irregular>>

frameBytes_ == 2

MicInit ==
    /\ micPc = "init"
    /\ stop = FALSE
    /\ device = "running"
    /\ frames_ \in Periods
    /\ data = 0
    /\ inside = 0 /\ handled = 0
    /\ read = 0 /\ irregular = 0

----
(* The capture thread.                                                     *)

Goto(from, to) == micPc = from /\ micPc' = to

\* Audio::init, FdkAACEncoder::init: any failure ends the program.
Start(next) ==
    /\ Goto("init", next)
    /\ UNCHANGED <<stop, device, frames_, data, encoderVars, read, irregular>>

\* stop_requested(), or the next getBuffer().
Loop ==
    /\ Goto("loop", IF stop THEN "end" ELSE "read")
    /\ UNCHANGED <<stop, device, frames_, data, encoderVars, read, irregular>>

\* Bug: the span is the whole buffer, also after a short read.
BytesBug(n) == frameBytes_ * frames_

\* The span of a read of n samples.
Bytes(n) == frameBytes_ * n

\* getBuffer with n samples.
ReadSamples(n) ==
    /\ device = "running"
    /\ Goto("read", "encode")
    /\ data' = Bytes(n)
    /\ read' = read + n
    /\ irregular' = IF n = frames_ THEN irregular ELSE irregular + n
    /\ UNCHANGED <<stop, device, frames_, encoderVars>>

\* An overrun device is prepared, and whether that succeeds is not looked at;
\* another error is only reported.
Prepare(d) == IF d = "overrun" THEN {"running", "overrun", "failed"} ELSE {d}

\* Bug: getBuffer tries again until it has samples.
ReadErrorBug ==
    /\ device # "running"
    /\ Goto("read", "read")
    /\ device' \in Prepare(device)
    /\ UNCHANGED <<stop, frames_, data, encoderVars, read, irregular>>

\* getBuffer without samples.
ReadError ==
    /\ device # "running"
    /\ Goto("read", "loop")
    /\ device' \in Prepare(device)
    /\ UNCHANGED <<stop, frames_, data, encoderVars, read, irregular>>

\* What the encoder is told that it is given.
numInSamples == data \div 2

\* External: what aacEncEncode takes of n samples.
Taken(n) == IF inside + n <= FRAME THEN n ELSE FRAME - inside

\* External: what the encoder keeps of n more samples.
Kept(n) == (inside + Taken(n)) % FRAME

\* encode() and handle(): numInSamples of the result is not looked at, so what
\* was not taken is gone.
EncodeSamples ==
    /\ Goto("encode", "loop")
    /\ inside' = Kept(numInSamples)
    /\ handled' = IF inside + Taken(numInSamples) = FRAME THEN handled + 1 ELSE handled
    /\ UNCHANGED <<stop, device, frames_, data, read, irregular>>

\* encode() fails and is reported; external: it has taken nothing then.
EncodeFails ==
    /\ Goto("encode", "loop")
    /\ irregular' = IF numInSamples = frames_ THEN irregular + numInSamples ELSE irregular
    /\ UNCHANGED <<stop, device, frames_, data, encoderVars, read>>

----
(* Its surroundings.                                                       *)

DeviceFails(how) ==
    /\ device = "running"
    /\ device' = how
    /\ UNCHANGED <<micPc, stop, frames_, data, encoderVars, read, irregular>>

RequestMicStop ==
    /\ ~stop
    /\ stop' = TRUE
    /\ UNCHANGED <<micPc, device, frames_, data, encoderVars, read, irregular>>

MicEnded == micPc \in {"end", "exit"} /\ UNCHANGED micVars

----

Reading == \E n \in 1..frames_ : read + n <= SampleBound /\ ReadSamples(n)
Running == Start("loop") \/ Loop \/ ReadError \/ EncodeSamples \/ EncodeFails

MicNext ==
    \/ Reading
    \/ Running
    \/ Start("exit")
    \/ \E how \in {"overrun", "failed"} : DeviceFails(how)
    \/ RequestMicStop
    \/ MicEnded

MicSpec == MicInit /\ [][MicNext]_micVars

\* The thread runs; samples need not come.
MicFairSpec == MicSpec /\ WF_micVars(Running)

----
(* Properties.                                                             *)

\* Every variable has its type.
MicTypeOK ==
    /\ micPc \in {"init", "loop", "read", "encode", "end", "exit"}
    /\ stop \in BOOLEAN
    /\ device \in {"running", "overrun", "failed"}
    /\ frames_ \in Periods
    /\ data \in {frameBytes_ * n : n \in 0..frames_}
    /\ inside \in 0..(FRAME - 1)
    /\ handled \in Nat /\ read \in Nat /\ irregular \in Nat

\* The frames hold nothing that was not read; and a sample is missing from them
\* and from the encoder only after a short read or with a refused one, no more
\* than it read, or because the period the hardware chose does not divide the
\* frame (audio.cpp:57-64, 88-97; fdkAACEncoder.cpp:44-68).
SamplesAccounted ==
    LET taken == FRAME * handled + inside
    IN /\ taken <= read
       /\ micPc # "encode" =>
            /\ frames_ = FRAME => read <= taken + irregular
            /\ FRAME % frames_ = 0 /\ irregular = 0 => read = taken

\* Types, and the account of samples.
MicrophoneInv == MicTypeOK /\ SamplesAccounted

\* A stop is obeyed, also while the device has failed or an overrun cannot be
\* repaired: only a read from a running device may wait for ever
\* (audio.cpp:47-56, audioCapturer.cpp:23-25).
StopObeyed ==
    stop /\ (micPc # "read" \/ device # "running") ~> micPc \in {"end", "exit"}

=============================================================================
