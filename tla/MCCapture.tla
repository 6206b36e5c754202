------------------------------ MODULE MCCapture ------------------------------
(***************************************************************************)
(* The server's two sources for TLC, in one run.  Camera and microphone    *)
(* share nothing, so that every state of the one beside every state of the *)
(* other would show nothing more: one of them leaves its initial state and *)
(* the other stays there.                                                  *)
(***************************************************************************)
EXTENDS Camera, Microphone

CaptureInit == Init /\ MicInit

CaptureNext ==
    \/ MicInit /\ Next /\ UNCHANGED micVars
    \/ Init /\ MicNext /\ UNCHANGED vars

\* The fairness of FairSpec and of MicFairSpec, each for the source that runs.
CaptureSpec ==
    /\ CaptureInit /\ [][CaptureNext]_<<vars, micVars>>
    /\ Fairness
    /\ WF_micVars(Init /\ Running)

=============================================================================
