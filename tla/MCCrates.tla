------------------------------ MODULE MCCrates ------------------------------
(* The code of the Rust crates that meets no other program: one call of a
   generated kernel of knc-mvex, or one stream through phi-rpc's decoder.   *)
EXTENDS MCFrames, FastLanes, VpuBlocks, Mandel

\* The side that is not in use: no kernel called, nothing sent.
LaneAtRest == /\ job = [kind |-> "none"] /\ pc = [stage |-> "none"]
              /\ zmm = << >> /\ mem = << >>
DecoderAtRest == /\ stream = << >> /\ line = << >> /\ buf = << >>
                 /\ since = << >> /\ from = 0 /\ idle = TRUE

KernelInit == CodecInit \/ FlsInit \/ BlocksInit \/ CtxInit \/ MandelInit
KernelNext == CodecNext \/ FlsNext \/ BlocksNext \/ CtxNext \/ MandelNext

\* A call that has returned stays returned.
Done == (CodecDone \/ FlsDone \/ BlocksDone \/ MandelDone) /\ UNCHANGED laneVars

Init == (KernelInit /\ DecoderAtRest) \/ (FrameInit /\ LaneAtRest)
Next == \/ (KernelNext \/ Done) /\ UNCHANGED vars
        \/ LaneAtRest /\ FrameNext /\ UNCHANGED laneVars

Spec == Init /\ [][Next]_<<vars, laneVars>>
=============================================================================
