------------------------------- MODULE MCVpu -------------------------------
(***************************************************************************)
(* Instances of VpuAccelerator: both codecs of the accelerator, a VPU that *)
(* keeps back one frame, one free framebuffer to go on decoding.           *)
(***************************************************************************)
EXTENDS VpuAccelerator

Frames == 0 .. 1
BothCodecs == {"H264", "VP8"}
=============================================================================
