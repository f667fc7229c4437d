-------------------------- MODULE MCAudioPipeline ---------------------------
(* The sizes of the firmware: 6 buffers of 64 samples, 256 to a transfer. *)
EXTENDS AudioPipeline
=============================================================================
