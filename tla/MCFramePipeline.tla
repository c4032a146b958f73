--------------------------- MODULE MCFramePipeline ---------------------------
(* A short run of FramePipeline: two ticks to the period. *)
EXTENDS FramePipeline
=============================================================================
