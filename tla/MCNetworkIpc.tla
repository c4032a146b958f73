------------------------------ MODULE MCNetworkIpc ------------------------------
(* Two calls of any kind, and room for one of them to wait. *)
EXTENDS NetworkIpc, TLC

CONSTANTS C1, C2

MCCalls == {C1, C2}
=============================================================================
