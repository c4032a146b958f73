----------------------------- MODULE MCSetupPage -----------------------------
(* Ticks of a second; the long timeouts are shortened, and stay the        *)
(* longer ones.                                                            *)
EXTENDS SetupPage
=============================================================================
