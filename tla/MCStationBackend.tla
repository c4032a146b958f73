--------------------------- MODULE MCStationBackend ---------------------------
(* Small instances of StationBackend for TLC. *)
EXTENDS StationBackend, TLC

CONSTANTS P1, P2, P3

MCUuids == {P1, P2, P3}
Symmetry == Permutations(MCUuids)
AnyFault == {"clean", "late"}
CleanFault == {"clean"}
=============================================================================
