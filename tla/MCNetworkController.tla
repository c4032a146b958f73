------------------------- MODULE MCNetworkController -------------------------
(* Two station names; local files that can be missing, and values on both  *)
(* sides of what is cut off or left out.                                   *)
EXTENDS StatusReport, TLC

CONSTANTS Home, Shop

MCSsids == {Home, Shop}
MCOsReleases ==
    {Absent} \cup {[PRETTY_NAME |-> p, NAME |-> n, VERSION_ID |-> v] :
        p \in {0, 3, 9}, n \in {0, 2, 3, 9}, v \in {0, 2, 3, 9}}
MCTemperatures == {Absent, -40001, -40000, 45000, 125000, 125001}
Symmetry == Permutations(MCSsids)
=============================================================================
