---------------------------- MODULE SavedNetwork ----------------------------
(***************************************************************************)
(* What the daemon promises of the saved network, whatever profiles it     *)
(* keeps it in: docs/MANAGEMENT_NETWORK.md calls the promotion of a new    *)
(* profile rollback-safe.                                                  *)
(*                                                                         *)
(* saved      the network the next boot would join                         *)
(* confirmed  the network the daemon last settled on                       *)
(* trial      a network that was joined and is about to replace it         *)
(*                                                                         *)
(* A boot always finds the confirmed network or the trial, never neither:  *)
(* a failed or interrupted replacement loses neither of them.              *)
(***************************************************************************)
CONSTANTS Networks, None

VARIABLES saved, confirmed, trial

vars == <<saved, confirmed, trial>>

TypeOK ==
    /\ saved \in Networks \cup {None}
    /\ confirmed \in Networks \cup {None}
    /\ trial \in Networks \cup {None}

Init ==
    /\ confirmed \in Networks \cup {None}
    /\ saved = confirmed
    /\ trial = None

Try ==
    /\ trial = None
    /\ trial' \in Networks \ {confirmed}
    /\ UNCHANGED <<saved, confirmed>>

(* The new profile takes the saved name, or a rollback gives it back. *)
Replace ==
    /\ trial # None
    /\ saved' \in {confirmed, trial}
    /\ UNCHANGED <<confirmed, trial>>

Confirm ==
    /\ trial # None
    /\ saved = trial
    /\ confirmed' = trial
    /\ trial' = None
    /\ UNCHANGED saved

Abandon ==
    /\ trial # None
    /\ saved' = confirmed
    /\ trial' = None
    /\ UNCHANGED confirmed

(* The daemon stops in the middle: what boot finds then is settled on. *)
Interrupt ==
    /\ trial # None
    /\ confirmed' = saved
    /\ trial' = None
    /\ UNCHANGED saved

Next == Try \/ Replace \/ Confirm \/ Abandon \/ Interrupt

Spec == Init /\ [][Next]_vars
=============================================================================
