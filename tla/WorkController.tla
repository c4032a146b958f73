----------------------------- MODULE WorkController -----------------------------
(***************************************************************************)
(* What NetworkController does at the grain of whole work items: requests  *)
(* move the mode and fill the queue of one place, and the worker takes an  *)
(* item and publishes how it ended.  The locks, the backend's calls and    *)
(* the failures on the way are out of sight.  NetworkController implements *)
(* this specification; NetworkIpc puts the IPC thread in front of it.      *)
(***************************************************************************)
CONSTANTS
    Calls,     \* requests for work
    Actions,   \* what a call may ask for
    None,
    Boot,      \* the daemon's own work: the first item,
    Recovery   \* and what reconcile does about a lost link

VARIABLES
    action,    \* what each call asks for
    mode,      \* NetworkController._mode
    queued,    \* the item in its queue
    running    \* the item the worker has taken, and has not published the end of

Changes == {"connect", "provisioning"}
BusyModes == {"STATION_CONNECTING", "TRANSITION"}
SettledModes == {"STATION_CONNECTED", "PROVISIONING_AP"}

Init ==
    /\ action \in [Calls -> Actions]
    /\ mode = "STATION_CONNECTING" /\ queued = Boot /\ running = None

(* The modes from which a request leads to TRANSITION. *)
Allowed(what) ==
    IF what = "connect" THEN SettledModes
    ELSE {"STATION_CONNECTING", "STATION_CONNECTED", "ERROR"}

request(c) ==
    /\ action[c] \in Changes
    /\ mode \in Allowed(action[c]) /\ queued = None
    /\ queued' = c /\ mode' = "TRANSITION"
    /\ UNCHANGED <<action, running>>

process_next ==
    /\ running = None /\ queued # None
    /\ running' = queued /\ queued' = None
    /\ UNCHANGED <<action, mode>>

(* Items that may end in a station connection. *)
Joins(i) == i = Boot \/ (i \in Calls /\ action[i] = "connect")

(* The station could not be joined, and the setup AP is next. *)
item_moves ==
    /\ running # None
    /\ \/ mode = "STATION_CONNECTING"
       \/ mode = "STATION_CONNECTED" /\ Joins(running)
    /\ mode' = "TRANSITION"
    /\ UNCHANGED <<action, queued, running>>

(* The mode may have been moved since the item was queued, by a request or *)
(* by the item before it, and then there is no transition for its outcome. *)
item_ends ==
    /\ running # None
    /\ \/ mode \in BusyModes /\ Joins(running) /\ mode' = "STATION_CONNECTED"
       \/ mode = "TRANSITION" /\ mode' \in {"PROVISIONING_AP", "ERROR"}
       \/ mode \notin BusyModes /\ mode' = "ERROR"
    /\ running' = None
    /\ UNCHANGED <<action, queued>>

(* With nothing to do, reconcile finds the station or the AP gone. *)
reconcile ==
    /\ running = None /\ queued = None /\ mode \in SettledModes
    /\ mode' = "TRANSITION" /\ running' = Recovery
    /\ UNCHANGED <<action, queued>>

restart ==
    /\ mode' = "STATION_CONNECTING" /\ queued' = Boot /\ running' = None
    /\ UNCHANGED action

Next ==
    \/ \E c \in Calls : request(c)
    \/ process_next \/ item_moves \/ item_ends \/ reconcile \/ restart

Spec == Init /\ [][Next]_<<action, mode, queued, running>>
=============================================================================
