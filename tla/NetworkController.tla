-------------------------- MODULE NetworkController --------------------------
(***************************************************************************)
(* The management-network daemon's controller: the mode table of           *)
(* rave_network_ipc/state.py, the class NetworkController, and the two     *)
(* threads NetworkdServer.serve starts.  The IPC thread answers one        *)
(* request at a time; the worker thread runs process_next and, when the    *)
(* queue stayed empty for ten seconds, reconcile.                          *)
(*                                                                         *)
(* A section under `_lock` is one action.  A call of the backend lasts     *)
(* while its thread's program counter names it, and returns in one action  *)
(* whose outcome is chosen here: StationBackend refines what happens       *)
(* inside.  `_operation_lock` is the variable opLock.                      *)
(*                                                                         *)
(* `link` is the state of the radio outside the process, which the mode    *)
(* is meant to follow: it survives a restart of the daemon and can be lost *)
(* at any time.                                                            *)
(***************************************************************************)
EXTENDS Naturals, Sequences

CONSTANTS
    Ssids,        \* names a user may ask to connect to
    NoSsid,       \* Python's None in place of a name
    MaxRestarts   \* bound on restarts of the daemon

ASSUME NoSsidAssumption == NoSsid \notin Ssids
ASSUME MaxRestartsAssumption == MaxRestarts \in Nat

VARIABLES
    mode,         \* _mode
    stationSsid,  \* _station_ssid
    lastError,    \* _last_error
    work,         \* _work, a queue of at most QueueSize items
    opLock,       \* the thread that holds _operation_lock
    pc,           \* where the worker thread is
    task,         \* the loop body the worker runs
    item,         \* the item the worker took last
    seen,         \* the mode reconcile read before it took the lock
    got,          \* the name the last backend call returned
    prior,        \* the argument of the pending _restore_provisioning
    ipc,          \* where the IPC thread is
    link,         \* what wlan0 really does
    restarts      \* restarts so far

status == <<mode, stationSsid, lastError>>
worker == <<pc, task, item, seen, got, prior>>
vars == <<status, work, opLock, worker, ipc, link, restarts>>

-----------------------------------------------------------------------------
Modes == {"UNCONFIGURED", "STATION_CONNECTING", "STATION_CONNECTED",
          "PROVISIONING_AP", "TRANSITION", "ERROR"}

(* Modes in which the daemon owes its user an outcome. *)
Busy == {"STATION_CONNECTING", "TRANSITION"}

(* Modes in which scan is allowed. *)
Settled == {"PROVISIONING_AP", "STATION_CONNECTED"}

(* The table _TRANSITIONS: a mode, an event and the mode that follows. *)
Transitions ==
    { <<"UNCONFIGURED", "BOOT", "STATION_CONNECTING">>,
      <<"STATION_CONNECTING", "NO_SAVED_NETWORK", "TRANSITION">>,
      <<"STATION_CONNECTING", "STATION_CONNECTED", "STATION_CONNECTED">>,
      <<"STATION_CONNECTING", "STATION_TIMEOUT", "TRANSITION">>,
      <<"STATION_CONNECTING", "PROVISIONING_REQUESTED", "TRANSITION">>,
      <<"STATION_CONNECTED", "STATION_REQUESTED", "TRANSITION">>,
      <<"STATION_CONNECTED", "PROVISIONING_REQUESTED", "TRANSITION">>,
      <<"STATION_CONNECTED", "STATION_TIMEOUT", "TRANSITION">>,
      <<"PROVISIONING_AP", "STATION_REQUESTED", "TRANSITION">>,
      <<"PROVISIONING_AP", "PROVISIONING_REQUESTED", "TRANSITION">>,
      <<"TRANSITION", "STATION_CONNECTED", "STATION_CONNECTED">>,
      <<"TRANSITION", "STATION_TIMEOUT", "TRANSITION">>,
      <<"TRANSITION", "AP_READY", "PROVISIONING_AP">>,
      <<"TRANSITION", "AP_FAILED", "ERROR">>,
      <<"ERROR", "BOOT", "STATION_CONNECTING">>,
      <<"ERROR", "PROVISIONING_REQUESTED", "TRANSITION">> }

(* transition() finds no entry: the ValueError. *)
Raises(event) == \A m \in Modes : <<mode, event, m>> \notin Transitions

Apply(event) == mode' \in Modes /\ <<mode, event, mode'>> \in Transitions

-----------------------------------------------------------------------------
QueueSize == 1

Boot == [kind |-> "BOOT", ssid |-> NoSsid]
Connect(s) == [kind |-> "CONNECT", ssid |-> s]
Provisioning == [kind |-> "PROVISIONING", ssid |-> NoSsid]
WorkItems == {Boot, Provisioning} \cup {Connect(s) : s \in Ssids}

NoError == "NONE"
Errors == {NoError, "saved_station_timeout", "station_timeout",
           "station_connection_lost", "provisioning_ap_lost",
           "ap_activation_failed", "network_operation_failed"}

Links == {"DOWN", "STATION", "SETUP_AP"}   \* SETUP_AP: AP up and DHCP running

Free == "FREE"

(* Labels of the worker, named for what it does next. *)
RestoreLabels == {"activate_provisioning", "ap_ready", "ap_failed"}
ProcessLabels == {"has_saved_station", "no_saved_network", "activate_saved_station",
                  "connect_station", "station_connected", "station_timeout"}
ReconcileLabels == {"active_station_ssid", "reconcile_station",
                    "provisioning_ready", "reconcile_provisioning"}
WorkerLabels == {"get", "process_lock", "recover", "reconcile_lock", "unlock"}
                  \cup RestoreLabels \cup ProcessLabels \cup ReconcileLabels

(* Labels at which the worker is inside a call of the backend. *)
BackendLabels == {"has_saved_station", "activate_saved_station", "connect_station",
                  "activate_provisioning", "active_station_ssid", "provisioning_ready"}

ScanLabels == {"scan_lock", "scan_call"}
IpcLabels == {"boot", "accept"} \cup ScanLabels

TypeOK ==
    /\ mode \in Modes
    /\ stationSsid \in Ssids \cup {NoSsid}
    /\ lastError \in Errors
    /\ work \in {<<>>} \cup {<<w>> : w \in WorkItems}
    /\ opLock \in {Free, "WORKER", "IPC"}
    /\ pc \in WorkerLabels
    /\ task \in {"none", "process", "recover", "reconcile"}
    /\ item \in WorkItems
    /\ seen \in Modes
    /\ got \in Ssids \cup {NoSsid}
    /\ prior \in Errors
    /\ ipc \in IpcLabels
    /\ link \in Links
    /\ restarts \in 0 .. MaxRestarts

(* The memory of a new process: __init__, and the threads serve starts. *)
Init ==
    /\ mode = "UNCONFIGURED"
    /\ stationSsid = NoSsid
    /\ lastError = NoError
    /\ work = <<>>
    /\ opLock = Free
    /\ pc = "get"
    /\ task = "none"
    /\ item = Boot
    /\ seen = "UNCONFIGURED"
    /\ got = NoSsid
    /\ prior = NoError
    /\ ipc = "boot"
    /\ link = "DOWN"
    /\ restarts = 0

-----------------------------------------------------------------------------
(* The IPC thread.  A request that is refused changes nothing, and is left *)
(* out; so is `status`, which only reads.                                  *)

(* The mode moves only after the item was accepted. *)
enqueue_transition(w, event) ==
    /\ Len(work) < QueueSize
    /\ work' = Append(work, w)
    /\ Apply(event)

(* serve: boot is requested before the socket exists. *)
request_boot ==
    /\ ipc = "boot"
    /\ enqueue_transition(Boot, "BOOT")
    /\ ipc' = "accept"
    /\ UNCHANGED <<stationSsid, lastError, opLock, worker, link, restarts>>

request_connect(s) ==
    /\ ipc = "accept"
    /\ enqueue_transition(Connect(s), "STATION_REQUESTED")
    /\ lastError' = NoError
    /\ UNCHANGED <<stationSsid, opLock, worker, ipc, link, restarts>>

(* In PROVISIONING_AP the request returns early and changes nothing. *)
request_provisioning ==
    /\ ipc = "accept"
    /\ mode # "PROVISIONING_AP"
    /\ enqueue_transition(Provisioning, "PROVISIONING_REQUESTED")
    /\ lastError' = NoError
    /\ UNCHANGED <<stationSsid, opLock, worker, ipc, link, restarts>>

(* The mode is checked under _lock, which is released before the operation *)
(* lock is requested.                                                      *)
scan_checks_mode_Unguarded ==
    /\ ipc = "accept"
    /\ ipc' = "scan_lock"
    /\ UNCHANGED <<status, work, opLock, worker, link, restarts>>

scan_checks_mode ==
    /\ ipc = "accept"
    /\ mode \in Settled
    /\ ipc' = "scan_lock"
    /\ UNCHANGED <<status, work, opLock, worker, link, restarts>>

scan_locks ==
    /\ ipc = "scan_lock"
    /\ opLock = Free
    /\ opLock' = "IPC"
    /\ ipc' = "scan_call"
    /\ UNCHANGED <<status, work, worker, link, restarts>>

(* A result and an error leave the lock alike; scanning keeps the link. *)
scan_returns ==
    /\ ipc = "scan_call"
    /\ opLock' = Free
    /\ ipc' = "accept"
    /\ UNCHANGED <<status, work, worker, link, restarts>>

ipc_step ==
    \/ request_boot
    \/ \E s \in Ssids : request_connect(s)
    \/ request_provisioning
    \/ scan_checks_mode
    \/ scan_locks
    \/ scan_returns

-----------------------------------------------------------------------------
(* The worker thread: process_next.                                        *)

process_next_gets ==
    /\ pc = "get"
    /\ work # <<>>
    /\ item' = Head(work)
    /\ work' = Tail(work)
    /\ pc' = "process_lock"
    /\ UNCHANGED <<status, opLock, task, seen, got, prior, ipc, link, restarts>>

process_next_locks ==
    /\ pc = "process_lock"
    /\ opLock = Free
    /\ opLock' = "WORKER"
    /\ task' = "process"
    /\ prior' = NoError
    /\ \/ item.kind = "BOOT" /\ pc' = "has_saved_station"
       \/ item.kind = "CONNECT" /\ pc' = "connect_station"
       \/ item.kind = "PROVISIONING" /\ pc' = "activate_provisioning"
    /\ UNCHANGED <<status, work, item, seen, got, ipc, link, restarts>>

(* An exception leaves the `with` block before the except clause runs: the *)
(* operation lock is free again while the failure is being recovered from. *)
leaves_by_exception ==
    /\ task = "process"
    /\ opLock' = Free
    /\ task' = "recover"
    /\ pc' = "recover"
    /\ UNCHANGED <<status, item, seen, got, prior>>

(* In reconcile and in the recovery the exception reaches _work_loop, which *)
(* logs it.                                                                 *)
leaves_to_work_loop ==
    /\ task # "process"
    /\ pc' = "unlock"
    /\ UNCHANGED <<status, opLock, task, item, seen, got, prior>>

raises == leaves_by_exception \/ leaves_to_work_loop

unlock_DrainsQueue ==
    /\ pc = "unlock"
    /\ opLock' = IF opLock = "WORKER" THEN Free ELSE opLock
    /\ work' = <<>>
    /\ pc' = "get"
    /\ task' = "none"
    /\ UNCHANGED <<status, item, seen, got, prior, ipc, link, restarts>>

unlock ==
    /\ pc = "unlock"
    /\ opLock' = IF opLock = "WORKER" THEN Free ELSE opLock
    /\ pc' = "get"
    /\ task' = "none"
    /\ UNCHANGED <<status, work, item, seen, got, prior, ipc, link, restarts>>

has_saved_station ==
    /\ pc = "has_saved_station"
    /\ \/ /\ pc' \in {"no_saved_network", "activate_saved_station"}
          /\ UNCHANGED <<status, opLock, task, item, seen, got, prior>>
       \/ raises
    /\ UNCHANGED <<work, ipc, link, restarts>>

process_boot_without_network ==
    /\ pc = "no_saved_network"
    /\ \/ /\ Apply("NO_SAVED_NETWORK")
          /\ prior' = NoError
          /\ pc' = "activate_provisioning"
          /\ UNCHANGED <<stationSsid, lastError, opLock, task, item, seen, got>>
       \/ Raises("NO_SAVED_NETWORK") /\ raises
    /\ UNCHANGED <<work, ipc, link, restarts>>

(* The name that nmcli tells of the saved profile; asking may fail, and an  *)
(* invalid name counts as none.                                             *)
_saved_ssid == Ssids \cup {NoSsid}

(* activate_saved_station and connect_station: whatever fails, setup AP and *)
(* DHCP are never up together unless they were left alone.                  *)
activates_station(names, error) ==
    /\ \/ /\ link' = "STATION"
          /\ got' \in names
          /\ pc' = "station_connected"
          /\ UNCHANGED <<status, opLock, task, item, seen, prior>>
       \/ /\ link' \in {link, "DOWN", "STATION"}
          /\ prior' = error
          /\ pc' = "station_timeout"
          /\ UNCHANGED <<status, opLock, task, item, seen, got>>
       \/ /\ link' \in {link, "DOWN", "STATION"}
          /\ raises
    /\ UNCHANGED <<work, ipc, restarts>>

activate_saved_station ==
    pc = "activate_saved_station" /\ activates_station(_saved_ssid, "saved_station_timeout")

connect_station ==
    pc = "connect_station" /\ activates_station({item.ssid}, "station_timeout")

station_connected ==
    /\ pc = "station_connected"
    /\ \/ /\ Apply("STATION_CONNECTED")
          /\ stationSsid' = got
          /\ lastError' = NoError
          /\ pc' = "unlock"
          /\ UNCHANGED <<opLock, task, item, seen, got, prior>>
       \/ Raises("STATION_CONNECTED") /\ raises
    /\ UNCHANGED <<work, ipc, link, restarts>>

(* After a failed boot or connection the setup AP is restored. *)
station_timeout ==
    /\ pc = "station_timeout"
    /\ \/ /\ Apply("STATION_TIMEOUT")
          /\ pc' = "activate_provisioning"
          /\ UNCHANGED <<stationSsid, lastError, opLock, task, item, seen, got, prior>>
       \/ Raises("STATION_TIMEOUT") /\ raises
    /\ UNCHANGED <<work, ipc, link, restarts>>

(* _restore_provisioning, the call: its exceptions count as failures. *)
activate_provisioning ==
    /\ pc = "activate_provisioning"
    /\ \/ pc' = "ap_ready" /\ link' = "SETUP_AP"
       \/ pc' = "ap_failed" /\ link' \in Links
    /\ UNCHANGED <<status, work, opLock, task, item, seen, got, prior, ipc, restarts>>

(* _restore_provisioning, the section under _lock. *)
publishes_KeepsSsid(event, error) ==
    /\ \/ /\ Apply(event)
          /\ lastError' = error
          /\ pc' = "unlock"
          /\ UNCHANGED <<stationSsid, opLock, task, item, seen, got, prior>>
       \/ Raises(event) /\ raises
    /\ UNCHANGED <<work, ipc, link, restarts>>

publishes(event, error) ==
    /\ \/ /\ Apply(event)
          /\ stationSsid' = NoSsid
          /\ lastError' = error
          /\ pc' = "unlock"
          /\ UNCHANGED <<opLock, task, item, seen, got, prior>>
       \/ Raises(event) /\ raises
    /\ UNCHANGED <<work, ipc, link, restarts>>

restore_provisioning ==
    \/ pc = "ap_ready" /\ publishes("AP_READY", prior)
    \/ pc = "ap_failed" /\ publishes("AP_FAILED", "ap_activation_failed")

(* A failure in a settled mode, or in ERROR itself, is published as ERROR; *)
(* one inside a transition ends in the setup AP.                           *)
recover_unexpected_failure_StuckBusy ==
    /\ pc = "recover"
    /\ pc' = "unlock"
    /\ IF mode = "TRANSITION"
       THEN UNCHANGED status
       ELSE /\ mode' = "ERROR"
            /\ stationSsid' = NoSsid
            /\ lastError' = "network_operation_failed"
    /\ UNCHANGED <<work, opLock, task, item, seen, got, prior, ipc, link, restarts>>

recover_unexpected_failure ==
    /\ pc = "recover"
    /\ \/ /\ mode \in Busy
          /\ mode' = "TRANSITION"
          /\ prior' = "network_operation_failed"
          /\ pc' = "activate_provisioning"
          /\ UNCHANGED <<stationSsid, lastError>>
       \/ /\ mode \notin Busy
          /\ mode' = "ERROR"
          /\ stationSsid' = NoSsid
          /\ lastError' = "network_operation_failed"
          /\ pc' = "unlock"
          /\ UNCHANGED prior
    /\ UNCHANGED <<work, opLock, task, item, seen, got, ipc, link, restarts>>

-----------------------------------------------------------------------------
(* The worker thread: reconcile.                                           *)

(* Queue.get gave up: reconcile takes a snapshot before it takes the lock. *)
reconcile_reads_mode ==
    /\ pc = "get"
    /\ work = <<>>
    /\ seen' = mode
    /\ pc' = "reconcile_lock"
    /\ UNCHANGED <<status, work, opLock, task, item, got, prior, ipc, link, restarts>>

reconcile_locks ==
    /\ pc = "reconcile_lock"
    /\ opLock = Free
    /\ opLock' = "WORKER"
    /\ task' = "reconcile"
    /\ \/ seen = "STATION_CONNECTED" /\ pc' = "active_station_ssid"
       \/ seen = "PROVISIONING_AP" /\ pc' = "provisioning_ready"
       \/ seen \notin Settled /\ pc' = "unlock"
    /\ UNCHANGED <<status, work, item, seen, got, prior, ipc, link, restarts>>

active_station_ssid_AnyConnection ==
    /\ pc = "active_station_ssid"
    /\ got' \in Ssids \cup {NoSsid}
    /\ pc' = "reconcile_station"
    /\ UNCHANGED <<status, work, opLock, task, item, seen, prior, ipc, link, restarts>>

(* Whether wlan0 has the saved profile up; asking may fail as well.         *)
_active_connection == IF link = "STATION" THEN BOOLEAN ELSE {FALSE}

(* A name is returned only while the saved profile is up. *)
active_station_ssid ==
    /\ pc = "active_station_ssid"
    /\ \E saved \in _active_connection : got' \in IF saved THEN _saved_ssid ELSE {NoSsid}
    /\ pc' = "reconcile_station"
    /\ UNCHANGED <<status, work, opLock, task, item, seen, prior, ipc, link, restarts>>

(* The mode of the snapshot decides. *)
reconcile_station_TrustsSnapshot ==
    /\ pc = "reconcile_station"
    /\ IF seen = "STATION_CONNECTED" /\ got = NoSsid
       THEN /\ Apply("STATION_TIMEOUT")
            /\ prior' = "station_connection_lost"
            /\ pc' = "activate_provisioning"
            /\ UNCHANGED stationSsid
       ELSE /\ stationSsid' = IF mode = "STATION_CONNECTED" THEN got ELSE stationSsid
            /\ pc' = "unlock"
            /\ UNCHANGED <<mode, prior>>
    /\ UNCHANGED <<lastError, work, opLock, task, item, seen, got, ipc, link, restarts>>

(* The mode is read again: a request may have changed it since. *)
reconcile_station ==
    /\ pc = "reconcile_station"
    /\ IF mode = "STATION_CONNECTED" /\ got = NoSsid
       THEN /\ Apply("STATION_TIMEOUT")
            /\ prior' = "station_connection_lost"
            /\ pc' = "activate_provisioning"
            /\ UNCHANGED stationSsid
       ELSE /\ stationSsid' = IF mode = "STATION_CONNECTED" THEN got ELSE stationSsid
            /\ pc' = "unlock"
            /\ UNCHANGED <<mode, prior>>
    /\ UNCHANGED <<lastError, work, opLock, task, item, seen, got, ipc, link, restarts>>

provisioning_ready ==
    /\ pc = "provisioning_ready"
    /\ \/ link = "SETUP_AP" /\ pc' = "unlock"
       \/ pc' = "reconcile_provisioning"
    /\ UNCHANGED <<status, work, opLock, task, item, seen, got, prior, ipc, link, restarts>>

reconcile_provisioning ==
    /\ pc = "reconcile_provisioning"
    /\ IF mode = "PROVISIONING_AP"
       THEN /\ Apply("PROVISIONING_REQUESTED")
            /\ prior' = "provisioning_ap_lost"
            /\ pc' = "activate_provisioning"
       ELSE /\ pc' = "unlock"
            /\ UNCHANGED <<mode, prior>>
    /\ UNCHANGED <<stationSsid, lastError, work, opLock, task, item, seen, got,
                   ipc, link, restarts>>

worker_step ==
    \/ process_next_gets
    \/ process_next_locks
    \/ has_saved_station
    \/ process_boot_without_network
    \/ activate_saved_station
    \/ connect_station
    \/ station_connected
    \/ station_timeout
    \/ activate_provisioning
    \/ restore_provisioning
    \/ recover_unexpected_failure
    \/ unlock
    \/ reconcile_reads_mode
    \/ reconcile_locks
    \/ active_station_ssid
    \/ reconcile_station
    \/ provisioning_ready
    \/ reconcile_provisioning

-----------------------------------------------------------------------------
(* Outside the process: a network or the setup AP goes away, and systemd   *)
(* restarts the daemon, whose threads may be stopped anywhere.             *)

link_lost ==
    /\ link # "DOWN"
    /\ link' = "DOWN"
    /\ UNCHANGED <<status, work, opLock, worker, ipc, restarts>>

restart ==
    /\ restarts < MaxRestarts
    /\ restarts' = restarts + 1
    /\ mode' = "UNCONFIGURED"
    /\ stationSsid' = NoSsid
    /\ lastError' = NoError
    /\ work' = <<>>
    /\ opLock' = Free
    /\ pc' = "get"
    /\ task' = "none"
    /\ item' = Boot
    /\ seen' = "UNCONFIGURED"
    /\ got' = NoSsid
    /\ prior' = NoError
    /\ ipc' = "boot"
    /\ UNCHANGED link

Next == ipc_step \/ worker_step \/ link_lost \/ restart

(* Both threads keep running and every backend call returns, because each  *)
(* command has a timeout.  A thread that finds the operation lock free     *)
(* again and again is granted it in the end.                               *)
Fairness ==
    /\ WF_vars(worker_step)
    /\ WF_vars(request_boot)
    /\ WF_vars(scan_returns)
    /\ SF_vars(process_next_locks)
    /\ SF_vars(reconcile_locks)

Spec == Init /\ [][Next]_vars
FairSpec == Spec /\ Fairness

-----------------------------------------------------------------------------
(* Safety.                                                                 *)

(* Two threads never drive NetworkManager at once, although recovery from  *)
(* an exception calls the backend without holding the operation lock, and  *)
(* although scan checks the mode long before it gets the lock.             *)
BackendExclusive == ~ (pc \in BackendLabels /\ ipc = "scan_call")

(* A busy mode is never published with nobody left to end it: the item is  *)
(* in the queue, or the worker is between taking it and publishing.        *)
WorkerEngaged ==
    pc \in {"process_lock", "recover"} \cup RestoreLabels \cup ProcessLabels
BusyIsOwned == mode \in Busy => work # <<>> \/ WorkerEngaged

(* What status shows fits together: a station name never accompanies the   *)
(* setup AP or an error, an error always has a reason, and a connection    *)
(* shows none.                                                             *)
StatusCoherent ==
    /\ mode \in {"PROVISIONING_AP", "ERROR"} => stationSsid = NoSsid
    /\ mode = "ERROR" => lastError # NoError
    /\ mode = "STATION_CONNECTED" => lastError = NoError

(* docs/MANAGEMENT_NETWORK.md: an overlapping request leaves no hidden     *)
(* work, so a settled mode comes with an empty queue.                      *)
NoHiddenWork == mode \in Settled \cup {"ERROR"} => work = <<>>

-----------------------------------------------------------------------------
(* What the rest of the system sees of all this: WorkController.           *)

Nothing == [kind |-> "NONE", ssid |-> NoSsid]
Recovery == [kind |-> "RECOVERY", ssid |-> NoSsid]
Requests == {Provisioning} \cup {Connect(s) : s \in Ssids}
Asks == [w \in Requests |-> IF w = Provisioning THEN "provisioning" ELSE "connect"]

(* Nothing is served before boot was requested, so that it counts as       *)
(* queued from the start.                                                  *)
PublicMode == IF mode = "UNCONFIGURED" THEN "STATION_CONNECTING" ELSE mode
Queued == IF ipc = "boot" THEN Boot ELSE IF work = <<>> THEN Nothing ELSE Head(work)
Running ==
    IF ~ WorkerEngaged THEN Nothing ELSE IF task = "reconcile" THEN Recovery ELSE item

Work == INSTANCE WorkController WITH
    Calls <- Requests, Actions <- {"connect", "provisioning"}, None <- Nothing,
    action <- Asks, mode <- PublicMode, queued <- Queued, running <- Running

(* Whatever the interleaving of the two threads and wherever the backend   *)
(* fails, each item is taken once and ends once, by the step that          *)
(* publishes a mode its kind may end in; a request moves the mode and      *)
(* fills the queue in one step; and reconcile never recovers a link that   *)
(* a request is about to change (controller.py 108-135, 183-219, 228-237). *)
RunsWholeItems == Work!Spec

-----------------------------------------------------------------------------
(* Liveness.                                                               *)

(* Every transition ends in a published outcome. *)
BusyEnds == mode \in Busy ~> mode \notin Busy

(* A link that is gone does not stay published as up. *)
LossIsNoticed ==
    /\ (mode = "STATION_CONNECTED" /\ link # "STATION")
         ~> (mode # "STATION_CONNECTED" \/ link = "STATION")
    /\ (mode = "PROVISIONING_AP" /\ link # "SETUP_AP")
         ~> (mode # "PROVISIONING_AP" \/ link = "SETUP_AP")

(* An accepted connection is attempted, unless the daemon is restarted. *)
AcceptedConnectionRuns ==
    \A s \in Ssids :
        work = <<Connect(s)>>
          ~> (pc = "connect_station" /\ item = Connect(s)) \/ ipc = "boot"
=============================================================================
