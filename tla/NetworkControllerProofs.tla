----------------------- MODULE NetworkControllerProofs -----------------------
(***************************************************************************)
(* Theorems about NetworkController and StatusReport, for any names, any   *)
(* local files that the assumptions allow and any number of restarts.      *)
(***************************************************************************)
EXTENDS StatusReport, TLAPS

(* Who holds the operation lock, read off the two program counters.        *)
LockInv ==
    /\ ipc = "scan_call" <=> opLock = "IPC"
    /\ task \in {"process", "reconcile"} <=> opLock = "WORKER"
    /\ pc \in {"get", "process_lock", "reconcile_lock"} => task = "none"
    /\ pc \in ProcessLabels => task = "process"
    /\ pc \in ReconcileLabels => task = "reconcile"
    /\ pc = "recover" => task = "recover"
    /\ pc \in RestoreLabels => task # "none"

(* A scan that passed its check meets a busy mode only while the worker,   *)
(* holding the lock, restores the setup AP; and recovery and reconcile     *)
(* restore the setup AP in TRANSITION, where no request is accepted.       *)
ScanInv ==
    /\ ipc \in ScanLabels /\ mode \in Busy =>
         mode = "TRANSITION" /\ opLock = "WORKER" /\ pc \in RestoreLabels
    /\ task \in {"recover", "reconcile"} /\ pc \in RestoreLabels => mode = "TRANSITION"

(* The inductive invariant behind BackendExclusive.                        *)
IInv == TypeOK /\ LockInv /\ ScanInv

-----------------------------------------------------------------------------
(* What the mode table says of each event.                                 *)
LEMMA Events ==
    /\ Apply("BOOT") => mode \in {"UNCONFIGURED", "ERROR"} /\ mode' = "STATION_CONNECTING"
    /\ Apply("STATION_REQUESTED") => mode \in Settled /\ mode' = "TRANSITION"
    /\ Apply("PROVISIONING_REQUESTED") => mode # "TRANSITION" /\ mode' = "TRANSITION"
    /\ Apply("NO_SAVED_NETWORK") => mode = "STATION_CONNECTING" /\ mode' = "TRANSITION"
    /\ Apply("STATION_TIMEOUT") => mode' = "TRANSITION"
    /\ Apply("STATION_CONNECTED") => mode \in Busy /\ mode' = "STATION_CONNECTED"
    /\ Apply("AP_READY") => mode = "TRANSITION" /\ mode' = "PROVISIONING_AP"
    /\ Apply("AP_FAILED") => mode = "TRANSITION" /\ mode' = "ERROR"
    /\ mode = "TRANSITION" => ~ Raises("AP_READY") /\ ~ Raises("AP_FAILED")
BY DEF Apply, Raises, Transitions, Settled, Busy, Modes

USE DEF vars, status, worker

(* Every variable keeps its type.                                          *)
LEMMA TypeInit == Init => TypeOK
BY MaxRestartsAssumption
   DEF Init, TypeOK, Modes, Errors, NoError, WorkItems, Boot, Provisioning, Connect,
       WorkerLabels, IpcLabels, Links, Free

LEMMA TypeRequests ==
    TypeOK /\ ipc_step => TypeOK'
<1> SUFFICES ASSUME TypeOK, ipc_step PROVE TypeOK'
  OBVIOUS
<1> USE DEF TypeOK, WorkItems, Boot, Provisioning, Connect, IpcLabels, ScanLabels,
            Errors, NoError, Free
<1>1. ASSUME NEW w \in WorkItems, NEW event, enqueue_transition(w, event)
      PROVE  work' \in {<<v>> : v \in WorkItems} /\ mode' \in Modes
  <2>1. work = <<>>
    BY <1>1 DEF enqueue_transition, QueueSize
  <2>2. work' = <<w>>
    BY <1>1, <2>1 DEF enqueue_transition
  <2>3. mode' \in Modes
    BY <1>1, Zenon DEF enqueue_transition, Apply
  <2> QED BY <2>2, <2>3
<1>2. CASE request_boot
  BY <1>1, <1>2 DEF request_boot
<1>3. ASSUME NEW s \in Ssids, request_connect(s) PROVE TypeOK'
  BY <1>1, <1>3 DEF request_connect
<1>4. CASE request_provisioning
  BY <1>1, <1>4 DEF request_provisioning
<1>5. CASE scan_checks_mode \/ scan_locks \/ scan_returns
  BY <1>5 DEF scan_checks_mode, scan_locks, scan_returns
<1> QED BY <1>2, <1>3, <1>4, <1>5 DEF ipc_step

LEMMA TypeWorker ==
    TypeOK /\ worker_step => TypeOK'
<1> SUFFICES ASSUME TypeOK, worker_step PROVE TypeOK'
  OBVIOUS
<1> USE DEF TypeOK, IpcLabels, ScanLabels, Errors, NoError, Free, Links, WorkerLabels,
            RestoreLabels, ProcessLabels, ReconcileLabels
<1>1. ASSUME NEW event, Apply(event) PROVE mode' \in Modes
  BY <1>1 DEF Apply
<1>2. ASSUME raises
      PROVE  /\ UNCHANGED <<mode, stationSsid, lastError, item, seen, got, prior>>
             /\ opLock' \in {Free, "WORKER", "IPC"}
             /\ pc' \in WorkerLabels
             /\ task' \in {"none", "process", "recover", "reconcile"}
  BY <1>2 DEF raises, leaves_by_exception, leaves_to_work_loop
<1>3. CASE process_next_gets
  <2>1. PICK w \in WorkItems : work = <<w>>
    BY <1>3 DEF process_next_gets
  <2>2. Head(work) \in WorkItems /\ Tail(work) = <<>>
    BY <2>1
  <2> QED BY <1>3, <2>2 DEF process_next_gets
<1>4. CASE process_next_locks \/ reconcile_locks \/ unlock
  BY <1>4 DEF process_next_locks, reconcile_locks, unlock
<1>5. CASE has_saved_station
  BY <1>2, <1>5 DEF has_saved_station
<1>6. CASE process_boot_without_network
  BY <1>1, <1>2, <1>6 DEF process_boot_without_network
<1>7. ASSUME NEW names \in SUBSET (Ssids \cup {NoSsid}), NEW error \in Errors,
             activates_station(names, error)
      PROVE  TypeOK'
  BY <1>2, <1>7 DEF activates_station
<1>8. CASE activate_saved_station \/ connect_station
  <2>1. _saved_ssid \in SUBSET (Ssids \cup {NoSsid})
    BY DEF _saved_ssid
  <2>2. item.ssid \in Ssids \cup {NoSsid}
    BY DEF WorkItems, Boot, Provisioning, Connect
  <2> QED
    BY <1>7, <1>8, <2>1, <2>2 DEF activate_saved_station, connect_station
<1>9. CASE station_connected
  BY <1>1, <1>2, <1>9 DEF station_connected
<1>10. CASE station_timeout
  BY <1>1, <1>2, <1>10 DEF station_timeout
<1>11. CASE activate_provisioning
  BY <1>11 DEF activate_provisioning
<1>12. ASSUME NEW event, NEW error \in Errors, publishes(event, error) PROVE TypeOK'
  BY <1>1, <1>2, <1>12 DEF publishes
<1>13. CASE restore_provisioning
  BY <1>12, <1>13 DEF restore_provisioning
<1>14. CASE recover_unexpected_failure
  BY <1>14 DEF recover_unexpected_failure, Modes
<1>15. CASE reconcile_reads_mode \/ active_station_ssid \/ provisioning_ready
  BY <1>15 DEF reconcile_reads_mode, active_station_ssid, _saved_ssid, provisioning_ready
<1>16. CASE reconcile_station \/ reconcile_provisioning
  BY <1>1, <1>16 DEF reconcile_station, reconcile_provisioning
<1> QED
  BY <1>3, <1>4, <1>5, <1>6, <1>8, <1>9, <1>10, <1>11, <1>13, <1>14, <1>15, <1>16
     DEF worker_step

LEMMA TypeNext == TypeOK /\ [Next]_vars => TypeOK'
<1> SUFFICES ASSUME TypeOK, [Next]_vars PROVE TypeOK'
  OBVIOUS
<1>1. CASE link_lost
  BY <1>1 DEF link_lost, TypeOK, Links
<1>2. CASE restart
  BY <1>2, MaxRestartsAssumption
     DEF restart, TypeOK, Modes, Errors, NoError, WorkItems, Boot, WorkerLabels,
         IpcLabels, Free
<1>3. CASE UNCHANGED vars
  BY <1>3 DEF TypeOK
<1> QED BY <1>1, <1>2, <1>3, TypeRequests, TypeWorker DEF Next

(* The controller's variables keep their types.                            *)
THEOREM TypeCorrect == Spec => []TypeOK
BY TypeInit, TypeNext, PTL DEF Spec

-----------------------------------------------------------------------------
(* The operation lock is held by whom the program counters say.            *)
LEMMA LockNext == TypeOK /\ LockInv /\ [Next]_vars => LockInv'
<1> SUFFICES ASSUME TypeOK, LockInv, [Next]_vars PROVE LockInv'
  OBVIOUS
<1> USE DEF LockInv, ScanLabels, RestoreLabels, ProcessLabels, ReconcileLabels, Free
<1>1. CASE ipc_step
  <2>1. pc' = pc /\ task' = task
    BY <1>1 DEF ipc_step, request_boot, request_connect, request_provisioning,
                scan_checks_mode, scan_locks, scan_returns
  <2>2. CASE opLock' = opLock /\ (ipc' = "scan_call" <=> ipc = "scan_call")
    BY <2>1, <2>2
  <2>3. CASE scan_locks \/ scan_returns
    BY <2>1, <2>3 DEF scan_locks, scan_returns
  <2> QED
    BY <1>1, <2>2, <2>3
       DEF ipc_step, request_boot, request_connect, request_provisioning, scan_checks_mode
<1>2. CASE worker_step
  <2>1. ASSUME raises, ipc' = ipc, pc \notin {"get", "process_lock", "reconcile_lock"}
        PROVE LockInv'
    BY <2>1 DEF raises, leaves_by_exception, leaves_to_work_loop
  <2>2. CASE process_next_gets \/ process_next_locks \/ unlock
    BY <2>2 DEF process_next_gets, process_next_locks, unlock, TypeOK
  <2>3. CASE has_saved_station \/ process_boot_without_network
    BY <2>1, <2>3 DEF has_saved_station, process_boot_without_network
  <2>4. CASE activate_saved_station \/ connect_station
    BY <2>1, <2>4 DEF activate_saved_station, connect_station, activates_station
  <2>5. CASE station_connected \/ station_timeout
    BY <2>1, <2>5 DEF station_connected, station_timeout
  <2>6. CASE activate_provisioning \/ recover_unexpected_failure
    BY <2>6 DEF activate_provisioning, recover_unexpected_failure
  <2>7. CASE restore_provisioning
    BY <2>1, <2>7 DEF restore_provisioning, publishes
  <2>8. CASE reconcile_reads_mode \/ reconcile_locks
    BY <2>8 DEF reconcile_reads_mode, reconcile_locks
  <2>9. CASE \/ active_station_ssid \/ reconcile_station
             \/ provisioning_ready \/ reconcile_provisioning
    BY <2>9 DEF active_station_ssid, reconcile_station, provisioning_ready,
                reconcile_provisioning
  <2> QED
    BY <1>2, <2>2, <2>3, <2>4, <2>5, <2>6, <2>7, <2>8, <2>9 DEF worker_step
<1>3. CASE link_lost \/ restart \/ UNCHANGED vars
  BY <1>3 DEF link_lost, restart
<1> QED BY <1>1, <1>2, <1>3 DEF Next

(* A scan cannot pass its check in a busy mode, and once it passed, the IPC *)
(* thread accepts no request until the scan is over.                        *)
LEMMA ScanNext == IInv /\ [Next]_vars => ScanInv'
<1> SUFFICES ASSUME TypeOK, LockInv, ScanInv, [Next]_vars PROVE ScanInv'
  BY DEF IInv
<1> USE DEF ScanInv, ScanLabels, RestoreLabels, ProcessLabels, ReconcileLabels,
            Busy, Settled, Free
<1>1. CASE ipc_step
  <2>1. CASE request_boot
    BY <2>1, Events DEF request_boot, enqueue_transition
  <2>2. ASSUME NEW s \in Ssids, request_connect(s) PROVE ScanInv'
    BY <2>2, Events DEF request_connect, enqueue_transition
  <2>3. CASE request_provisioning
    BY <2>3, Events DEF request_provisioning, enqueue_transition
  <2>4. CASE scan_checks_mode
    BY <2>4 DEF scan_checks_mode
  <2>5. CASE scan_locks
    BY <2>5 DEF scan_locks
  <2>6. CASE scan_returns
    BY <2>6 DEF scan_returns
  <2> QED BY <1>1, <2>1, <2>2, <2>3, <2>4, <2>5, <2>6 DEF ipc_step
<1>2. CASE worker_step
  <2> USE DEF LockInv
  <2>1. ASSUME raises, mode' = mode, ipc' = ipc,
               pc \notin RestoreLabels \/ mode # "TRANSITION"
        PROVE  ScanInv'
    BY <2>1 DEF raises, leaves_by_exception, leaves_to_work_loop
  <2>2. CASE process_next_gets \/ process_next_locks \/ unlock
    BY <2>2 DEF process_next_gets, process_next_locks, unlock
  <2>3. CASE has_saved_station
    BY <2>1, <2>3 DEF has_saved_station, raises, leaves_by_exception, leaves_to_work_loop
  <2>4. CASE process_boot_without_network
    BY <2>1, <2>4, Events
       DEF process_boot_without_network, raises, leaves_by_exception, leaves_to_work_loop
  <2>5. CASE activate_saved_station \/ connect_station
    BY <2>1, <2>5
       DEF activate_saved_station, connect_station, activates_station,
           raises, leaves_by_exception, leaves_to_work_loop
  <2>6. CASE station_connected \/ station_timeout
    BY <2>1, <2>6, Events
       DEF station_connected, station_timeout, raises, leaves_by_exception,
           leaves_to_work_loop
  <2>7. CASE activate_provisioning
    BY <2>7 DEF activate_provisioning
  <2>8. CASE restore_provisioning
    <3>1. pc \in RestoreLabels
      BY <2>8 DEF restore_provisioning
    <3>2. CASE mode = "TRANSITION"
      <4>1. mode' \in {"PROVISIONING_AP", "ERROR"} /\ pc' = "unlock"
        BY <2>8, <3>2, Events DEF restore_provisioning, publishes
      <4> QED BY <4>1
    <3>3. CASE mode # "TRANSITION"
      <4>1. raises /\ mode' = mode /\ ipc' = ipc
        BY <2>8, <3>3, Events
           DEF restore_provisioning, publishes, raises, leaves_by_exception,
               leaves_to_work_loop
      <4> QED BY <2>1, <3>3, <4>1
    <3> QED BY <3>2, <3>3
  <2>9. CASE recover_unexpected_failure
    BY <2>9 DEF recover_unexpected_failure
  <2>10. CASE reconcile_reads_mode \/ reconcile_locks
    BY <2>10 DEF reconcile_reads_mode, reconcile_locks
  <2>11. CASE active_station_ssid \/ provisioning_ready
    BY <2>11 DEF active_station_ssid, provisioning_ready
  <2>12. CASE reconcile_station \/ reconcile_provisioning
    BY <2>12, Events DEF reconcile_station, reconcile_provisioning
  <2> QED
    BY <1>2, <2>2, <2>3, <2>4, <2>5, <2>6, <2>7, <2>8, <2>9, <2>10, <2>11, <2>12
       DEF worker_step
<1>3. CASE link_lost \/ restart \/ UNCHANGED vars
  BY <1>3 DEF link_lost, restart
<1> QED BY <1>1, <1>2, <1>3 DEF Next

(* IInv is inductive.                                                      *)
THEOREM IInvCorrect == Spec => []IInv
<1>1. Init => IInv
  BY TypeInit
     DEF Init, IInv, LockInv, ScanInv, Free, ScanLabels, RestoreLabels, ProcessLabels,
         ReconcileLabels
<1>2. IInv /\ [Next]_vars => IInv'
  BY TypeNext, LockNext, ScanNext DEF IInv
<1> QED BY <1>1, <1>2, PTL DEF Spec

(* The two threads are never both inside the backend, although recovery    *)
(* from an exception calls it without the operation lock and scan checks   *)
(* the mode before it takes that lock.                                     *)
THEOREM BackendIsExclusive == Spec => []BackendExclusive
<1>1. IInv => BackendExclusive
  <2> SUFFICES ASSUME IInv, pc \in BackendLabels, ipc = "scan_call" PROVE FALSE
    BY DEF BackendExclusive
  <2> USE DEF IInv, LockInv, ScanInv, TypeOK, BackendLabels, ScanLabels, RestoreLabels,
              ProcessLabels, ReconcileLabels, Busy
  <2>1. task = "recover" /\ pc = "activate_provisioning"
    OBVIOUS
  <2>2. mode = "TRANSITION"
    BY <2>1
  <2> QED BY <2>1, <2>2
<1> QED BY <1>1, IInvCorrect, PTL

-----------------------------------------------------------------------------
(* The worker engages before the queue is empty and disengages only once    *)
(* the mode is settled, or a request is queued.                             *)
LEMMA OwnedNext == IInv /\ BusyIsOwned /\ [Next]_vars => BusyIsOwned'
<1> SUFFICES ASSUME IInv, BusyIsOwned, [Next]_vars PROVE BusyIsOwned'
  OBVIOUS
<1> USE DEF BusyIsOwned, WorkerEngaged, RestoreLabels, ProcessLabels, Busy
<1>1. CASE ipc_step
  <2>1. ASSUME NEW w, NEW event, enqueue_transition(w, event) PROVE work' # <<>>
    <3>1. work = <<>>
      BY <2>1 DEF enqueue_transition, QueueSize, IInv, TypeOK
    <3>2. work' = <<w>>
      BY <2>1, <3>1 DEF enqueue_transition
    <3> QED BY <3>2
  <2>2. CASE request_boot
    BY <2>1, <2>2 DEF request_boot
  <2>3. ASSUME NEW s \in Ssids, request_connect(s) PROVE BusyIsOwned'
    BY <2>1, <2>3 DEF request_connect
  <2>4. CASE request_provisioning
    BY <2>1, <2>4 DEF request_provisioning
  <2>5. CASE scan_checks_mode \/ scan_locks \/ scan_returns
    BY <2>5 DEF scan_checks_mode, scan_locks, scan_returns
  <2> QED BY <1>1, <2>2, <2>3, <2>4, <2>5 DEF ipc_step
<1>2. CASE worker_step
  <2>1. ASSUME raises, UNCHANGED <<mode, work>>,
               task = "process" \/ mode \notin Busy
        PROVE  BusyIsOwned'
    BY <2>1 DEF raises, leaves_by_exception, leaves_to_work_loop
  <2>2. CASE process_next_gets \/ process_next_locks \/ unlock
    BY <2>2 DEF process_next_gets, process_next_locks, unlock
  <2>3. CASE has_saved_station \/ process_boot_without_network
    BY <2>1, <2>3, Events
       DEF has_saved_station, process_boot_without_network, IInv, LockInv, raises,
           leaves_by_exception, leaves_to_work_loop
  <2>4. CASE activate_saved_station \/ connect_station
    BY <2>1, <2>4
       DEF activate_saved_station, connect_station, activates_station, IInv, LockInv,
           raises, leaves_by_exception, leaves_to_work_loop
  <2>5. CASE station_connected \/ station_timeout
    BY <2>1, <2>5, Events
       DEF station_connected, station_timeout, IInv, LockInv, raises,
           leaves_by_exception, leaves_to_work_loop
  <2>6. CASE activate_provisioning \/ recover_unexpected_failure
    BY <2>6 DEF activate_provisioning, recover_unexpected_failure
  <2>7. CASE restore_provisioning
    <3>1. ASSUME mode' \notin Busy PROVE BusyIsOwned'
      BY <3>1
    <3>2. CASE mode = "TRANSITION"
      BY <2>7, <3>1, <3>2, Events DEF restore_provisioning, publishes
    <3>3. CASE mode # "TRANSITION"
      <4>1. raises /\ UNCHANGED <<mode, work>>
        BY <2>7, <3>3, Events
           DEF restore_provisioning, publishes, raises, leaves_by_exception,
               leaves_to_work_loop
      <4>2. task \in {"recover", "reconcile"} => mode = "TRANSITION"
        BY <2>7 DEF restore_provisioning, IInv, ScanInv
      <4>3. pc \in RestoreLabels
        BY <2>7 DEF restore_provisioning
      <4>4. task = "process"
        BY <3>3, <4>2, <4>3 DEF IInv, TypeOK, LockInv
      <4> QED BY <2>1, <4>1, <4>4
    <3> QED BY <3>2, <3>3
  <2>8. CASE reconcile_reads_mode \/ reconcile_locks
    BY <2>8 DEF reconcile_reads_mode, reconcile_locks
  <2>9. CASE active_station_ssid \/ provisioning_ready
    BY <2>9 DEF active_station_ssid, provisioning_ready
  <2>10. CASE reconcile_station \/ reconcile_provisioning
    BY <2>10 DEF reconcile_station, reconcile_provisioning
  <2> QED
    BY <1>2, <2>2, <2>3, <2>4, <2>5, <2>6, <2>7, <2>8, <2>9, <2>10 DEF worker_step
<1>3. CASE link_lost \/ restart \/ UNCHANGED vars
  BY <1>3 DEF link_lost, restart
<1> QED BY <1>1, <1>2, <1>3 DEF Next

(* A busy mode always has an owner: a queued item or the worker.           *)
THEOREM BusyAlwaysOwned == Spec => []BusyIsOwned
<1>1. Init => BusyIsOwned
  BY DEF Init, BusyIsOwned, Busy
<1> QED BY <1>1, OwnedNext, IInvCorrect, PTL DEF Spec
-----------------------------------------------------------------------------
(* Mode, station name and error are published together, or not at all.     *)
LEMMA CoherentNext == StatusCoherent /\ [Next]_vars => StatusCoherent'
<1> SUFFICES ASSUME StatusCoherent, [Next]_vars PROVE StatusCoherent'
  OBVIOUS
<1> USE DEF StatusCoherent, Busy
<1>1. CASE ipc_step
  BY <1>1, Events DEF ipc_step, request_boot, request_connect, request_provisioning,
     enqueue_transition, scan_checks_mode, scan_locks, scan_returns
<1>2. CASE worker_step
  <2>1. raises => StatusCoherent'
    BY DEF raises, leaves_by_exception, leaves_to_work_loop
  <2>2. CASE process_next_gets \/ process_next_locks \/ has_saved_station \/ unlock
             \/ reconcile_reads_mode \/ reconcile_locks \/ active_station_ssid
             \/ provisioning_ready \/ activate_provisioning
    BY <2>1, <2>2 DEF process_next_gets, process_next_locks, has_saved_station, unlock,
       reconcile_reads_mode, reconcile_locks, active_station_ssid, provisioning_ready,
       activate_provisioning
  <2>3. CASE process_boot_without_network \/ station_timeout
    BY <2>1, <2>3, Events DEF process_boot_without_network, station_timeout
  <2>4. CASE activate_saved_station \/ connect_station
    BY <2>1, <2>4 DEF activate_saved_station, connect_station, activates_station
  <2>5. CASE station_connected
    BY <2>1, <2>5, Events DEF station_connected
  <2>6. CASE restore_provisioning
    BY <2>1, <2>6, Events DEF restore_provisioning, publishes, NoError
  <2>7. CASE recover_unexpected_failure
    BY <2>7 DEF recover_unexpected_failure, NoError
  <2>8. CASE reconcile_station
    BY <2>8, Events DEF reconcile_station
  <2>9. CASE reconcile_provisioning
    BY <2>9, Events DEF reconcile_provisioning
  <2> QED
    BY <1>2, <2>2, <2>3, <2>4, <2>5, <2>6, <2>7, <2>8, <2>9 DEF worker_step
<1>3. CASE link_lost \/ restart \/ UNCHANGED vars
  BY <1>3 DEF link_lost, restart
<1> QED
  BY <1>1, <1>2, <1>3 DEF Next

(* A station name never accompanies the setup AP or an error, an error has *)
(* a reason and a connection has none, on every path that publishes.       *)
THEOREM StatusIsCoherent == Spec => []StatusCoherent
<1>1. Init => StatusCoherent
  BY DEF Init, StatusCoherent
<1> QED
  BY <1>1, CoherentNext, PTL DEF Spec

-----------------------------------------------------------------------------
(* NetworkController implements WorkController.                            *)

(* Which item the worker has, as far as the refinement needs it; nothing   *)
(* is served before boot was requested; and while the worker looks after   *)
(* the link, an item in the queue means that a request moved the mode.     *)
ItemInv ==
    /\ ipc = "boot" <=> mode = "UNCONFIGURED"
    /\ ipc = "boot" => /\ work = <<>> /\ seen = "UNCONFIGURED"
                       /\ pc \in {"get", "reconcile_lock", "unlock"}
    /\ pc \in ProcessLabels => item.kind \in {"BOOT", "CONNECT"}
    /\ pc \in {"reconcile_lock"} \cup ReconcileLabels /\ work # <<>> => mode \in Busy

(* What the mode table and the queue do to a request.                      *)
LEMMA Enqueued ==
    ASSUME TypeOK, NEW w \in WorkItems, NEW event, enqueue_transition(w, event)
    PROVE  work = <<>> /\ work' = <<w>> /\ work' # <<>> /\ Head(work') = w
<1>1. work = <<>>
  BY DEF enqueue_transition, QueueSize, TypeOK
<1>2. work' = <<w>>
  BY <1>1 DEF enqueue_transition
<1> QED
  BY <1>1, <1>2

LEMMA ItemNext == IInv /\ ItemInv /\ [Next]_vars => ItemInv'
<1> SUFFICES ASSUME IInv, ItemInv, [Next]_vars PROVE ItemInv'
  OBVIOUS
<1>0. TypeOK /\ LockInv
  BY DEF IInv
<1> USE DEF ItemInv, RestoreLabels, ProcessLabels, ReconcileLabels, Busy, Settled
<1>1. CASE ipc_step
  <2>1. CASE request_boot
    <3>1. mode' = "STATION_CONNECTING"
      BY <2>1, Events DEF request_boot, enqueue_transition
    <3> QED
      BY <2>1, <3>1 DEF request_boot
  <2>2. ASSUME NEW s \in Ssids, request_connect(s) PROVE ItemInv'
    <3>1. mode' = "TRANSITION"
      BY <2>2, Events DEF request_connect, enqueue_transition
    <3> QED
      BY <2>2, <3>1 DEF request_connect
  <2>3. CASE request_provisioning
    <3>1. mode' = "TRANSITION"
      BY <2>3, Events DEF request_provisioning, enqueue_transition
    <3> QED
      BY <2>3, <3>1 DEF request_provisioning
  <2>4. CASE scan_checks_mode \/ scan_locks \/ scan_returns
    BY <2>4 DEF scan_checks_mode, scan_locks, scan_returns
  <2> QED BY <1>1, <2>1, <2>2, <2>3, <2>4 DEF ipc_step
<1>2. CASE worker_step
  <2>1. ASSUME raises, UNCHANGED <<work, ipc>>, ipc # "boot" PROVE ItemInv'
    BY <2>1 DEF raises, leaves_by_exception, leaves_to_work_loop
  <2>2. CASE process_next_gets \/ process_next_locks \/ unlock
    BY <2>2 DEF process_next_gets, process_next_locks, unlock
  <2>3. CASE has_saved_station
    BY <2>1, <2>3 DEF has_saved_station
  <2>4. CASE process_boot_without_network
    BY <2>1, <2>4, Events DEF process_boot_without_network
  <2>5. CASE activate_saved_station \/ connect_station
    BY <2>1, <2>5 DEF activate_saved_station, connect_station, activates_station
  <2>6. CASE station_connected \/ station_timeout
    BY <2>1, <2>6, Events DEF station_connected, station_timeout
  <2>7. CASE activate_provisioning \/ recover_unexpected_failure
    BY <2>7 DEF activate_provisioning, recover_unexpected_failure
  <2>8. CASE restore_provisioning
    BY <2>1, <2>8, Events DEF restore_provisioning, publishes
  <2>9. CASE reconcile_reads_mode \/ reconcile_locks
    BY <2>9 DEF reconcile_reads_mode, reconcile_locks
  <2>10. CASE active_station_ssid \/ provisioning_ready
    BY <2>10 DEF active_station_ssid, provisioning_ready
  <2>11. CASE reconcile_station \/ reconcile_provisioning
    BY <2>11, Events DEF reconcile_station, reconcile_provisioning
  <2> QED
    BY <1>2, <2>2, <2>3, <2>4, <2>5, <2>6, <2>7, <2>8, <2>9, <2>10, <2>11
       DEF worker_step
<1>3. CASE link_lost \/ restart \/ UNCHANGED vars
  BY <1>3 DEF link_lost, restart
<1> QED BY <1>1, <1>2, <1>3 DEF Next

(* What the items ask for.                                                 *)
LEMMA Kinds ==
    /\ \A w \in WorkItems : w # Nothing /\ (w.kind # "PROVISIONING" => Work!Joins(w))
    /\ Recovery # Nothing
    /\ \A s \in Ssids : Connect(s) \in Requests /\ Asks[Connect(s)] = "connect"
    /\ Provisioning \in Requests /\ Asks[Provisioning] = "provisioning"
<1> USE DEF WorkItems, Boot, Connect, Provisioning, Nothing, Recovery, Requests
<1>1. \A s \in Ssids : Connect(s) \in Requests /\ Asks[Connect(s)] = "connect"
  BY DEF Asks
<1>2. Provisioning \in Requests /\ Asks[Provisioning] = "provisioning"
  BY DEF Asks
<1>3. \A w \in WorkItems : w # Nothing /\ (w.kind # "PROVISIONING" => Work!Joins(w))
  BY <1>1 DEF Work!Joins
<1> QED
  BY <1>1, <1>2, <1>3

(* What WorkController sees. *)
Public == <<Asks, PublicMode, Queued, Running>>

(* Each request moves the mode and fills the queue at once.                *)
LEMMA RequestsImplement ==
    IInv /\ ItemInv /\ ipc_step => Work!Next \/ UNCHANGED Public
<1> SUFFICES ASSUME IInv, ItemInv, ipc_step PROVE Work!Next \/ UNCHANGED Public
  OBVIOUS
<1>0. TypeOK /\ Running' = Running
  BY DEF IInv, ipc_step, request_boot, request_connect, request_provisioning,
         scan_checks_mode, scan_locks, scan_returns, Running, WorkerEngaged
<1>1. CASE request_boot
  <2>1. mode' = "STATION_CONNECTING" /\ ipc = "boot" /\ ipc' = "accept"
    BY <1>1, Events DEF request_boot, enqueue_transition
  <2>2. work' # <<>> /\ Head(work') = Boot
    BY <1>0, <1>1, Enqueued DEF request_boot, WorkItems
  <2> QED
    BY <1>0, <2>1, <2>2 DEF ItemInv, Public, PublicMode, Queued
<1>2. ASSUME NEW w \in Requests, NEW event, enqueue_transition(w, event),
             ipc = "accept", ipc' = "accept", mode # "UNCONFIGURED",
             mode' = "TRANSITION", Asks[w] \in {"connect", "provisioning"},
             mode \in Work!Allowed(Asks[w])
      PROVE  Work!request(w)
  <2>1. work = <<>> /\ work' # <<>> /\ Head(work') = w
    BY <1>0, <1>2, Enqueued DEF WorkItems, Requests
  <2> QED
    BY <1>0, <1>2, <2>1 DEF Work!request, Work!Changes, PublicMode, Queued
<1>3. ASSUME NEW s \in Ssids, request_connect(s) PROVE Work!Next
  <2>1. mode \in Settled /\ mode' = "TRANSITION"
    BY <1>3, Events DEF request_connect, enqueue_transition
  <2>2. Work!request(Connect(s))
    BY <1>2, <1>3, <2>1, Kinds
       DEF request_connect, Settled, Work!Allowed, Work!SettledModes
  <2> QED
    BY <2>2, Kinds DEF Work!Next
<1>4. CASE request_provisioning
  <2>1. /\ mode \in {"STATION_CONNECTING", "STATION_CONNECTED", "ERROR"}
        /\ mode' = "TRANSITION"
    BY <1>0, <1>4, Events
       DEF request_provisioning, enqueue_transition, TypeOK, Modes, ItemInv
  <2>2. Work!request(Provisioning)
    BY <1>2, <1>4, <2>1, Kinds DEF request_provisioning, Work!Allowed
  <2> QED
    BY <2>2, Kinds DEF Work!Next
<1>5. CASE scan_checks_mode \/ scan_locks \/ scan_returns
  BY <1>0, <1>5 DEF scan_checks_mode, scan_locks, scan_returns, Public, PublicMode, Queued,
                    status
<1> QED BY <1>1, <1>3, <1>4, <1>5 DEF ipc_step

(* An exception outside the work loop's reach leaves the item with the     *)
(* worker: it is the recovery that ends it.                                *)
LEMMA RaisingKeeps ==
    ASSUME IInv, ItemInv, raises, UNCHANGED <<work, ipc>>, pc \notin {"recover", "unlock"},
           task = "process", WorkerEngaged
    PROVE  UNCHANGED Public
BY DEF raises, leaves_by_exception, leaves_to_work_loop, Public, PublicMode, Queued, Running,
       WorkerEngaged, status

(* The worker takes an item, moves the mode once or twice and publishes.   *)
LEMMA WorkerImplements ==
    IInv /\ ItemInv /\ worker_step => Work!Next \/ UNCHANGED Public
<1> SUFFICES ASSUME IInv, ItemInv, worker_step PROVE Work!Next \/ UNCHANGED Public
  OBVIOUS
<1>0. TypeOK /\ LockInv /\ ScanInv
  BY DEF IInv
<1>1. /\ \A w \in WorkItems : w # Nothing /\ (w.kind # "PROVISIONING" => Work!Joins(w))
      /\ Recovery # Nothing /\ item \in WorkItems
  BY <1>0, Kinds DEF TypeOK
<1> USE DEF RestoreLabels, ProcessLabels, ReconcileLabels
(* Steps that leave the mode, the queue and the item alone. *)
<1>2. ASSUME UNCHANGED <<mode, work, ipc, item, task>>, WorkerEngaged' <=> WorkerEngaged
      PROVE  UNCHANGED Public
  BY <1>2 DEF Public, PublicMode, Queued, Running
<1>3. ASSUME UNCHANGED <<mode, work, ipc>>, ~ WorkerEngaged, ~ WorkerEngaged'
      PROVE  UNCHANGED Public
  BY <1>3 DEF Public, PublicMode, Queued, Running
(* Between process_lock and the published mode, the item is the worker's.  *)
<1>4. ASSUME WorkerEngaged
      PROVE  /\ ipc # "boot" /\ PublicMode = mode
             /\ Running = IF task = "reconcile" THEN Recovery ELSE item
             /\ Running # Nothing
  BY <1>0, <1>1, <1>4 DEF WorkerEngaged, ItemInv, PublicMode, Running
<1>5. ASSUME WorkerEngaged, UNCHANGED <<work, ipc>>, mode' # "UNCONFIGURED"
      PROVE  PublicMode' = mode' /\ Queued' = Queued
  BY <1>5 DEF PublicMode, Queued
<1>6. ASSUME WorkerEngaged, WorkerEngaged', UNCHANGED <<work, ipc, item, task>>,
             mode' = "TRANSITION", mode \in Busy
      PROVE  Work!Next \/ UNCHANGED Public
  <2>1. Running' = Running
    BY <1>6 DEF Running
  <2>2. CASE mode = "TRANSITION"
    BY <1>2, <1>6, <2>2
  <2>3. CASE mode = "STATION_CONNECTING"
    <3>1. Work!item_moves
      BY <1>4, <1>5, <1>6, <2>1, <2>3 DEF Work!item_moves
    <3> QED
      BY <3>1 DEF Work!Next
  <2> QED
    BY <1>6, <2>2, <2>3 DEF Busy
<1>7. ASSUME WorkerEngaged, ~ WorkerEngaged', UNCHANGED <<work, ipc>>,
             \/ mode = "TRANSITION" /\ mode' \in {"PROVISIONING_AP", "ERROR"}
             \/ mode \notin Busy /\ mode' = "ERROR"
             \/ mode \in Busy /\ mode' = "STATION_CONNECTED" /\ pc \in ProcessLabels
      PROVE  Work!Next
  <2>1. Running' = Nothing
    BY <1>7 DEF Running
  <2>2. pc \in ProcessLabels => Work!Joins(Running)
    BY <1>0, <1>1, <1>4, <1>7 DEF ItemInv, LockInv
  <2>3. Work!item_ends
    BY <1>4, <1>5, <1>7, <2>1, <2>2 DEF Work!item_ends, Work!BusyModes, Busy
  <2> QED
    BY <2>3 DEF Work!Next
<1>8. CASE process_next_gets
  <2>1. PICK w \in WorkItems : work = <<w>>
    BY <1>0, <1>8 DEF process_next_gets, TypeOK
  <2>2. work # <<>> /\ Head(work) = w /\ work' = <<>>
    BY <1>8, <2>1 DEF process_next_gets
  <2>3. ipc # "boot" /\ ipc' = ipc /\ mode' = mode
    BY <1>8, <2>2 DEF process_next_gets, ItemInv, status
  <2>4. Queued = w /\ Queued' = Nothing /\ w # Nothing
    BY <1>1, <2>2, <2>3 DEF Queued
  <2>5. Running = Nothing /\ Running' = w
    <3>1. pc = "get" /\ pc' = "process_lock" /\ item' = w /\ task' = task /\ task = "none"
      BY <1>0, <1>8, <2>2 DEF process_next_gets, LockInv
    <3> QED
      BY <3>1 DEF Running, WorkerEngaged
  <2>6. Work!process_next
    BY <2>3, <2>4, <2>5 DEF Work!process_next, PublicMode
  <2> QED
    BY <2>6 DEF Work!Next
<1>9. CASE process_next_locks
  <2>1. /\ WorkerEngaged /\ WorkerEngaged' /\ task = "none" /\ task' = "process"
        /\ UNCHANGED <<mode, work, ipc, item>>
    BY <1>0, <1>9 DEF process_next_locks, WorkerEngaged, status, LockInv
  <2> QED
    BY <2>1 DEF Public, PublicMode, Queued, Running
<1>10. CASE unlock
  BY <1>3, <1>10 DEF unlock, WorkerEngaged, status
<1>11. CASE has_saved_station
  <2>1. WorkerEngaged /\ task = "process" /\ UNCHANGED <<work, ipc>>
    BY <1>0, <1>11 DEF has_saved_station, WorkerEngaged, LockInv
  <2>2. CASE raises
    BY <1>11, <2>1, <2>2, RaisingKeeps DEF has_saved_station
  <2>3. CASE ~ raises
    BY <1>2, <1>11, <2>1, <2>3 DEF has_saved_station, WorkerEngaged, status
  <2> QED BY <2>2, <2>3
<1>12. CASE process_boot_without_network
  <2>1. WorkerEngaged /\ task = "process" /\ UNCHANGED <<work, ipc>>
    BY <1>0, <1>12 DEF process_boot_without_network, WorkerEngaged, LockInv
  <2>2. CASE raises
    BY <1>12, <2>1, <2>2, RaisingKeeps DEF process_boot_without_network
  <2>3. CASE ~ raises
    <3>1. /\ mode \in Busy /\ mode' = "TRANSITION" /\ UNCHANGED <<item, task>>
          /\ WorkerEngaged'
      BY <1>12, <2>3, Events DEF process_boot_without_network, Busy, WorkerEngaged
    <3> QED BY <1>6, <2>1, <3>1
  <2> QED BY <2>2, <2>3
<1>13. CASE activate_saved_station \/ connect_station
  <2>1. /\ WorkerEngaged /\ task = "process" /\ UNCHANGED <<work, ipc>>
        /\ pc \in ProcessLabels
    BY <1>0, <1>13
       DEF activate_saved_station, connect_station, activates_station, WorkerEngaged, LockInv
  <2>2. CASE raises
    BY <2>1, <2>2, RaisingKeeps
  <2>3. CASE ~ raises
    <3>1. UNCHANGED <<mode, item, task>> /\ WorkerEngaged'
      BY <1>13, <2>3
         DEF activate_saved_station, connect_station, activates_station, WorkerEngaged, status
    <3> QED BY <1>2, <2>1, <3>1
  <2> QED BY <2>2, <2>3
<1>14. CASE station_connected
  <2>1. WorkerEngaged /\ task = "process" /\ UNCHANGED <<work, ipc>>
    BY <1>0, <1>14 DEF station_connected, WorkerEngaged, LockInv
  <2>2. CASE raises
    BY <1>14, <2>1, <2>2, RaisingKeeps DEF station_connected
  <2>3. CASE ~ raises
    <3>1. /\ mode \in Busy /\ mode' = "STATION_CONNECTED" /\ ~ WorkerEngaged'
          /\ pc \in ProcessLabels
      BY <1>14, <2>3, Events DEF station_connected, WorkerEngaged
    <3> QED BY <1>7, <2>1, <3>1
  <2> QED BY <2>2, <2>3
<1>15. CASE station_timeout
  <2>1. WorkerEngaged /\ task = "process" /\ UNCHANGED <<work, ipc>>
    BY <1>0, <1>15 DEF station_timeout, WorkerEngaged, LockInv
  <2>2. CASE raises
    BY <1>15, <2>1, <2>2, RaisingKeeps DEF station_timeout
  <2>3. CASE ~ raises
    <3>1. /\ Apply("STATION_TIMEOUT") /\ mode' = "TRANSITION" /\ UNCHANGED <<item, task>>
          /\ WorkerEngaged' /\ pc \in ProcessLabels
      BY <1>15, <2>3, Events DEF station_timeout, WorkerEngaged
    <3>2. mode \in Busy \cup {"STATION_CONNECTED"}
      BY <3>1 DEF Apply, Transitions, Busy
    <3>3. CASE mode \in Busy
      BY <1>6, <2>1, <3>1, <3>3
    <3>4. CASE mode = "STATION_CONNECTED"
      <4>1. Running' = Running /\ Work!Joins(Running)
        BY <1>1, <1>4, <2>1, <3>1 DEF Running, ItemInv
      <4>2. Work!item_moves
        BY <1>4, <1>5, <2>1, <3>1, <3>4, <4>1 DEF Work!item_moves
      <4> QED BY <4>2 DEF Work!Next
    <3> QED BY <3>2, <3>3, <3>4
  <2> QED BY <2>2, <2>3
<1>16. CASE activate_provisioning
  BY <1>2, <1>16 DEF activate_provisioning, WorkerEngaged, status
<1>17. CASE restore_provisioning
  <2>1. WorkerEngaged /\ UNCHANGED <<work, ipc>> /\ pc \in RestoreLabels
    BY <1>17 DEF restore_provisioning, publishes, WorkerEngaged
  <2>2. CASE mode = "TRANSITION"
    <3>1. mode' \in {"PROVISIONING_AP", "ERROR"} /\ ~ WorkerEngaged'
      BY <1>17, <2>2, Events DEF restore_provisioning, publishes, WorkerEngaged
    <3> QED BY <1>7, <2>1, <2>2, <3>1
  <2>3. CASE mode # "TRANSITION"
    <3>1. raises
      BY <1>17, <2>3, Events DEF restore_provisioning, publishes
    <3>2. task = "process"
      BY <1>0, <2>1, <2>3 DEF ScanInv, LockInv, TypeOK
    <3> QED BY <2>1, <3>1, <3>2, RaisingKeeps
  <2> QED BY <2>2, <2>3
<1>18. CASE recover_unexpected_failure
  <2>1. WorkerEngaged /\ UNCHANGED <<work, ipc, item, task>>
    BY <1>18 DEF recover_unexpected_failure, WorkerEngaged
  <2>2. CASE mode \in Busy
    <3>1. mode' = "TRANSITION" /\ WorkerEngaged'
      BY <1>18, <2>2 DEF recover_unexpected_failure, WorkerEngaged
    <3> QED BY <1>6, <2>1, <2>2, <3>1
  <2>3. CASE mode \notin Busy
    <3>1. mode' = "ERROR" /\ ~ WorkerEngaged'
      BY <1>18, <2>3 DEF recover_unexpected_failure, WorkerEngaged
    <3> QED BY <1>7, <2>1, <2>3, <3>1
  <2> QED BY <2>2, <2>3
<1>19. CASE \/ reconcile_reads_mode \/ reconcile_locks
            \/ active_station_ssid \/ provisioning_ready
  BY <1>3, <1>19
     DEF reconcile_reads_mode, reconcile_locks, active_station_ssid, provisioning_ready,
         WorkerEngaged, status
(* The link is lost, and no request came in between. *)
<1>20. ASSUME mode \in Settled, mode' = "TRANSITION", pc \in ReconcileLabels,
              pc' = "activate_provisioning", UNCHANGED <<work, ipc, task>>
       PROVE  Work!Next
  <2>1. work = <<>> /\ ipc # "boot"
    BY <1>20 DEF ItemInv, Settled, Busy
  <2>2. Queued = Nothing /\ Queued' = Nothing
    BY <1>20, <2>1 DEF Queued
  <2>3. Running = Nothing /\ Running' = Recovery
    BY <1>0, <1>20 DEF Running, WorkerEngaged, LockInv
  <2>4. Work!reconcile
    BY <1>20, <2>2, <2>3 DEF Work!reconcile, Work!SettledModes, PublicMode, Settled
  <2> QED BY <2>4 DEF Work!Next
<1>21. CASE reconcile_station
  <2>1. pc \in ReconcileLabels /\ UNCHANGED <<work, ipc, task>>
    BY <1>21 DEF reconcile_station
  <2>2. CASE mode = "STATION_CONNECTED" /\ got = NoSsid
    BY <1>20, <1>21, <2>1, <2>2, Events DEF reconcile_station, Settled
  <2>3. CASE ~ (mode = "STATION_CONNECTED" /\ got = NoSsid)
    BY <1>3, <1>21, <2>1, <2>3 DEF reconcile_station, WorkerEngaged
  <2> QED BY <2>2, <2>3
<1>22. CASE reconcile_provisioning
  <2>1. pc \in ReconcileLabels /\ UNCHANGED <<work, ipc, task>>
    BY <1>22 DEF reconcile_provisioning
  <2>2. CASE mode = "PROVISIONING_AP"
    BY <1>20, <1>22, <2>1, <2>2, Events DEF reconcile_provisioning, Settled
  <2>3. CASE mode # "PROVISIONING_AP"
    BY <1>3, <1>22, <2>1, <2>3 DEF reconcile_provisioning, WorkerEngaged
  <2> QED BY <2>2, <2>3
<1> QED
  BY <1>8, <1>9, <1>10, <1>11, <1>12, <1>13, <1>14, <1>15, <1>16, <1>17, <1>18, <1>19,
     <1>21, <1>22
     DEF worker_step

(* Whatever the interleaving of the two threads, and wherever the backend  *)
(* fails: an item is taken once and ends once, with a mode its kind may    *)
(* end in, and reconcile never recovers a link that a request is changing. *)
THEOREM ItemsAreWhole == Spec => RunsWholeItems
<1>1. Init => ItemInv /\ Work!Init
  <2> SUFFICES ASSUME Init PROVE ItemInv /\ Work!Init
    OBVIOUS
  <2>1. ItemInv
    BY DEF Init, ItemInv, ProcessLabels, ReconcileLabels
  <2>2. Asks \in [Requests -> {"connect", "provisioning"}]
    BY DEF Asks
  <2>3. ~ WorkerEngaged
    BY DEF Init, WorkerEngaged, RestoreLabels, ProcessLabels
  <2> QED
    BY <2>1, <2>2, <2>3 DEF Init, Work!Init, PublicMode, Queued, Running
<1>2. IInv /\ ItemInv /\ [Next]_vars => ItemInv' /\ [Work!Next]_Public
  <2> SUFFICES ASSUME IInv, ItemInv, [Next]_vars PROVE Work!Next \/ UNCHANGED Public
    BY ItemNext DEF Public
  <2>1. CASE link_lost \/ UNCHANGED vars
    BY <2>1 DEF link_lost, Public, PublicMode, Queued, Running, WorkerEngaged
  <2>2. CASE restart
    <3>1. Work!restart
      BY <2>2 DEF restart, Work!restart, PublicMode, Queued, Running, WorkerEngaged,
                  RestoreLabels, ProcessLabels
    <3> QED BY <3>1 DEF Work!Next
  <2> QED BY <2>1, <2>2, RequestsImplement, WorkerImplements DEF Next
<1> QED
  BY <1>1, <1>2, IInvCorrect, PTL DEF Spec, RunsWholeItems, Work!Spec, Public

-----------------------------------------------------------------------------
(* What the page is told of these states.  PollIsServed needs only the     *)
(* type invariant, whatever the names and the local files are.             *)

(* Every field of the daemon's answer passes the client's check.           *)
LEMMA SnapshotPasses ==
    ASSUME TypeOK
    PROVE  validate_status_response(_snapshot_response(_snapshot_locked))
BY DEF TypeOK, validate_status_response, _snapshot_response, _snapshot_locked, StatusFields,
       _optional_reason, _required_reason, Reasons

(* What the API answers about the network, with or without the daemon.     *)
LEMMA NetworkFits ==
    ASSUME TypeOK, NEW provider \in Providers, NEW answered \in BOOLEAN,
           NEW address \in Addresses
    PROVE  LET answer == get_network(provider, answered, address)
           IN  /\ NetworkResponse(answer)
               /\ provider = "pi" /\ answered =>
                     <<answer.mode, answer.station_ssid, answer.last_error>> = status
<1> USE DEF get_network, NetworkResponse, Network, Availability
<1>1. CASE provider = "gate1"
  BY <1>1 DEF unavailable_network, Modes
<1>2. CASE provider = "pi" /\ answered
  <2> DEFINE response == _snapshot_response(_snapshot_locked)
  <2>1. validate_status_response(response)
    BY SnapshotPasses
  <2>2. response.mode = mode /\ response.station_ssid = stationSsid
          /\ response.last_error = lastError
    BY DEF _snapshot_response, _snapshot_locked
  <2>3. _network_availability(mode) \in Availability
    BY DEF TypeOK, Modes, _network_availability, Settled, Busy
  <2>4. get_network(provider, answered, address) =
          Network(_network_availability(mode), mode, TRUE, response.provisioning_ap_active,
                  stationSsid, lastError)
    BY <1>2, <2>1, <2>2 DEF pi_network
  <2> QED
    BY <2>3, <2>4 DEF TypeOK, Reasons, status
<1>3. CASE provider = "pi" /\ ~ answered
  BY <1>3 DEF pi_network, _network_fallback, Modes
<1> QED
  BY <1>1, <1>2, <1>3 DEF Providers

(* What it answers about the system fits, whatever the local files contain, *)
(* except for the file whose name and version are too long together.       *)
LEMMA SystemFits ==
    ASSUME NEW provider \in Providers, NEW file \in OsReleases, NEW value \in Temperatures
    PROVE  SystemResponse(get_system(provider, file, value))
               <=> ~ (provider = "pi" /\ TooLongTogether(file))
<1> USE DEF get_system, SystemResponse, Availability
<1>1. CASE provider = "gate1"
  BY <1>1 DEF unavailable_system
<1>2. CASE provider = "pi"
  <2> DEFINE os_version == _os_identification(file)
  <2>1. (os_version = Absent \/ os_version \in 0 .. ShownMax) <=> ~ TooLongTogether(file)
    <3>1. CASE file = Absent
      BY <3>1 DEF _os_identification, TooLongTogether
    <3>2. CASE file # Absent
      <4>1. file \in [PRETTY_NAME : Nat, NAME : Nat, VERSION_ID : Nat] /\ ShownMax \in Nat
        BY <3>2, OsReleaseAssumption
      <4> QED
        BY <3>2, <4>1, TemperatureAssumption DEF _os_identification, Cut, TooLongTogether
    <3> QED
      BY <3>1, <3>2
  <2>2. _temperature_c(value) = Absent \/ _temperature_c(value) \in Plausible
    BY DEF _temperature_c
  <2> QED
    BY <1>2, <2>1, <2>2 DEF pi_system
<1> QED
  BY <1>1, <1>2 DEF Providers

(* The status beside an accepted change passes as the status itself does.  *)
LEMMA ActionsPass ==
    ASSUME TypeOK, NEW reason \in AcceptedReasons
    PROVE  validate_action_response(ActionResponse(reason))
<1> DEFINE response == ActionResponse(reason)
           snapshot == _snapshot_response(_snapshot_locked)
           rest == [field \in DOMAIN response \ {"accepted", "reason"} |-> response[field]]
<1>1. DOMAIN response = StatusFields \cup {"accepted", "reason"}
  BY DEF ActionResponse
<1>2. response["accepted"] = TRUE
  BY DEF ActionResponse
<1>3. response["reason"] = reason
  BY DEF ActionResponse
<1>4. DOMAIN rest = StatusFields
  BY <1>1 DEF StatusFields
<1>5. \A field \in StatusFields : rest[field] = snapshot[field]
  BY <1>4 DEF ActionResponse, StatusFields
<1>6. validate_status_response(rest)
  BY <1>4, <1>5, SnapshotPasses DEF validate_status_response, StatusFields
<1> QED
  BY <1>1, <1>2, <1>3, <1>6 DEF validate_action_response, _required_reason, Reasons

(* So the API tells the page that the change was accepted.                 *)
LEMMA ActionsFit ==
    ASSUME TypeOK, NEW reason \in AcceptedReasons
    PROVE  LET answer == post_change("pi", reason)
           IN  answer.code = 202 /\ NetworkActionResponse(answer)
<1> DEFINE response == ActionResponse(reason)
<1>1. validate_action_response(response)
  BY ActionsPass
<1>2. response["accepted"] = TRUE /\ response["reason"] = reason /\ response["mode"] = mode
  BY DEF ActionResponse, StatusFields, _snapshot_response, _snapshot_locked
<1>3. mode \in Modes /\ reason \in Reasons
  BY DEF TypeOK, Reasons
<1> QED
  BY <1>1, <1>2, <1>3 DEF post_change, NetworkActionResponse

(* The page's headline is fixed, and fits.                                 *)
LEMMA StatusFits == StatusResponse(get_status)
BY DEF StatusResponse, get_status, NOT_INTEGRATED, Availability

(* No state of the daemon costs the page its answers, and only one kind of *)
(* local file does: a poll is answered, and an accepted change is not      *)
(* reported as refused.                                                    *)
THEOREM PollsAreServed == Spec => []PollIsServed
<1>1. TypeOK => PollIsServed
  BY NetworkFits, SystemFits, ActionsFit, StatusFits DEF PollIsServed
<1> QED
  BY <1>1, TypeCorrect, PTL
=============================================================================
