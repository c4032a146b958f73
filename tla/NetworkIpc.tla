------------------------------- MODULE NetworkIpc -------------------------------
(***************************************************************************)
(* The local socket between rave-webd (client.py, called from the request  *)
(* threads of app.py) and the IPC thread of rave-networkd (server.py),     *)
(* which serves one connection at a time, with the controller behind it at *)
(* the grain of whole work items: WorkController, which NetworkController  *)
(* is shown to implement.                                                  *)
(*                                                                         *)
(* A client gives up after its timeout.  What it had sent stays in the     *)
(* socket, where the server finds it when its turn comes.                  *)
(***************************************************************************)
EXTENDS Naturals, Sequences, SequencesExt

CONSTANTS
    Calls,       \* calls of the web process, and of other local processes
    None,
    Boot,        \* the daemon's own work: the first item,
    Recovery,    \* and what reconcile does about a lost link
    Backlog,     \* connections that the listening socket lets wait
    MaxRestarts, \* bound on restarts of the daemon
    MaxLosses    \* bound on lost links

ASSUME NoneAssumption == {None, Boot, Recovery} \cap Calls = {} /\ None \notin {Boot, Recovery}
ASSUME BoundAssumption == Backlog \in Nat \ {0} /\ MaxRestarts \in Nat /\ MaxLosses \in Nat

VARIABLES
    action,    \* what each call asks for
    outcome,   \* what each caller knows of its call
    sent,      \* the calls in the order in which they were sent: history only
    backlog,   \* connections the server has not accepted
    spc,       \* where the IPC thread is
    serving,   \* the connection it serves
    response,  \* its answer
    mode,      \* NetworkController._mode
    queued,    \* the item in its queue
    running,   \* the item the worker has taken
    done,      \* the calls whose work was carried out
    restarts,
    losses

server == <<spc, serving, response>>
controller == <<mode, queued, running, done>>
bounds == <<restarts, losses>>
vars == <<action, outcome, sent, backlog, server, controller, bounds>>

(* "invalid" stands for what parse_request and the peer check refuse,      *)
(* "silent" for a client that connects and sends nothing.                  *)
Changes == {"connect", "provisioning"}
Actions == Changes \cup {"status", "scan", "invalid", "silent"}
Answers == {"answered", "accepted", "rejected"}

Work == INSTANCE WorkController
Items == Calls \cup {Boot, Recovery}

TypeOK ==
    /\ action \in [Calls -> Actions]
    /\ outcome \in [Calls -> {"unused", "waiting", "unavailable"} \cup Answers]
    /\ sent \in Seq(Calls)
    /\ backlog \in Seq(Calls) /\ Len(backlog) <= Backlog
    /\ spc \in {"accept", "receive", "dispatch", "scan", "send"}
    /\ serving \in Calls \cup {None}
    /\ spc = "accept" <=> serving = None
    /\ response \in Answers
    /\ mode \in Work!BusyModes \cup Work!SettledModes \cup {"ERROR"}
    /\ queued \in Items \cup {None} /\ running \in Items \cup {None}
    /\ done \subseteq Calls
    /\ restarts \in 0 .. MaxRestarts /\ losses \in 0 .. MaxLosses

Init ==
    /\ outcome = [c \in Calls |-> "unused"]
    /\ sent = <<>> /\ backlog = <<>>
    /\ spc = "accept" /\ serving = None /\ response = "rejected"
    /\ Work!Init /\ done = {}
    /\ restarts = 0 /\ losses = 0

Learns(c, what) == outcome' = [outcome EXCEPT ![c] = what]

-----------------------------------------------------------------------------
(* NetworkdClient._request *)

(* connect, sendall and shutdown.  The socket has a timeout, so connect    *)
(* fails at once when the backlog is full.                                 *)
connect(c) ==
    /\ outcome[c] = "unused"
    /\ \/ /\ Len(backlog) < Backlog
          /\ backlog' = Append(backlog, c) /\ sent' = Append(sent, c)
          /\ Learns(c, "waiting")
       \/ /\ Len(backlog) = Backlog
          /\ Learns(c, "unavailable") /\ UNCHANGED <<backlog, sent>>
    /\ UNCHANGED <<action, server, controller, bounds>>

(* TimeoutError: NetworkdUnavailable, and a 503 or a fallback above it.    *)
times_out(c) ==
    /\ outcome[c] = "waiting" /\ Learns(c, "unavailable")
    /\ UNCHANGED <<action, sent, backlog, server, controller, bounds>>

-----------------------------------------------------------------------------
(* NetworkdServer.serve and _serve_connection *)

accept ==
    /\ spc = "accept" /\ backlog # <<>>
    /\ serving' = Head(backlog) /\ backlog' = Tail(backlog)
    /\ spc' = "receive"
    /\ UNCHANGED <<action, outcome, sent, response, controller, bounds>>

(* _error_response and _internal_error_response *)
Refuses == response' = "rejected" /\ spc' = "send"
Answer(r) == response' = r /\ spc' = "send"

(* The whole request is there, or the framing timeout ends the wait. *)
_receive_request_NoDeadline ==
    /\ spc = "receive" /\ action[serving] # "silent"
    /\ spc' = "dispatch" /\ UNCHANGED response
    /\ UNCHANGED <<action, outcome, sent, backlog, serving, controller, bounds>>

(* A request that is not complete yet makes room for the next connection. *)
_receive_request_PutsBack ==
    /\ spc = "receive"
    /\ \/ /\ action[serving] = "silent" /\ Refuses /\ UNCHANGED <<backlog, serving>>
       \/ /\ action[serving] # "silent" /\ spc' = "dispatch"
          /\ UNCHANGED <<backlog, serving, response>>
       \/ /\ backlog # <<>> /\ spc' = "accept" /\ serving' = None
          /\ backlog' = Append(backlog, serving) /\ UNCHANGED response
    /\ UNCHANGED <<action, outcome, sent, controller, bounds>>

_receive_request ==
    /\ spc = "receive"
    /\ \/ action[serving] = "silent" /\ Refuses
       \/ action[serving] # "silent" /\ spc' = "dispatch" /\ UNCHANGED response
    /\ UNCHANGED <<action, outcome, sent, backlog, serving, controller, bounds>>

_dispatch_invalid ==
    /\ spc = "dispatch" /\ action[serving] = "invalid"
    /\ Refuses
    /\ UNCHANGED <<action, outcome, sent, backlog, serving, controller, bounds>>

_dispatch_status ==
    /\ spc = "dispatch" /\ action[serving] = "status"
    /\ Answer("answered")
    /\ UNCHANGED <<action, outcome, sent, backlog, serving, controller, bounds>>

(* scan is refused outside the settled modes. *)
_dispatch_scan ==
    /\ spc = "dispatch" /\ action[serving] = "scan"
    /\ \/ mode \notin Work!SettledModes /\ Refuses
       \/ mode \in Work!SettledModes /\ spc' = "scan" /\ UNCHANGED response
    /\ UNCHANGED <<action, outcome, sent, backlog, serving, controller, bounds>>

(* It may have to wait for the operation lock, which the worker leaves     *)
(* between two items at the latest.                                        *)
scan_ends ==
    /\ spc = "scan"
    /\ \E r \in {"answered", "rejected"} : Answer(r)
    /\ UNCHANGED <<action, outcome, sent, backlog, serving, controller, bounds>>

(* request_connect and request_provisioning raise before they queue, for   *)
(* a mode that does not allow the request and for a full queue.            *)
Allowed == mode \in Work!Allowed(action[serving])

Enqueues == Work!request(serving) /\ Answer("accepted") /\ UNCHANGED done

AlreadyProvisioning == action[serving] = "provisioning" /\ mode = "PROVISIONING_AP"

(* The queue of one place takes the newest item. *)
_dispatch_change_Replaces ==
    /\ spc = "dispatch" /\ action[serving] \in Changes
    /\ \/ AlreadyProvisioning /\ Answer("accepted") /\ done' = done \cup {serving}
          /\ UNCHANGED <<mode, queued>>
       \/ /\ ~ AlreadyProvisioning
          /\ queued' = serving /\ mode' = "TRANSITION"
          /\ Answer("accepted") /\ UNCHANGED done
    /\ UNCHANGED <<action, outcome, sent, backlog, serving, running, bounds>>

(* The item is queued before the transition is found to be invalid. *)
_dispatch_change_QueuesFirst ==
    /\ spc = "dispatch" /\ action[serving] \in Changes
    /\ \/ Enqueues
       \/ /\ ~ Allowed /\ Refuses
          /\ queued' = IF queued = None THEN serving ELSE queued
          /\ UNCHANGED <<mode, done>>
       \/ Allowed /\ queued # None /\ Refuses
          /\ UNCHANGED <<mode, queued, done>>
    /\ UNCHANGED <<action, outcome, sent, backlog, serving, running, bounds>>

_dispatch_change ==
    /\ spc = "dispatch" /\ action[serving] \in Changes
    /\ \/ AlreadyProvisioning /\ Answer("accepted") /\ done' = done \cup {serving}
          /\ UNCHANGED <<mode, queued>>
       \/ Enqueues
       \/ /\ ~ AlreadyProvisioning /\ Refuses
          /\ ~ Allowed \/ queued # None
          /\ UNCHANGED <<mode, queued, done>>
    /\ UNCHANGED <<action, outcome, sent, backlog, serving, running, bounds>>

(* A client that is gone does not disturb the server. *)
send ==
    /\ spc = "send"
    /\ IF outcome[serving] = "waiting" THEN Learns(serving, response) ELSE UNCHANGED outcome
    /\ spc' = "accept" /\ serving' = None
    /\ UNCHANGED <<action, sent, backlog, response, controller, bounds>>

ipc_thread ==
    \/ accept \/ _receive_request \/ _dispatch_invalid \/ _dispatch_status
    \/ _dispatch_scan \/ _dispatch_change \/ send

-----------------------------------------------------------------------------
(* The worker thread *)

process_next ==
    /\ Work!process_next
    /\ UNCHANGED <<outcome, sent, backlog, server, done, bounds>>

item_moves ==
    /\ Work!item_moves
    /\ UNCHANGED <<outcome, sent, backlog, server, done, bounds>>

item_ends ==
    /\ Work!item_ends
    /\ done' = done \cup ({running} \cap Calls)
    /\ UNCHANGED <<outcome, sent, backlog, server, bounds>>

reconcile ==
    /\ losses < MaxLosses /\ losses' = losses + 1
    /\ Work!reconcile
    /\ UNCHANGED <<outcome, sent, backlog, server, done, restarts>>

worker == process_next \/ item_moves \/ item_ends \/ reconcile

(* A restart closes every connection and loses the work; the clients see   *)
(* an error.                                                               *)
restart ==
    /\ restarts < MaxRestarts /\ restarts' = restarts + 1
    /\ outcome' = [c \in Calls |->
            IF outcome[c] = "waiting" THEN "unavailable" ELSE outcome[c]]
    /\ backlog' = <<>>
    /\ spc' = "accept" /\ serving' = None
    /\ Work!restart
    /\ UNCHANGED <<sent, response, done, losses>>

Next ==
    \/ \E c \in Calls : connect(c) \/ times_out(c)
    \/ ipc_thread \/ scan_ends \/ worker \/ restart

Spec == Init /\ [][Next]_vars

(* Both threads are scheduled, and commands of the backend are bounded by  *)
(* their timeouts; a scan gets the lock in one of the worker's idle waits. *)
FairSpec ==
    /\ Spec
    /\ WF_vars(ipc_thread) /\ WF_vars(process_next \/ item_moves \/ item_ends)
    /\ SF_vars(running = None /\ scan_ends)

-----------------------------------------------------------------------------
(* Properties *)

(* A change that was answered with an error leaves nothing behind, neither *)
(* queued nor carried out, whoever was served before and after: _enqueue_  *)
(* transition_locked raises before it changes anything (228-237).          *)
RejectedLeavesNothing ==
    \A c \in Calls : outcome[c] = "rejected" => c \notin {queued, running} \cup done

(* A caller is told "accepted" only of work of its own that is queued,     *)
(* under way or done, or was lost in a restart: no later request takes its *)
(* place in the queue (controller.py 228-237).                             *)
AcceptedIsReal ==
    \A c \in Calls : outcome[c] = "accepted" =>
        action[c] \in Changes /\ (c \in {queued, running} \cup done \/ restarts > 0)

(* Once a caller has its answer, nothing that was asked before it can take *)
(* effect any more that has not already: a request whose caller gave up    *)
(* (client.py 74-75) still lies in the socket, but never overtakes a later *)
(* one, so that a status that was answered is not followed by a change     *)
(* which is older than it (server.py 97-107).                              *)
AnsweredInOrder ==
    \A i, j \in DOMAIN sent : i < j /\ outcome[sent[j]] \in Answers =>
        sent[i] \notin {backlog[k] : k \in DOMAIN backlog} \cup {serving}

(* The IPC thread comes back to accept, whatever a client does or fails to *)
(* do (server.py 217-234).                                                 *)
ServerReturns == spc # "accept" ~> spc = "accept"
=============================================================================
