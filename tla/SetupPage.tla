------------------------------- MODULE SetupPage -------------------------------
(***************************************************************************)
(* The browser page (setup-ui/rave_web/static/app.js) in front of the      *)
(* management API: its polling of the appliance, its staleness timer, its  *)
(* Wi-Fi scan, and its two network actions with the message that follows   *)
(* them.  Of the API there is the report that GET /network computes, and   *)
(* whether a POST is accepted; NetworkIpc and NetworkController have what  *)
(* is behind it.  Handlers are atomic (one event loop), and run when their *)
(* timer is due.  Timers count down in ticks; Off is a timer that is not   *)
(* armed.                                                                  *)
(***************************************************************************)
EXTENDS Naturals

CONSTANTS
    FetchTimeout,   \* FETCH_TIMEOUT_MS, of a poll
    RetryDelay,     \* FAILURE_RETRY_MS, after a failed poll or during a scan
    PollDelay,      \* half of valid_for_ms, within MIN_POLL_MS and MAX_POLL_MS
    ValidFor,       \* valid_for_ms of the status
    ScanTimeout,    \* WIFI_SCAN_REQUEST_TIMEOUT_MS
    PostTimeout,    \* NETWORK_ACTION_REQUEST_TIMEOUT_MS
    ActionTimeout,  \* NETWORK_ACTION_TIMEOUT_MS
    Off,
    MaxScans,       \* bound on the scans, and
    MaxActions      \* on the network actions, that the user asks for

ASSUME DelayAssumption ==
    /\ FetchTimeout \in Nat \ {0} /\ RetryDelay \in Nat \ {0} /\ PollDelay \in Nat \ {0}
    /\ ValidFor \in Nat \ {0} /\ ScanTimeout \in Nat \ {0}
    /\ PostTimeout \in Nat \ {0} /\ ActionTimeout \in Nat \ {0}
ASSUME OffAssumption == Off \notin Nat
ASSUME BoundAssumption == MaxScans \in Nat /\ MaxActions \in Nat

VARIABLES
    network,    \* what GET /network would answer now
    poll,       \* the poll: waiting for its timer, sent, or answered
    pollTimer,  \* until the next poll, or until this one is aborted
    answer,     \* what the server answered, and how long ago
    shown,      \* what the page shows as current, and how long ago it was
    staleTimer,
    scan,       \* the timeout of the scan in progress
    list,       \* what the last scan found to select from
    post,       \* each action's request
    postTimer,
    deadline,   \* networkActionDeadline: 0 when performance.now() is past it
    message,    \* what #network-action-status says
    asked       \* how often the user asked for a scan and for an action

polling == <<poll, pollTimer, answer>>
showing == <<shown, staleTimer>>
posting == <<post, postTimer>>
acting == <<deadline, message>>
scanning == <<scan, list>>
vars == <<network, polling, showing, scanning, posting, acting, asked>>

(* NetworkResponse, with the error of a failed attempt told apart. *)
Reports == {"station_connected", "provisioning_ap", "provisioning_ap_with_error",
            "busy", "error"}
PostActions == {"connect", "provisioning"}
Messages == {"none", "scanning", "scanned", "requested", "accepted", "in_progress",
             "confirmed", "failed", "unable_to_confirm"}

Oldest == FetchTimeout + ValidFor + 1
Aged == [report : Reports \cup {"unavailable"}, age : 0 .. Oldest]
Countdown(delay) == 0 .. delay \cup {Off}

TypeOK ==
    /\ network \in Reports
    /\ poll \in {"timer", "sent", "answered"}
    /\ \E d \in {FetchTimeout, RetryDelay, PollDelay} : pollTimer \in Countdown(d)
    /\ answer \in Aged /\ shown \in Aged
    /\ staleTimer \in Countdown(ValidFor)
    /\ scan \in Countdown(ScanTimeout) /\ list \in {"empty", "networks"}
    /\ post \in [PostActions -> {"idle", "sent", "accepted", "refused"}]
    /\ postTimer \in [PostActions -> 0 .. PostTimeout]
    /\ deadline \in Countdown(ActionTimeout)
    /\ message \in Messages
    /\ asked \in [scans : 0 .. MaxScans, actions : 0 .. MaxActions]

Nothing == [report |-> "unavailable", age |-> 0]

(* invalidateDynamic("status_starting") and the first refreshState. *)
Init ==
    /\ network \in Reports
    /\ poll = "sent" /\ pollTimer = FetchTimeout /\ answer = Nothing
    /\ shown = Nothing /\ staleTimer = Off
    /\ scan = Off /\ list = "empty"
    /\ post = [a \in PostActions |-> "idle"] /\ postTimer = [a \in PostActions |-> 0]
    /\ deadline = Off /\ message = "none"
    /\ asked = [scans |-> 0, actions |-> 0]

-----------------------------------------------------------------------------
(* The message of a network action *)

updateTransitionMessage_Silent ==
    IF deadline = Off THEN UNCHANGED acting
    ELSE IF deadline > 0 THEN message' = "in_progress" /\ UNCHANGED deadline
    ELSE deadline' = Off /\ UNCHANGED message

(* No verdict yet: in progress, or given up when the deadline is past. *)
updateTransitionMessage ==
    IF deadline = Off THEN UNCHANGED acting
    ELSE IF deadline > 0 THEN message' = "in_progress" /\ UNCHANGED deadline
    ELSE message' = "unable_to_confirm" /\ deadline' = Off

renderNetworkStatus(report) ==
    IF report = "station_connected" /\ deadline # Off
    THEN message' = "confirmed" /\ deadline' = Off
    ELSE IF report = "provisioning_ap_with_error"
    THEN message' = "failed" /\ deadline' = Off
    ELSE updateTransitionMessage

rejectNetworkAction == message' = "unable_to_confirm" /\ deadline' = Off

-----------------------------------------------------------------------------
(* refreshState *)

scheduleRefresh(delay) == poll' = "timer" /\ pollTimer' = delay

(* The overall state and the cards show one report, or that there is none. *)
renders(report) == shown' = report

invalidateDynamic == renders(Nothing) /\ staleTimer' = Off

(* The timer fires; during a scan it is only set again. *)
refreshState_Drops ==
    /\ poll = "timer" /\ pollTimer = 0
    /\ \/ scan # Off /\ scheduleRefresh(Off)
       \/ scan = Off /\ poll' = "sent" /\ pollTimer' = FetchTimeout
    /\ UNCHANGED <<network, answer, showing, scanning, posting, acting, asked>>

refreshState ==
    /\ poll = "timer" /\ pollTimer = 0
    /\ \/ scan # Off /\ scheduleRefresh(RetryDelay)
       \/ scan = Off /\ poll' = "sent" /\ pollTimer' = FetchTimeout
    /\ UNCHANGED <<network, answer, showing, scanning, posting, acting, asked>>

(* The server evaluates the network report... *)
get_network ==
    /\ poll = "sent"
    /\ poll' = "answered" /\ answer' = [report |-> network, age |-> 0]
    /\ UNCHANGED <<network, pollTimer, showing, scanning, posting, acting, asked>>

(* ...and all three answers arrive, are rendered, and are good for a while. *)
installFreshness_Unarmed ==
    renders(answer) /\ UNCHANGED staleTimer

installFreshness == renders(answer) /\ staleTimer' = ValidFor

refresh_succeeds ==
    /\ poll = "answered"
    /\ renderNetworkStatus(answer.report)
    /\ installFreshness
    /\ scheduleRefresh(PollDelay)
    /\ UNCHANGED <<network, answer, scanning, posting, asked>>

(* Any of the three fails, or the fetch timeout aborts them. *)
refresh_fails_KeepsMessage ==
    /\ poll # "timer"
    /\ invalidateDynamic /\ scheduleRefresh(RetryDelay)
    /\ UNCHANGED <<network, answer, scanning, posting, acting, asked>>

refresh_fails ==
    /\ poll # "timer"
    /\ invalidateDynamic /\ updateTransitionMessage
    /\ scheduleRefresh(RetryDelay)
    /\ UNCHANGED <<network, answer, scanning, posting, asked>>

status_stale ==
    /\ staleTimer = 0
    /\ invalidateDynamic
    /\ UNCHANGED <<network, polling, scanning, posting, acting, asked>>

-----------------------------------------------------------------------------
(* scanWifi *)

scanWifi ==
    /\ scan = Off
    /\ asked.scans < MaxScans /\ asked' = [asked EXCEPT !.scans = @ + 1]
    /\ scan' = ScanTimeout /\ message' = "scanning"
    /\ UNCHANGED <<network, polling, showing, list, posting, deadline>>

(* The list arrives, or an error, or the request is aborted. *)
scan_returns ==
    /\ scan # Off
    /\ scan' = Off /\ message' = "scanned"
    /\ list' \in IF scan = 0 THEN {"empty"} ELSE {"empty", "networks"}
    /\ UNCHANGED <<network, polling, showing, posting, deadline, asked>>

-----------------------------------------------------------------------------
(* requestStation and requestProvisioning.  One request of each kind is in *)
(* flight at a time.                                                       *)

(* No network can be selected while the scan is in progress. *)
request(a) ==
    /\ post[a] = "idle" /\ (a = "connect" => list = "networks" /\ scan = Off)
    /\ asked.actions < MaxActions /\ asked' = [asked EXCEPT !.actions = @ + 1]
    /\ deadline' = ActionTimeout /\ message' = "requested"
    /\ post' = [post EXCEPT ![a] = "sent"]
    /\ postTimer' = [postTimer EXCEPT ![a] = PostTimeout]
    /\ UNCHANGED <<network, polling, showing, scanning>>

(* 202 or 503: connect_wifi and enable_provisioning.  A request for the   *)
(* setup AP that is up changes nothing.                                    *)
Moves(a) ==
    IF a = "provisioning" /\ network \in {"provisioning_ap", "provisioning_ap_with_error"}
    THEN network ELSE "busy"

post_is_served(a) ==
    /\ post[a] = "sent"
    /\ \/ /\ a = "connect" => network \notin {"busy", "error"}
          /\ network' = Moves(a) /\ post' = [post EXCEPT ![a] = "accepted"]
       \/ post' = [post EXCEPT ![a] = "refused"] /\ UNCHANGED network
    /\ UNCHANGED <<polling, showing, scanning, postTimer, acting, asked>>

post_succeeds(a) ==
    /\ post[a] = "accepted"
    /\ message' = IF a = "connect" THEN "accepted" ELSE message
    /\ post' = [post EXCEPT ![a] = "idle"]
    /\ UNCHANGED <<network, polling, showing, scanning, postTimer, deadline, asked>>

(* Refused, aborted by the timeout, or cut off with the network. *)
post_fails(a) ==
    /\ post[a] # "idle"
    /\ rejectNetworkAction
    /\ post' = [post EXCEPT ![a] = "idle"]
    /\ UNCHANGED <<network, polling, showing, scanning, postTimer, asked>>

-----------------------------------------------------------------------------
(* The appliance, by itself or for other clients. *)
network_changes ==
    /\ network' \in Reports \ {network}
    /\ UNCHANGED <<polling, showing, scanning, posting, acting, asked>>

Down(timer) == IF timer \in {Off, 0} THEN timer ELSE timer - 1
Older(a) == [a EXCEPT !.age = IF a.report = "unavailable" \/ @ = Oldest THEN @ ELSE @ + 1]

(* Nothing that is due is put off: a timer at 0 fires before time goes on, *)
(* but a deadline is only looked at when a poll ends.                      *)
Due ==
    \/ pollTimer = 0 \/ staleTimer = 0 \/ scan = 0
    \/ \E a \in PostActions : post[a] # "idle" /\ postTimer[a] = 0

tick ==
    /\ ~ Due
    /\ pollTimer' = Down(pollTimer)
    /\ answer' = Older(answer) /\ shown' = Older(shown)
    /\ staleTimer' = Down(staleTimer) /\ scan' = Down(scan)
    /\ postTimer' = [a \in PostActions |-> Down(postTimer[a])]
    /\ deadline' = Down(deadline)
    /\ UNCHANGED <<network, poll, list, post, message, asked>>

(* What the event loop runs when it is due. *)
due_handlers ==
    \/ refreshState
    \/ pollTimer = 0 /\ refresh_fails
    \/ status_stale
    \/ scan = 0 /\ scan_returns
    \/ \E a \in PostActions : postTimer[a] = 0 /\ post_fails(a)

Next ==
    \/ refreshState \/ get_network \/ refresh_succeeds \/ refresh_fails \/ status_stale
    \/ scanWifi \/ scan_returns
    \/ \E a \in PostActions :
            request(a) \/ post_is_served(a) \/ post_succeeds(a) \/ post_fails(a)
    \/ network_changes \/ tick

Spec == Init /\ [][Next]_vars

(* Time goes on and due timers fire.  Nothing is assumed of the appliance: *)
(* no request need ever be answered.                                       *)
FairSpec == Spec /\ WF_vars(due_handlers) /\ WF_vars(tick)

-----------------------------------------------------------------------------
(* Properties *)

(* What the page shows as current was the appliance's own answer at most a *)
(* fetch timeout and a validity ago, also while a scan holds the polling   *)
(* up and while no poll is answered (162-169, 258-262, 297).               *)
ShownIsRecent == shown.report # "unavailable" => shown.age <= FetchTimeout + ValidFor

(* The page says that a transition is in progress only while its deadline  *)
(* is kept: whatever drops the deadline, a poll, a late reply to a POST or *)
(* another action's rejection, also takes that message away (202-243).     *)
InProgressIsPending == message = "in_progress" => deadline # Off

(* The page never stops asking: whatever fails, times out or is scanned,   *)
(* there is another poll (259-262, 302-305), so the scan ends too.         *)
PollingContinues == []<>(poll = "sent")

(* A network action never stays open: with no answer from the appliance    *)
(* at all its deadline passes and is dropped (202-210, 301).               *)
ActionEnds == deadline # Off ~> deadline = Off
================================================================================
