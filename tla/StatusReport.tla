----------------------------- MODULE StatusReport -----------------------------
(***************************************************************************)
(* The three answers that a poll of the page needs, computed from the      *)
(* controller's state and from local files: rave_networkd/server.py, the   *)
(* checks in rave_network_ipc/client.py, rave_web/providers.py and the     *)
(* models and routes of rave_web.  The page shows nothing at all when one  *)
(* of the three is missing (app.js 277-279).  When a poll asks, and what   *)
(* becomes of the answers, is in SetupPage.                                *)
(*                                                                         *)
(* Of a text only its length matters here, in characters; Absent is None.  *)
(***************************************************************************)
EXTENDS NetworkController, Integers

CONSTANTS
    Absent,        \* what cannot be read, or has no value
    OsReleases,    \* /etc/os-release: the lengths of its three values, 0 without one
    Temperatures,  \* thermal_zone0/temp: thousandths of a degree, or Absent
    ShownMax       \* the length at which a value of os-release is cut, and the
                   \* longest os_version that SystemResponse allows

ASSUME OsReleaseAssumption ==
    /\ ShownMax \in Nat
    /\ OsReleases \subseteq [PRETTY_NAME : Nat, NAME : Nat, VERSION_ID : Nat] \cup {Absent}
ASSUME TemperatureAssumption == Temperatures \subseteq Int \cup {Absent} /\ Absent \notin Int

-----------------------------------------------------------------------------
(* The daemon's answers *)

_snapshot_locked ==
    [mode |-> mode, provisioning_ap_active |-> mode = "PROVISIONING_AP",
     station_ssid |-> stationSsid, last_error |-> lastError]

_snapshot_response(snapshot) ==
    [ok |-> TRUE, mode |-> snapshot.mode,
     provisioning_ap_active |-> snapshot.provisioning_ap_active,
     station_ssid |-> snapshot.station_ssid, last_error |-> snapshot.last_error]

StatusFields == {"ok", "mode", "provisioning_ap_active", "station_ssid", "last_error"}
AcceptedReasons == {"station_connection_requested", "provisioning_ap_requested"}

(* CONNECT and PROVISIONING add that they were accepted. *)
ActionResponse(reason) ==
    [field \in StatusFields \cup {"accepted", "reason"} |->
        IF field = "accepted" THEN TRUE
        ELSE IF field = "reason" THEN reason
        ELSE _snapshot_response(_snapshot_locked)[field]]

-----------------------------------------------------------------------------
(* The client's checks *)

(* The codes are constants in the code, of 1 to 64 characters and one line. *)
Reasons == (Errors \ {NoError}) \cup AcceptedReasons

_required_reason(value) == value \in Reasons

_optional_reason_Required(value) == _required_reason(value)

_optional_reason(value) == value = NoError \/ _required_reason(value)

validate_status_response(response) ==
    /\ DOMAIN response = StatusFields
    /\ response.mode \in Modes
    /\ response.station_ssid \in Ssids \cup {NoSsid}
    /\ response.provisioning_ap_active \in BOOLEAN
    /\ _optional_reason(response.last_error)

validate_action_response(response) ==
    /\ validate_status_response([field \in DOMAIN response \ {"accepted", "reason"} |->
                                    response[field]])
    /\ DOMAIN response = StatusFields \cup {"accepted", "reason"}
    /\ response.accepted \in BOOLEAN
    /\ _required_reason(response.reason)

-----------------------------------------------------------------------------
(* The provider.  "gate1" is UnavailableProvider, "pi" the appliance's. *)

Providers == {"gate1", "pi"}

_network_availability(m) ==
    CASE m \in Settled -> "ready"
      [] m \in Busy -> "starting"
      [] m = "ERROR" -> "error"
      [] m = "UNCONFIGURED" -> "degraded"

Network(availability, m, actuation, active, ssid, error) ==
    [availability |-> availability, mode |-> m, actuation_available |-> actuation,
     provisioning_ap_active |-> active, station_ssid |-> ssid, last_error |-> error]

DaemonUnavailable == "network_daemon_unavailable"

_network_fallback(address) ==
    LET active == address = "192.168.77.1"
    IN  Network("degraded", IF active THEN "PROVISIONING_AP" ELSE "ERROR",
                FALSE, active, NoSsid, DaemonUnavailable)

(* wlan0's address, if its query is answered. *)
Addresses == {"192.168.77.1", "another", Absent}

unavailable_network == Network("unavailable", "UNCONFIGURED", FALSE, FALSE, NoSsid, NoError)

(* "answered": the daemon's answer came within the client's second. *)
pi_network(answered, address) ==
    LET response == _snapshot_response(_snapshot_locked)
    IN  IF answered /\ validate_status_response(response)
        THEN Network(_network_availability(response.mode), response.mode, TRUE,
                     response.provisioning_ap_active, response.station_ssid,
                     response.last_error)
        ELSE _network_fallback(address)

Cut(length) == IF length < ShownMax THEN length ELSE ShownMax

(* The length of PRETTY_NAME, else of the name and the version with a      *)
(* space between them.                                                     *)
_os_identification(file) ==
    IF file = Absent THEN Absent
    ELSE IF file.PRETTY_NAME > 0 THEN Cut(file.PRETTY_NAME)
    ELSE IF file.NAME > 0 /\ file.VERSION_ID > 0 THEN Cut(file.NAME) + 1 + Cut(file.VERSION_ID)
    ELSE IF file.NAME + file.VERSION_ID > 0 THEN Cut(file.NAME) + Cut(file.VERSION_ID)
    ELSE Absent

Plausible == -40000 .. 125000

_temperature_c(value) == IF value \in Plausible THEN value ELSE Absent

pi_system(file, value) ==
    LET os_version == _os_identification(file)
    IN  [availability |-> IF os_version = Absent THEN "degraded" ELSE "ready",
         os_version |-> os_version, temperature_c |-> _temperature_c(value)]

unavailable_system ==
    [availability |-> "unavailable", os_version |-> Absent, temperature_c |-> Absent]

-----------------------------------------------------------------------------
(* The models: an answer that does not fit one is an internal error.       *)

Availability == {"unavailable", "starting", "ready", "degraded", "error"}

NetworkResponse(answer) ==
    /\ answer.availability \in Availability /\ answer.mode \in Modes
    /\ answer.station_ssid \in Ssids \cup {NoSsid}
    /\ answer.last_error \in {NoError, DaemonUnavailable} \cup Reasons

SystemResponse(answer) ==
    /\ answer.availability \in Availability
    /\ answer.os_version = Absent \/ answer.os_version \in 0 .. ShownMax
    /\ answer.temperature_c = Absent \/ answer.temperature_c \in Plausible

get_network(provider, answered, address) ==
    IF provider = "gate1" THEN unavailable_network ELSE pi_network(answered, address)

get_system(provider, file, value) ==
    IF provider = "gate1" THEN unavailable_system ELSE pi_system(file, value)

(* Until perception is integrated, the status is the same of all providers. *)
NOT_INTEGRATED == [availability |-> "unavailable", reason |-> "not_integrated"]

get_status ==
    [valid_for_ms |-> 1000, overall |-> "unavailable",
     parts |-> [part \in {"camera", "perception", "hailo", "comma_link"} |-> NOT_INTEGRATED]]

StatusResponse(answer) ==
    /\ answer.valid_for_ms \in 100 .. 5000
    /\ answer.overall \in Availability
    /\ \A part \in DOMAIN answer.parts : answer.parts[part].availability \in Availability

(* connect_wifi and enable_provisioning, of a change that the daemon       *)
(* accepted; what fails the client's checks is refused like an outage.     *)
post_change(provider, reason) ==
    LET response == ActionResponse(reason)
    IN  IF provider = "gate1" THEN [code |-> 503, detail |-> "network_actuation_unavailable"]
        ELSE IF ~ validate_action_response(response)
             THEN [code |-> 503, detail |-> "network_management_invalid_response"]
        ELSE [code |-> 202, accepted |-> response.accepted, mode |-> response.mode,
              reason |-> response.reason]

NetworkActionResponse(answer) ==
    answer.accepted \in BOOLEAN /\ answer.mode \in Modes /\ answer.reason \in Reasons

-----------------------------------------------------------------------------
(* The file names the system by a name and a version that the model has    *)
(* no room for: each is cut by itself, and then they are joined.           *)
TooLongTogether(file) ==
    /\ file # Absent /\ file.PRETTY_NAME = 0
    /\ file.NAME > 0 /\ file.VERSION_ID > 0
    /\ file.NAME + 1 + file.VERSION_ID > ShownMax

(* In every state of the daemon, with or without its answer, a poll gets   *)
(* answers that fit their models; the daemon's answer passes the client's  *)
(* checks, so that the API guesses only without one; and a change that was *)
(* accepted is not reported as refused because of what the status beside   *)
(* it says.  One local file takes the system's answer away, and no other:  *)
(* an os-release without PRETTY_NAME whose name and version are too long   *)
(* together.                                                               *)
PollIsServed ==
    /\ \A provider \in Providers, answered \in BOOLEAN, address \in Addresses :
          LET answer == get_network(provider, answered, address)
          IN  /\ NetworkResponse(answer)
              /\ provider = "pi" /\ answered =>
                    <<answer.mode, answer.station_ssid, answer.last_error>> = status
    /\ \A provider \in Providers, file \in OsReleases, value \in Temperatures :
          SystemResponse(get_system(provider, file, value))
              <=> ~ (provider = "pi" /\ TooLongTogether(file))
    /\ StatusResponse(get_status)
    /\ \A reason \in AcceptedReasons :
          LET answer == post_change("pi", reason)
          IN  answer.code = 202 /\ NetworkActionResponse(answer)
=============================================================================
