--------------------------- MODULE NetworkSelection ---------------------------
(***************************************************************************)
(* Choosing a network: the page's scan, its password field and its form    *)
(* (static/app.js, index.html), the connect request through the web API    *)
(* and the client, and the daemon, which scans again when it carries the   *)
(* request out and decides from what it hears then.  What is on the air    *)
(* can change in between.  Timing and messages of the page are in          *)
(* SetupPage, the queue and the modes in NetworkController, and the        *)
(* commands that follow in StationBackend.                                 *)
(***************************************************************************)
EXTENDS WifiScan

CONSTANTS
    Airs,       \* what can be on the air: sequences of stations, as nmcli lists them
    Typeable,   \* the passwords that the field's minlength and maxlength let through
    Fits,       \* those among them that have 8 to 63 bytes
    MaxPosts    \* bound on the connect requests under way at a time

Empty == ""

ASSUME PasswordAssumption ==
    Fits \subseteq Typeable /\ Empty \notin Typeable /\ None \notin Typeable \cup {Empty}
ASSUME ErrorAssumption ==
    None \notin {"security_not_supported", "password_not_expected", "password_required",
              "password_invalid"}
ASSUME AirAssumption ==
    \A stations \in Airs : Output(stations) \in Seq(ToSet(Output(stations)))
ASSUME PostAssumption == MaxPosts \in Nat

VARIABLES
    air,              \* the stations in reach of wlan0
    scanInProgress,
    scannedNetworks,  \* what the page lists, a Map by name
    selectedSsid,
    wifiPassword,     \* the field's value, and whether it is enabled
    wifiConnect,      \* whether the button is enabled
    posts,            \* the connect requests under way
    work              \* the connection the daemon has accepted, and how far it is

page == <<scanInProgress, scannedNetworks, selectedSsid, wifiPassword, wifiConnect>>
vars == <<air, page, posts, work>>

Slots == 1 .. MaxPosts

Init ==
    /\ air \in Airs
    /\ scanInProgress = FALSE /\ scannedNetworks = {} /\ selectedSsid = None
    /\ wifiPassword = [value |-> Empty, enabled |-> FALSE] /\ wifiConnect = FALSE
    /\ posts = [slot \in Slots |-> None] /\ work = None

-----------------------------------------------------------------------------
(* The page *)

Policy(connectable, enabled, clear) ==
    [connectable |-> connectable, passwordEnabled |-> enabled, clearPassword |-> clear]

WIFI_SECURITY_POLICY_Enterprise ==
    [none |-> Policy(FALSE, FALSE, FALSE),
     open |-> Policy(TRUE, FALSE, TRUE),
     wpa_personal |-> Policy(TRUE, TRUE, FALSE),
     enterprise |-> Policy(TRUE, TRUE, FALSE),
     unsupported |-> Policy(FALSE, FALSE, TRUE)]

WIFI_SECURITY_POLICY ==
    [none |-> Policy(FALSE, FALSE, FALSE),
     open |-> Policy(TRUE, FALSE, TRUE),
     wpa_personal |-> Policy(TRUE, TRUE, FALSE),
     enterprise |-> Policy(FALSE, FALSE, TRUE),
     unsupported |-> Policy(FALSE, FALSE, TRUE)]

(* The security of the selected network in a list, "none" without one. *)
SecurityIn(networks, ssid) ==
    IF \E n \in networks : n.ssid = ssid
    THEN (CHOOSE n \in networks : n.ssid = ssid).security
    ELSE "none"

updatePasswordRequirement(value) ==
    LET policy == WIFI_SECURITY_POLICY[SecurityIn(scannedNetworks', selectedSsid')]
    IN  /\ wifiPassword' = [value |-> IF policy.clearPassword THEN Empty ELSE value,
                            enabled |-> policy.passwordEnabled]
        /\ wifiConnect' = (policy.connectable /\ ~scanInProgress')

scanWifi ==
    /\ ~scanInProgress
    /\ scanInProgress' = TRUE /\ selectedSsid' = None
    /\ UNCHANGED <<air, scannedNetworks, posts, work>>
    /\ updatePasswordRequirement(wifiPassword.value)

(* The answer, or no answer that passes the checks on its way. *)
scan_returns ==
    /\ scanInProgress /\ scanInProgress' = FALSE
    /\ \/ \E list \in scan(air) :
            /\ validate_scan_response(Response(list)) /\ WifiScanResponse(Response(list))
            /\ scannedNetworks' = Response(list)
       \/ scannedNetworks' = {}
    /\ UNCHANGED <<air, selectedSsid, posts, work>>
    /\ updatePasswordRequirement(wifiPassword.value)

(* What can be chosen: a scan in progress has emptied the list. *)
Options == IF scanInProgress THEN {} ELSE {n.ssid : n \in scannedNetworks}

(* The change listener of an option. *)
select ==
    /\ selectedSsid' \in Options
    /\ UNCHANGED <<air, scanInProgress, scannedNetworks, posts, work>>
    /\ updatePasswordRequirement(wifiPassword.value)

enter_password ==
    /\ wifiPassword.enabled
    /\ \E value \in Typeable \cup {Empty} : wifiPassword' = [wifiPassword EXCEPT !.value = value]
    /\ UNCHANGED <<air, scanInProgress, scannedNetworks, selectedSsid, wifiConnect, posts, work>>

(* The browser submits no form whose button is disabled or whose required  *)
(* field is empty.  "shown" is what the user was shown of the network.     *)
requestStation ==
    /\ wifiConnect /\ (wifiPassword.enabled => wifiPassword.value # Empty)
    /\ LET security == SecurityIn(scannedNetworks, selectedSsid)
           body == [ssid |-> selectedSsid, shown |-> security, state |-> "sent",
                    password |-> IF security = "open" THEN None ELSE wifiPassword.value]
       IN  /\ security # "none"
           /\ \E slot \in Slots : posts[slot] = None /\ posts' = [posts EXCEPT ![slot] = body]
    /\ wifiConnect' = FALSE
    /\ UNCHANGED <<air, scanInProgress, scannedNetworks, selectedSsid, wifiPassword, work>>

(* The answer arrives, or the page stops waiting for it; an abandoned      *)
(* request is still served.  Either way the field is emptied.              *)
request_ends(slot) ==
    /\ posts[slot] # None /\ posts[slot].state # "abandoned"
    /\ posts' = [posts EXCEPT ![slot] =
                    IF @.state = "sent" THEN [@ EXCEPT !.state = "abandoned"] ELSE None]
    /\ UNCHANGED <<air, scanInProgress, scannedNetworks, selectedSsid, work>>
    /\ updatePasswordRequirement(Empty)

-----------------------------------------------------------------------------
(* The request on its way to the daemon *)

validate_password(password) == password \in Fits

Credentials(body) ==
    validate_ssid(body.ssid) /\ (body.password = None \/ validate_password(body.password))

NetworkConnectRequest(body) == Credentials(body)
connect(body) == Credentials(body)
parse_request(body) == Credentials(body)

(* On the way through the provider and its client. *)
Passes(body) == NetworkConnectRequest(body) /\ connect(body) /\ parse_request(body)

(* A request that fails a check or meets a busy daemon is refused; one     *)
(* that is carried out may be answered as refused too, when the client's   *)
(* two seconds were over.  What the page says then is in SetupPage.        *)
connect_wifi(slot) ==
    LET body == posts[slot]
    IN  /\ body # None /\ body.state \in {"sent", "abandoned"}
        /\ posts' = [posts EXCEPT ![slot] =
                IF body.state = "abandoned" THEN None ELSE [body EXCEPT !.state = "answered"]]
        /\ \/ UNCHANGED work
           \/ /\ Passes(body)
              /\ work = None
              /\ work' = [ssid |-> body.ssid, password |-> body.password, shown |-> body.shown,
                          step |-> "accepted", heard |-> None, key_management |-> None]
        /\ UNCHANGED <<air, page>>

-----------------------------------------------------------------------------
(* The daemon *)

_credential_error_OpenOrNot(security, password) ==
    CASE security \in {"enterprise", "unsupported"} -> "security_not_supported"
      [] security = "open" -> IF password = None THEN None ELSE "password_not_expected"
      [] OTHER -> IF password = None \/ validate_password(password) THEN None ELSE "password_invalid"

_credential_error(security, password) ==
    CASE security \in {"enterprise", "unsupported"} -> "security_not_supported"
      [] security = "open" -> IF password = None THEN None ELSE "password_not_expected"
      [] security \notin {"enterprise", "unsupported", "open"} ->
            IF password = None THEN "password_required"
            ELSE IF validate_password(password) THEN None ELSE "password_invalid"

(* The second scan, the check of the credential, and the staged profile.   *)
(* "heard" is the security that was heard of the network.                  *)
connect_station ==
    /\ work # None /\ work.step = "accepted"
    /\ \E list \in scan(air) :
         LET points == {n \in list : n.ssid = work.ssid}
         IN  \/ points = {} /\ work' = [work EXCEPT !.step = "ssid_not_found"]
             \/ \E point \in points :
                  LET error == _credential_error(point.security, work.password)
                  IN  work' = [work EXCEPT
                        !.heard = point.security,
                        !.step = IF error = None THEN "profile" ELSE error,
                        !.key_management = IF error = None THEN point.key_management ELSE None]
    /\ UNCHANGED <<air, page, posts>>

(* The scan fails, or the profile was activated or given up: the daemon is *)
(* ready for the next request.                                             *)
connection_ends ==
    /\ work # None /\ work' = None
    /\ UNCHANGED <<air, page, posts>>

(* Stations come and go, are reconfigured and move. *)
air_changes == air' \in Airs /\ UNCHANGED <<page, posts, work>>

Next ==
    \/ scanWifi \/ scan_returns \/ select \/ enter_password \/ requestStation
    \/ \E slot \in Slots : request_ends(slot) \/ connect_wifi(slot)
    \/ connect_station \/ connection_ends \/ air_changes

Spec == Init /\ [][Next]_vars

-----------------------------------------------------------------------------
(* Properties.                                                             *)

Usable(station) == validate_ssid(station.ssid) /\ Percent[station.signal] \in 0 .. 100

(* A name as it is read: lines break inside it, too, and only what follows *)
(* the last break has the other fields behind it.                          *)
AsRead(name) ==
    LET breaks == {i \in DOMAIN name : name[i] \in Breaks}
    IN  SubSeq(name, Max(breaks \cup {0}) + 1, Len(name))

Heard(stations) == [i \in DOMAIN stations |-> [stations[i] EXCEPT !.ssid = AsRead(@)]]

(* What a list should say of the air, without lines and their parsing:     *)
(* each name once, as its strongest station shows it; and a name that is   *)
(* missing was cut off behind MaxNetworks others with as much signal.      *)
Faithful(list, stations) ==
    LET usable == {i \in DOMAIN stations : Usable(stations[i])}
        strength(name) ==
            Max({Percent[stations[i].signal] : i \in {j \in usable : stations[j].ssid = name}})
    IN  /\ \A m, n \in list : m.ssid = n.ssid => m = n
        /\ \A n \in list : \E i \in usable :
              /\ stations[i].ssid = n.ssid
              /\ n.signal_percent = strength(n.ssid) /\ n.signal_percent = Percent[stations[i].signal]
              /\ n.security = _classify_security(stations[i].security).security
              /\ n.connected = (stations[i].in_use = <<"*">>)
        /\ \A i \in usable : \/ \E n \in list : n.ssid = stations[i].ssid
                            \/ /\ Cardinality(list) = MaxNetworks
                               /\ \A n \in list : n.signal_percent >= strength(stations[i].ssid)

Ssids == UNION {{Heard(stations)[i].ssid : i \in DOMAIN stations} : stations \in Airs}
Refusals == {"security_not_supported", "password_not_expected", "password_required",
             "password_invalid"}

(* Values in range: only names that were read are listed and asked         *)
(* for, with a password or with null and never with an empty text, which   *)
(* NetworkConnectRequest would refuse.                                     *)
TypeOK ==
    /\ air \in Airs /\ scanInProgress \in BOOLEAN /\ wifiConnect \in BOOLEAN
    /\ scannedNetworks \subseteq [ssid : Ssids, signal_percent : 0 .. 100,
                                  security : WifiSecurity, connected : BOOLEAN]
    /\ selectedSsid \in Ssids \cup {None}
    /\ wifiPassword \in [value : Typeable \cup {Empty}, enabled : BOOLEAN]
    /\ posts \in [Slots -> {None} \cup [ssid : Ssids, shown : WifiSecurity,
            state : {"sent", "answered", "abandoned"}, password : Typeable \cup {None}]]
    /\ work \in {None} \cup [ssid : Ssids, password : Fits \cup {None},
            shown : WifiSecurity, heard : WifiSecurity \cup {None},
            step : {"accepted", "ssid_not_found", "profile"} \cup Refusals,
            key_management : {"sae", "wpa-psk", None}]

(* The page lists what is on the air: escaping and splitting lose no name  *)
(* and make none up, repeated names leave their strongest station, and the *)
(* limit drops the weakest.  Of a name with a line separator in it the part *)
(* behind the last one takes its place (backend.py 205), which nobody may  *)
(* have broadcast; it costs no other line anything.                        *)
ListIsTheAir ==
    [][scannedNetworks' \in {{}, scannedNetworks} \/ Faithful(scannedNetworks', Heard(air))]_vars

(* Whatever is on the air, also hidden and malformed names, the daemon's   *)
(* answer passes the checks of the client and of the web API: no single    *)
(* station can cost the user the whole list.                               *)
ScanIsAccepted ==
    scanInProgress => \A list \in scan(air) :
        validate_scan_response(Response(list)) /\ WifiScanResponse(Response(list))

(* The page and the daemon agree on what each security needs: once a       *)
(* request was accepted, the credential is only refused when the network   *)
(* is not any more what the user was shown.                                *)
RefusalMeansChange ==
    work # None /\ work.step \in Refusals => work.heard # work.shown

(* A profile that is staged has the password its activation asserts, and   *)
(* only an open network has none, whatever changed since the selection.    *)
ProfileHasPassword ==
    work # None /\ work.step = "profile" =>
        /\ work.heard # "open" <=> work.password # None
        /\ work.heard # "open" <=> work.key_management # None
=============================================================================
