------------------------ MODULE NetworkSelectionProofs ------------------------
(***************************************************************************)
(* Theorems about NetworkSelection, for everything that can be on the air, *)
(* every set of passwords and any number of requests under way.            *)
(***************************************************************************)
EXTENDS NetworkSelection, FiniteSetTheorems, TLAPS

USE KeyAssumption, PasswordAssumption, ErrorAssumption

(* A key management is known exactly of WPA personal networks. *)
LEMMA Classified ==
    ASSUME NEW raw
    PROVE  /\ _classify_security(raw).security \in WifiSecurity
           /\ _classify_security(raw).key_management # None
                <=> _classify_security(raw).security = "wpa_personal"
<1> DEFINE words == ToSet(raw)
           enterprise == words \cap {"802.1X", "EAP"} # {}
           wpa == words \cap {"WPA1", "WPA2", "WPA3"} # {}
<1>1. CASE words \subseteq {"--"}
  <2>1. ~enterprise /\ ~("WEP" \in words) /\ ~wpa
    BY <1>1
  <2> QED  BY <1>1, <2>1 DEF _classify_security, WifiSecurity
<1>2. CASE ~(words \subseteq {"--"}) /\ enterprise
  BY <1>2 DEF _classify_security, WifiSecurity
<1>3. CASE ~(words \subseteq {"--"}) /\ ~enterprise /\ "WEP" \in words
  BY <1>3 DEF _classify_security, WifiSecurity
<1>4. CASE ~(words \subseteq {"--"}) /\ ~enterprise /\ "WEP" \notin words /\ wpa
  BY <1>4 DEF _classify_security, WifiSecurity
<1>5. CASE ~(words \subseteq {"--"}) /\ ~enterprise /\ "WEP" \notin words /\ ~wpa
  BY <1>5 DEF _classify_security, WifiSecurity
<1> QED  BY <1>1, <1>2, <1>3, <1>4, <1>5

(* So it is of everything a scan returns. *)
LEMMA PointsClassified ==
    ASSUME NEW stations, NEW list \in scan(stations), NEW point \in list
    PROVE  /\ point.security \in WifiSecurity
           /\ point.key_management # None <=> point.security = "wpa_personal"
<1> DEFINE lines == splitlines(Output(stations))
           parsed == [i \in DOMAIN lines |-> _parse_access_point(lines[i])]
<1>1. point \in Strongest(parsed)
  BY DEF scan
<1>2. PICK i \in DOMAIN parsed : point = parsed[i] /\ parsed[i] # None
  BY <1>1 DEF Strongest
<1>3. point = Described(_split_escaped_fields(lines[i]))
  BY <1>2 DEF _parse_access_point
<1> QED  BY <1>3, Classified DEF Described

(* The daemon takes exactly the credential that a security asks for. *)
Suits(security, password) ==
    \/ security = "open" /\ password = None
    \/ security = "wpa_personal" /\ password \in Typeable

LEMMA CredentialErrors ==
    ASSUME NEW security \in WifiSecurity, NEW password \in Fits \cup {None}
    PROVE  /\ _credential_error(security, password) \in Refusals \cup {None}
           /\ _credential_error(security, password) = None <=> Suits(security, password)
<1>1. CASE security \in {"enterprise", "unsupported"}
  BY <1>1 DEF _credential_error, Suits, Refusals
<1>2. CASE security = "open"
  BY <1>2 DEF _credential_error, Suits, Refusals
<1>3. CASE security = "wpa_personal"
  BY <1>3 DEF _credential_error, validate_password, Suits, Refusals
<1> QED  BY <1>1, <1>2, <1>3 DEF WifiSecurity

(* The page's list has securities that its policy knows. *)
ListTyped == \A n \in scannedNetworks : n.security \in WifiSecurity

(* The button is enabled only for networks that the page can join, and a   *)
(* protected one has its field enabled with it.                            *)
ButtonHonest ==
    /\ wifiPassword = [value |-> wifiPassword.value, enabled |-> wifiPassword.enabled]
    /\ wifiPassword.value \in Typeable \cup {Empty}
    /\ wifiConnect => \/ SecurityIn(scannedNetworks, selectedSsid) = "open"
                      \/ /\ SecurityIn(scannedNetworks, selectedSsid) = "wpa_personal"
                         /\ wifiPassword.enabled

(* A request has the password that what the user was shown asks for. *)
PostsAgree ==
    posts \in [Slots -> {posts[slot] : slot \in Slots}] /\ \A slot \in Slots : posts[slot] # None =>
        /\ posts[slot] = [ssid |-> posts[slot].ssid, shown |-> posts[slot].shown,
                          state |-> posts[slot].state, password |-> posts[slot].password]
        /\ Suits(posts[slot].shown, posts[slot].password)

(* An accepted connection has a password of the right length, too, and     *)
(* what was decided about it was decided from what was heard.              *)
WorkAgrees ==
    work # None =>
        /\ work = [ssid |-> work.ssid, password |-> work.password, shown |-> work.shown,
                   step |-> work.step, heard |-> work.heard,
                   key_management |-> work.key_management]
        /\ Suits(work.shown, work.password) /\ work.password \in Fits \cup {None}

IInv == ListTyped /\ ButtonHonest /\ PostsAgree /\ WorkAgrees /\ RefusalMeansChange /\ ProfileHasPassword

LEMMA InitIInv == Init => IInv
  BY DEF Init, IInv, ListTyped, ButtonHonest, PostsAgree, WorkAgrees, RefusalMeansChange,
         ProfileHasPassword, Slots

(* updatePasswordRequirement, at the end of every handler that calls it. *)
LEMMA UpdateHonest ==
    ASSUME NEW value \in Typeable \cup {Empty}, ListTyped', updatePasswordRequirement(value)
    PROVE  ButtonHonest'
<1> DEFINE security == SecurityIn(scannedNetworks', selectedSsid')
           policy == WIFI_SECURITY_POLICY[security]
<1>1. security \in WifiSecurity \cup {"none"}
  <2>1. CASE \E n \in scannedNetworks' : n.ssid = selectedSsid'
    <3>1. PICK n \in scannedNetworks' :
              n = CHOOSE m \in scannedNetworks' : m.ssid = selectedSsid'
      BY <2>1
    <3> QED  BY <2>1, <3>1 DEF SecurityIn, ListTyped
  <2> QED  BY <2>1 DEF SecurityIn
<1>2. wifiPassword' = [value |-> IF policy.clearPassword THEN Empty ELSE value,
                       enabled |-> policy.passwordEnabled]
  BY DEF updatePasswordRequirement
<1>3. wifiConnect' => policy.connectable
  BY DEF updatePasswordRequirement
<1>4. policy.connectable => security = "open" \/ (security = "wpa_personal" /\ policy.passwordEnabled)
  BY <1>1 DEF WIFI_SECURITY_POLICY, Policy, WifiSecurity
<1>5. /\ wifiPassword' = [value |-> wifiPassword'.value, enabled |-> wifiPassword'.enabled]
      /\ wifiPassword'.value \in Typeable \cup {Empty}
      /\ wifiPassword'.enabled = policy.passwordEnabled
  <2> HIDE DEF policy
  <2> QED  BY <1>2
<1> HIDE DEF policy, security
<1>6. wifiConnect' => security = "open" \/ (security = "wpa_personal" /\ wifiPassword'.enabled)
  BY <1>3, <1>4, <1>5
<1> QED  BY <1>5, <1>6 DEF ButtonHonest, security

(* One handler, or one step of the daemon, at a time. *)
LEMMA StepIInv == IInv /\ [Next]_vars => IInv'
<1> SUFFICES ASSUME IInv, [Next]_vars PROVE IInv'
  OBVIOUS
<1> USE DEF IInv
<1>1. ASSUME UNCHANGED <<posts, work>>, ListTyped', ButtonHonest' PROVE IInv'
  BY <1>1 DEF PostsAgree, WorkAgrees, RefusalMeansChange, ProfileHasPassword
<1>2. CASE scanWifi
  BY <1>2, <1>1, UpdateHonest DEF scanWifi, ListTyped, ButtonHonest
<1>3. CASE scan_returns
  <2>1. ListTyped'
    <3>1. CASE scannedNetworks' = {}
      BY <3>1 DEF ListTyped
    <3>2. CASE \E list \in scan(air) : scannedNetworks' = Response(list)
      BY <3>2, PointsClassified DEF ListTyped, Response
    <3> QED  BY <1>3, <3>1, <3>2 DEF scan_returns
  <2> QED  BY <1>3, <1>1, <2>1, UpdateHonest DEF scan_returns, ButtonHonest
<1>4. CASE select
  BY <1>4, <1>1, UpdateHonest DEF select, Options, ListTyped, ButtonHonest
<1>5. CASE enter_password
  BY <1>5, <1>1 DEF enter_password, ListTyped, ButtonHonest
<1>6. CASE requestStation
  <2>1. ListTyped' /\ ButtonHonest'
    BY <1>6 DEF requestStation, ListTyped, ButtonHonest
  <2>2. PICK slot \in Slots : posts' = [posts EXCEPT ![slot] =
            [ssid |-> selectedSsid, shown |-> SecurityIn(scannedNetworks, selectedSsid),
             state |-> "sent",
             password |-> IF SecurityIn(scannedNetworks, selectedSsid) = "open"
                          THEN None ELSE wifiPassword.value]]
    BY <1>6 DEF requestStation
  <2>3. Suits(SecurityIn(scannedNetworks, selectedSsid),
              IF SecurityIn(scannedNetworks, selectedSsid) = "open" THEN None ELSE wifiPassword.value)
    BY <1>6 DEF requestStation, ButtonHonest, Suits
  <2>4. PostsAgree'
    BY <2>2, <2>3 DEF PostsAgree
  <2> QED  BY <1>6, <2>1, <2>4 DEF requestStation, WorkAgrees, RefusalMeansChange, ProfileHasPassword
<1>7. ASSUME NEW slot \in Slots, request_ends(slot) PROVE IInv'
  <2>1. ListTyped' /\ ButtonHonest'
    BY <1>7, UpdateHonest DEF request_ends, ListTyped
  <2>2. PostsAgree'
    BY <1>7 DEF request_ends, PostsAgree
  <2> QED  BY <1>7, <2>1, <2>2 DEF request_ends, WorkAgrees, RefusalMeansChange, ProfileHasPassword
<1>8. ASSUME NEW slot \in Slots, connect_wifi(slot) PROVE IInv'
  <2>1. ListTyped' /\ ButtonHonest'
    BY <1>8 DEF connect_wifi, ListTyped, ButtonHonest, page
  <2>2. PostsAgree'
    BY <1>8 DEF connect_wifi, PostsAgree
  <2>3. WorkAgrees' /\ RefusalMeansChange' /\ ProfileHasPassword'
    BY <1>8 DEF connect_wifi, PostsAgree, Passes, NetworkConnectRequest, Credentials,
                validate_password, WorkAgrees, RefusalMeansChange, ProfileHasPassword, Refusals
  <2> QED  BY <2>1, <2>2, <2>3
<1>9. CASE connect_station
  <2>1. ListTyped' /\ ButtonHonest' /\ PostsAgree'
    BY <1>9 DEF connect_station, ListTyped, ButtonHonest, PostsAgree, page
  <2>2. CASE work' = [work EXCEPT !.step = "ssid_not_found"]
    BY <1>9, <2>1, <2>2 DEF connect_station, WorkAgrees, RefusalMeansChange, ProfileHasPassword,
                            Refusals
  <2>3. ASSUME NEW list \in scan(air), NEW point \in list, NEW error,
               error = _credential_error(point.security, work.password),
               work' = [work EXCEPT !.heard = point.security,
                    !.step = IF error = None THEN "profile" ELSE error,
                    !.key_management = IF error = None THEN point.key_management ELSE None]
        PROVE  IInv'
    <3>1. work # None /\ work.password \in Fits \cup {None} /\ Suits(work.shown, work.password)
      BY <1>9 DEF connect_station, WorkAgrees
    <3>2. /\ point.security \in WifiSecurity
          /\ point.key_management # None <=> point.security = "wpa_personal"
          /\ error \in Refusals \cup {None}
          /\ error = None <=> Suits(point.security, work.password)
      BY <2>3, <3>1, PointsClassified, CredentialErrors
    <3>3. WorkAgrees' /\ work'.heard = point.security /\ work'.shown = work.shown
          /\ work'.password = work.password
          /\ work'.step = (IF error = None THEN "profile" ELSE error)
          /\ work'.key_management = (IF error = None THEN point.key_management ELSE None)
      BY <2>3, <3>1 DEF WorkAgrees
    <3>4. RefusalMeansChange'
      BY <3>1, <3>2, <3>3 DEF RefusalMeansChange, Refusals, Suits
    <3>5. ProfileHasPassword'
      BY <3>1, <3>2, <3>3 DEF ProfileHasPassword, Refusals, Suits
    <3> QED  BY <2>1, <3>3, <3>4, <3>5
  <2> QED  BY <1>9, <2>2, <2>3 DEF connect_station
<1>10. CASE connection_ends
  BY <1>10 DEF connection_ends, page, ListTyped, ButtonHonest, PostsAgree, WorkAgrees,
               RefusalMeansChange, ProfileHasPassword
<1>11. CASE air_changes \/ UNCHANGED vars
  BY <1>11, <1>1 DEF air_changes, vars, page, ListTyped, ButtonHonest
<1> QED  BY <1>2, <1>3, <1>4, <1>5, <1>6, <1>7, <1>8, <1>9, <1>10, <1>11 DEF Next

LEMMA IInvCorrect == Spec => []IInv
  BY InitIInv, StepIInv, PTL DEF Spec

(* The page and the daemon agree on what each security needs: an accepted  *)
(* request is refused for its credential only if the network changed.      *)
THEOREM RefusalsMeanChange == Spec => []RefusalMeansChange
<1>1. IInv => RefusalMeansChange
  BY DEF IInv
<1> QED  BY <1>1, IInvCorrect, PTL

(* The assertion before the activation of a staged profile holds: it has   *)
(* a password unless its network is open.                                  *)
THEOREM ProfilesHavePasswords == Spec => []ProfileHasPassword
<1>1. IInv => ProfileHasPassword
  BY DEF IInv
<1> QED  BY <1>1, IInvCorrect, PTL
-----------------------------------------------------------------------------
(* What a scan returns, and what becomes of it on the way to the page.     *)

(* The image of a finite set under a function has no more elements. *)
LEMMA ImageBound ==
    ASSUME NEW S, IsFiniteSet(S), NEW f, DOMAIN f = S, NEW T, T = {f[x] : x \in S}
    PROVE  IsFiniteSet(T) /\ Cardinality(T) \in Nat /\ Cardinality(T) <= Cardinality(S)
<1> DEFINE g == [x \in S |-> f[x]]
<1>1. g \in Surjection(S, T)
  BY DEF Surjection
<1> HIDE DEF g
<1>2. IsFiniteSet(T) /\ Cardinality(T) <= Cardinality(S)
  BY <1>1, FS_Surjection
<1> QED  BY <1>2, FS_CardinalityType

(* Every point of a scan passed the checks on its line. *)
LEMMA PointsValid ==
    ASSUME NEW stations, NEW list \in scan(stations), NEW point \in list
    PROVE  /\ validate_ssid(point.ssid)
           /\ point.signal_percent \in 0 .. 100
           /\ point.security \in WifiSecurity
<1> DEFINE lines == splitlines(Output(stations))
           parsed == [i \in DOMAIN lines |-> _parse_access_point(lines[i])]
<1>1. point \in Strongest(parsed)
  BY DEF scan
<1>2. PICK i \in DOMAIN parsed : point = parsed[i] /\ parsed[i] # None
  BY <1>1 DEF Strongest
<1> DEFINE fields == _split_escaped_fields(lines[i])
<1>3. /\ point = Described(fields)
      /\ validate_ssid(fields[1]) /\ Percent[fields[2]] \in 0 .. 100
  BY <1>2 DEF _parse_access_point
<1> HIDE DEF fields
<1> QED  BY <1>3, Classified DEF Described

(* A scan returns at most MaxNetworks points. *)
LEMMA ScanBounded ==
    ASSUME NEW stations \in Airs, NEW list \in scan(stations)
    PROVE  IsFiniteSet(list) /\ Cardinality(list) \in Nat /\ Cardinality(list) <= MaxNetworks
<1> DEFINE lines == splitlines(Output(stations))
           parsed == [i \in DOMAIN lines |-> _parse_access_point(lines[i])]
           strongest == Strongest(parsed)
<1>1. /\ list \subseteq strongest
      /\ Cardinality(list) = IF Cardinality(strongest) < MaxNetworks
                             THEN Cardinality(strongest) ELSE MaxNetworks
  BY DEF scan
<1>2. DOMAIN parsed = DOMAIN lines /\ strongest \subseteq {parsed[i] : i \in DOMAIN lines}
  BY DEF Strongest
<1> HIDE DEF strongest, parsed
<1>3. IsFiniteSet(DOMAIN lines)
  <2> DEFINE text == Output(stations)
  <2>1. Len(text) \in Nat /\ DOMAIN text = 1 .. Len(text)
    BY AirAssumption
  <2>2. DOMAIN lines \subseteq DOMAIN text
    BY DEF splitlines
  <2> HIDE DEF text, lines
  <2>3. IsFiniteSet(1 .. Len(text))
    <3>1. 1 \in Int /\ Len(text) \in Int
      BY <2>1
    <3> QED  BY <3>1, FS_Interval, Zenon
  <2> QED  BY <2>1, <2>2, <2>3, FS_Subset
<1>4. IsFiniteSet({parsed[i] : i \in DOMAIN lines})
  BY <1>2, <1>3, ImageBound
<1>5. IsFiniteSet(strongest) /\ IsFiniteSet(list)
  BY <1>1, <1>2, <1>4, FS_Subset
<1>6. Cardinality(strongest) \in Nat
  BY <1>5, FS_CardinalityType
<1> QED  BY <1>1, <1>5, <1>6, LimitAssumption

(* The keys of the answer are those of the points, less one. *)
LEMMA AnswerAccepted ==
    ASSUME NEW stations \in Airs, NEW list \in scan(stations)
    PROVE  validate_scan_response(Response(list)) /\ WifiScanResponse(Response(list))
<1> DEFINE answer == [n \in list |-> [ssid |-> n.ssid, signal_percent |-> n.signal_percent,
                                      security |-> n.security, connected |-> n.connected]]
<1>1. Response(list) = {answer[n] : n \in list} /\ DOMAIN answer = list
  BY DEF Response
<1>2. \A n \in Response(list) :
          validate_ssid(n.ssid) /\ n.signal_percent \in 0 .. 100 /\ n.security \in WifiSecurity
  BY PointsValid DEF Response
<1> HIDE DEF answer
<1>3. Cardinality(Response(list)) \in Nat /\ Cardinality(Response(list)) <= Cardinality(list)
  BY <1>1, ScanBounded, ImageBound
<1>4. Cardinality(Response(list)) <= MaxNetworks
  BY <1>3, ScanBounded, LimitAssumption
<1> QED  BY <1>2, <1>4 DEF validate_scan_response, _validate_network, WifiScanResponse

(* No single station can cost the user the whole list: whatever is on the  *)
(* air, the daemon's answer passes the client's checks and the web API's.  *)
THEOREM ScansAreAccepted == Spec => []ScanIsAccepted
<1>1. Init => air \in Airs
  BY DEF Init
<1>2. air \in Airs /\ [Next]_vars => (air \in Airs)'
  BY DEF Next, vars, scanWifi, scan_returns, select, enter_password, requestStation,
         request_ends, connect_wifi, connect_station, connection_ends, air_changes
<1>3. air \in Airs => ScanIsAccepted
  BY AnswerAccepted DEF ScanIsAccepted
<1> QED  BY <1>1, <1>2, <1>3, PTL DEF Spec
=============================================================================
