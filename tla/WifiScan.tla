------------------------------- MODULE WifiScan -------------------------------
(***************************************************************************)
(* The list of networks, from what stations broadcast to what the web API  *)
(* answers: nmcli's escaped lines, their parsing and the choice among them *)
(* in rave_networkd/backend.py, and the checks that the answer meets in    *)
(* rave_network_ipc/client.py and rave_web/models.py.  A text is a         *)
(* sequence of characters; where its spelling does not matter, of words.   *)
(* JSON in between gives back what it was given, and is left out; 64       *)
(* entries of at most 32 bytes stay far below MAX_RESPONSE_BYTES.          *)
(***************************************************************************)
EXTENDS Integers, Sequences, FiniteSets, SequencesExt

CONSTANTS
    SsidMaxBytes,  \* SSID_MAX_BYTES; a character has one byte here
    MaxNetworks,   \* MAX_NETWORKS
    Percent,       \* the number that each signal text stands for
    None

Colon == ":"
Backslash == "\\"
Control == "control character"
Newline == "newline"            \* and each other control character that ends a line
Separator == "line separator"   \* U+0085, U+2028 and U+2029

ASSUME LimitAssumption == SsidMaxBytes \in Nat \ {0} /\ MaxNetworks \in Nat \ {0}
ASSUME KeyAssumption == None \notin {"sae", "wpa-psk"}
ASSUME PercentAssumption == \A text \in DOMAIN Percent : Percent[text] \in Int

validate_ssid(name) ==
    /\ name # <<>> /\ Len(name) <= SsidMaxBytes
    /\ ToSet(name) \cap {Control, Newline} = {}

-----------------------------------------------------------------------------
(* What nmcli prints of one station, with --terse and --escape yes *)

Escaped(text) ==
    FlattenSeq([i \in DOMAIN text |->
        IF text[i] \in {Colon, Backslash} THEN <<Backslash, text[i]>> ELSE <<text[i]>>])

Line(station) ==
    Escaped(station.ssid) \o <<Colon>> \o station.signal \o <<Colon>>
        \o station.security \o <<Colon>> \o station.in_use

(* What it prints of all of them: nothing in a name that would end a line  *)
(* is escaped.                                                             *)
Output(stations) == FlattenSeq([i \in DOMAIN stations |-> Line(stations[i]) \o <<Newline>>])

-----------------------------------------------------------------------------
(* backend.py *)

(* str.splitlines: each line under the position where it starts.  It also  *)
(* splits at characters that no terminal takes for the end of a line; nmcli *)
(* ends every line.                                                        *)
Breaks == {Newline, Separator}

splitlines(text) ==
    LET starts == {i \in DOMAIN text : i = 1 \/ text[i - 1] \in Breaks}
        end(i) == Min({j \in DOMAIN text : i <= j /\ text[j] \in Breaks} \cup {Len(text) + 1})
    IN  [i \in starts |-> SubSeq(text, i, end(i) - 1)]

(* The loop of _split_escaped_fields over one more character. *)
Split(done, character) ==
    CASE done.escaped ->
            [done EXCEPT !.current = Append(@, character), !.escaped = FALSE]
      [] ~done.escaped /\ character = Backslash ->
            [done EXCEPT !.escaped = TRUE]
      [] ~done.escaped /\ character = Colon ->
            [done EXCEPT !.fields = Append(@, done.current), !.current = <<>>]
      [] OTHER -> [done EXCEPT !.current = Append(@, character)]

_split_escaped_fields_Unescaped(line) ==
    LET colons == {0, Len(line) + 1} \cup {i \in DOMAIN line : line[i] = Colon}
        ends == SetToSortSeq(colons, <)
    IN  [k \in 1 .. Len(ends) - 1 |-> SubSeq(line, ends[k] + 1, ends[k + 1] - 1)]

_split_escaped_fields(line) ==
    LET after[i \in 0 .. Len(line)] ==
            IF i = 0 THEN [fields |-> <<>>, current |-> <<>>, escaped |-> FALSE]
            ELSE Split(after[i - 1], line[i])
        end == after[Len(line)]
    IN  Append(end.fields, IF end.escaped THEN Append(end.current, Backslash) ELSE end.current)

WifiSecurity == {"open", "wpa_personal", "enterprise", "unsupported"}

_classify_security(raw) ==
    LET words == ToSet(raw)
        class(security, key) == [security |-> security, key_management |-> key]
    IN  CASE words \subseteq {"--"} -> class("open", None)
          [] words \cap {"802.1X", "EAP"} # {} -> class("enterprise", None)
          [] words \cap {"802.1X", "EAP"} = {} /\ "WEP" \in words -> class("unsupported", None)
          [] words \cap {"802.1X", "EAP", "WEP"} = {} /\ words \cap {"WPA1", "WPA2", "WPA3"} # {} ->
                class("wpa_personal", IF "WPA3" \in words /\ "WPA2" \notin words
                                      THEN "sae" ELSE "wpa-psk")
          [] OTHER -> class("unsupported", None)

Described(fields) ==
    [ssid |-> fields[1], signal_percent |-> Percent[fields[2]],
     security |-> _classify_security(fields[3]).security,
     key_management |-> _classify_security(fields[3]).key_management,
     connected |-> fields[4] = <<"*">>]

_parse_access_point_AnyName(line) ==
    LET fields == _split_escaped_fields(line)
    IN  IF Len(fields) = 4 /\ fields[2] \in DOMAIN Percent /\ Percent[fields[2]] \in 0 .. 100
        THEN Described(fields) ELSE None

_parse_access_point(line) ==
    LET fields == _split_escaped_fields(line)
    IN  IF /\ Len(fields) = 4 /\ validate_ssid(fields[1])
           /\ fields[2] \in DOMAIN Percent /\ Percent[fields[2]] \in 0 .. 100
        THEN Described(fields) ELSE None

(* Of each name the entry with the most signal, the first among equals. *)
Strongest(parsed) ==
    LET points == {i \in DOMAIN parsed : parsed[i] # None}
    IN  {parsed[i] : i \in {i \in points :
            \A j \in points : parsed[j].ssid = parsed[i].ssid =>
                \/ parsed[j].signal_percent < parsed[i].signal_percent
                \/ parsed[j].signal_percent = parsed[i].signal_percent /\ i <= j}}

(* The lists that scan can return: the sort by signal and then by spelling *)
(* decides what is cut off; spelling is left open here.                    *)
scan(air) ==
    LET lines == splitlines(Output(air))
        strongest == Strongest([i \in DOMAIN lines |-> _parse_access_point(lines[i])])
        length == IF Cardinality(strongest) < MaxNetworks
                  THEN Cardinality(strongest) ELSE MaxNetworks
    IN  {list \in SUBSET strongest :
            /\ Cardinality(list) = length
            /\ \A kept \in list, cut \in strongest \ list :
                   kept.signal_percent >= cut.signal_percent}

-----------------------------------------------------------------------------
(* The answer on its way to the page *)

(* server.py keeps the key management to itself. *)
Response(list) ==
    {[ssid |-> n.ssid, signal_percent |-> n.signal_percent,
      security |-> n.security, connected |-> n.connected] : n \in list}

_validate_network(network) ==
    /\ validate_ssid(network.ssid)
    /\ network.security \in WifiSecurity
    /\ network.signal_percent \in 0 .. 100

(* One entry that fails a check makes the client refuse the whole list. *)
validate_scan_response(networks) ==
    Cardinality(networks) <= MaxNetworks /\ \A n \in networks : _validate_network(n)

(* The models of the web API check the same once more. *)
WifiScanResponse(networks) ==
    /\ Cardinality(networks) <= MaxNetworks
    /\ \A n \in networks : validate_ssid(n.ssid) /\ n.signal_percent \in 0 .. 100
=============================================================================
