-------------------------- MODULE MCNetworkSelection --------------------------
(* Stations with a plain name, a name that nmcli escapes, names that the   *)
(* daemon must leave out: hidden, too long, and with a control character;  *)
(* and names in which a line breaks, before and behind their other letter. *)
EXTENDS NetworkSelection, TLC

Station(ssid, signal, security, in_use) ==
    [ssid |-> ssid, signal |-> <<signal>>, security |-> security, in_use |-> <<in_use>>]

Plain == <<"a">>
Odd == <<":", "\\">>

PlainOpen == Station(Plain, "30", <<"--">>, " ")
PlainProtected == Station(Plain, "50", <<"WPA1", "WPA2">>, "*")
PlainEnterprise == Station(Plain, "30", <<"WPA2", "802.1X">>, " ")
OddProtected == Station(Odd, "80", <<"WPA3">>, " ")
OddOpen == Station(Odd, "50", <<>>, " ")

MCAirs ==
    {<<Station(<<>>, "80", <<"WPA2">>, " "), PlainOpen, PlainProtected>>,
     <<PlainEnterprise, OddProtected, Station(<<"b", Separator>>, "80", <<"WPA2">>, " ")>>,
     <<PlainProtected, Station(<<"b">>, "50", <<"OWE">>, " "), OddProtected, PlainOpen>>,
     <<Station(<<"c", "c", "c">>, "80", <<>>, " "), Station(<<Control>>, "80", <<>>, " "),
       Station(<<":", Separator, "a">>, "30", <<"WPA2">>, " "), OddOpen>>}
MCPercent == <<"30">> :> 30 @@ <<"50">> :> 50 @@ <<"80">> :> 80
MCTypeable == {"ascii", "wide"}
MCFits == {"ascii"}
=============================================================================
