----------------------------- MODULE MCDeployment -----------------------------
(* The contents of the repository that the runs try: the reviewed one, some*)
(* that differ from it without harm, and some with one mistake each.       *)
EXTENDS Deployment, RaveImage

ReviewedKey == "key"
MCKeyFiles == {"key", "other key", "two lines", "truncated"}
Ed25519(material) == <<1, KeyType[1], 2>> \o material
KeyLine(blob) == <<KeyType[1], [base64 |-> TRUE, blob |-> blob], [length |-> 9, printable |-> TRUE]>>
MCKeyText(key) ==
    [size |-> 90,
     lines |-> CASE key = "key" -> <<KeyLine(Ed25519(<<"a", "b">>))>>
                 [] key = "other key" -> <<KeyLine(Ed25519(<<"c", "d">>))>>
                 [] key = "two lines" -> <<KeyLine(Ed25519(<<"a", "b">>)), KeyLine(Ed25519(<<"c", "d">>))>>
                 [] key = "truncated" -> <<KeyLine(Ed25519(<<"a">>))>>]

-----------------------------------------------------------------------------
(* What a change makes of the reviewed root filesystem. *)
Without(path) == [kind |-> "without", path |-> path]
New(path, entry) == [kind |-> "new", path |-> path, entry |-> entry]
Edit(path, old, new) == [kind |-> "edit", path |-> path, old |-> old, new |-> new]
Drop(path, line) == Edit(path, line, <<>>)
Sets(path, section, option, value) ==
    [kind |-> "set", path |-> path, section |-> section, option |-> option, value |-> value]
Mode(path, mode) == [kind |-> "mode", path |-> path, mode |-> mode]

Changed(r, change) ==
    LET path == change.path IN
    CASE change.kind = "without" -> [p \in DOMAIN r \ {path} |-> r[p]]
      [] change.kind = "new" -> path :> change.entry @@ r
      [] change.kind = "edit" ->
             [r EXCEPT ![path].text =
                 FlattenSeq([i \in DOMAIN @ |-> IF @[i] = change.old THEN change.new ELSE <<@[i]>>])]
      [] change.kind = "set" -> [r EXCEPT ![path].text[change.section][change.option] = change.value]
      [] change.kind = "mode" -> [r EXCEPT ![path].mode = change.mode]

web_socket == Vendor("rave-webd.socket")
web_service == Vendor("rave-webd.service")
networkd == Vendor("rave-networkd.service")
ssh_listen == Key("ListenStream", <<"10.77.0.1:22">>)
free_bind == Key("FreeBind", <<"yes">>)
after_hostkeys == Key("After", <<HostKeysUnit>>)
web_listen == Key("ListenStream", <<"8080">>)

Harmless ==
    "reviewed" :> Mode(SshDropIn, "0644") @@
    "comment" :> Edit(SshDropIn, ssh_listen, <<Comment(<<"ListenStream", "=", "22">>), ssh_listen>>) @@
    "continued line" :> Edit(SshDropIn, ssh_listen, <<Continued(<<"ListenStream", "=">>), Line(<<"10.77.0.1:22">>)>>) @@
    "empty binding" :> Edit(SshDropIn, free_bind, <<free_bind, Key("BindToDevice", <<>>)>>) @@
    "daemon after page" :> Edit(networkd, Section("Service"), <<Key("After", <<"rave-webd.socket">>), Section("Service")>>)

(* Read by systemd otherwise than by the verifier, which passes them. *)
Misread ==
    "comment goes on" :> Edit(SshDropIn, ssh_listen,
        <<ssh_listen, Ending(Comment(<<"engineering">>), "backslash"), Key("ListenStream", <<"22">>)>>) @@
    "comment inside" :> Edit(SshDropIn, ssh_listen,
        <<ssh_listen, Continued(<<"NoDelay", "=", "yes">>), Comment(<<"engineering">>)>>) @@
    "blanks after backslash" :> Edit(SshDropIn, ssh_listen,
        <<ssh_listen, Ending(Key("NoDelay", <<"yes">>), "blanks"), Key("ListenStream", <<"22">>)>>) @@
    "separator" :> Edit(SshDropIn, ssh_listen,
        <<Key("ListenStream", <<"22">>), Ending(Comment(<<"engineering">>), "separator"), Key("ListenStream", <<>>), ssh_listen>>)

WrongSsh ==
    "listens twice" :> Drop(SshDropIn, Key("ListenStream", <<>>)) @@
    "no listener" :> Drop(SshDropIn, ssh_listen) @@
    "no FreeBind" :> Drop(SshDropIn, free_bind) @@
    "unfinished line" :> Edit(SshDropIn, free_bind, <<free_bind, Continued(<<"NoDelay", "=", "yes">>)>>) @@
    "bound to wlan0" :> Edit(SshDropIn, free_bind, <<free_bind, Key("BindToDevice", <<"wlan0">>)>>) @@
    "socket after Wi-Fi" :> Edit(SshDropIn, Section("Socket"),
        <<Section("Unit"), Key("After", <<"NetworkManager.service">>), Section("Socket")>>) @@
    "service after daemon" :> Edit(HostKeysDropIn, after_hostkeys, <<after_hostkeys, Key("After", <<"rave-networkd.service">>)>>) @@
    "no host-key unit" :> Drop(HostKeysDropIn, Key("Requires", <<HostKeysUnit>>)) @@
    "keys on first boot" :> Edit(Vendor(HostKeysUnit), Section("Service"),
                                 <<Key("ConditionFirstBoot", <<"yes">>), Section("Service")>>) @@
    "ssh at boot" :> New(Want("multi-user.target", "ssh.service"), Link(Vendor("ssh.service"))) @@
    "no ssh.socket" :> Without(Want("sockets.target", "ssh.socket")) @@
    "passwords" :> New(Append(Policies, "90-rave-ethernet.conf"),
                       File(RequiredPolicy \cup {<<"PasswordAuthentication", "yes">>})) @@
    "pi in sudo" :> New(Group, File([pi |-> {}, rave |-> {}, sudo |-> {"pi"}])) @@
    "readable keys" :> Mode(AuthorizedKeys, "0644")

NotClonable ==
    "machine id" :> New(MachineId, File("baked")) @@
    "host key" :> New(Append(EtcSsh, "ssh_host_ed25519_key"), Private("baked")) @@
    "private key" :> New(<<"home", "pi", "ssh", "id_ed25519">>, Private("baked")) @@
    "saved network" :> New(Append(Front(SetupProfile), "home.nmconnection"), Private([wifi |-> [ssid |-> "home"]])) @@
    "log" :> New(<<"var", "log", "rave", "first.log">>, File({})) @@
    "denied string" :> New(DnsmasqConf, [File(FlattenSeq(DnsmasqLines)) EXCEPT !.traces = {"build host"}])

WrongNetwork ==
    "any interface" :> Drop(web_socket, Key("BindToDevice", <<"wlan0">>)) @@
    "web after Wi-Fi" :> Edit(web_socket, Section("Socket"),
        <<Section("Unit"), Key("After", <<"NetworkManager.service">>), Section("Socket")>>) @@
    "other port" :> Edit(web_socket, web_listen, <<web_listen, Key("ListenStream", <<"80">>)>>) @@
    "waits online" :> Edit(web_service, Section("Service"), <<Key("Wants", <<"network-online.target">>), Section("Service")>>) @@
    "no web socket" :> Without(Want("sockets.target", "rave-webd.socket")) @@
    "two commands" :> Drop(AvahiDropIn, Key("ExecStart", <<>>)) @@
    "mDNS on eth0" :> Sets(AvahiConf, "server", "allow-interfaces", "eth0") @@
    "core dumps" :> Drop(networkd, Key("LimitCORE", <<"0">>)) @@
    "eth0 managed" :> Without(NmConf("10-rave-unmanaged-runtime.conf")) @@
    "second policy" :> New(Append(Networks, "20-wlan0.network"),
                           File([Match |-> [name |-> "wlan0"], Network |-> [address |-> "10.0.0.1/24"]])) @@
    "forwarding" :> New(Sysctl, File({"net.ipv6.conf.all.forwarding=0"})) @@
    "DHCP on eth0" :> New(DnsmasqConf, File(Append(FlattenSeq(DnsmasqLines), <<"interface", "eth0">>))) @@
    "autoconnect" :> Sets(SetupProfile, "connection", "autoconnect", "true") @@
    "read-only leases" :> Drop(Vendor("rave-management-dhcp.service"), Key("ReadWritePaths", <<"/var/lib/misc">>)) @@
    "no growth" :> Without(Want("multi-user.target", "rave-grow-rootfs.service")) @@
    "driver drift" :> Sets(DpkgStatus, "hailort", "version", "4.24.0") @@
    "model shipped" :> New(Append(Models, "v5"), Dir)

(* Only its configuration differs. *)
SmallRoot == "small root" :> Mode(SshDropIn, "0644")
Mistakes == Harmless @@ Misread @@ WrongSsh @@ NotClonable @@ WrongNetwork @@ SmallRoot

MCTrees == DOMAIN Mistakes
MCFewTrees == {"reviewed", "no FreeBind", "small root"}
MCRootfs == [t \in MCTrees, key \in MCKeyFiles |-> Changed(Reviewed(MCKeyText(key)), Mistakes[t])]
MCConfigurationOf(t) ==
    IF t = "small root" THEN [ReviewedConfiguration EXCEPT !.root_part_size.amount = 8] ELSE ReviewedConfiguration

(* Cards are written of a first release: what a device does depends only   *)
(* on the image it was given.                                              *)
Undisturbed == {[edits |-> 0, builds |-> 1, packages |-> 1, faults |-> 0]}

(* The verifier accepts what is harmless and what it misreads, which alone *)
(* is not plain; and systemd can order any of the images by deleting one   *)
(* job.                                                                    *)
ASSUME Accepted == \A t \in Trees \cap DOMAIN Harmless : Verifies[t, ReviewedKey] /\ Plan[t, ReviewedKey].plain
ASSUME Misreading == \A t \in Trees \cap DOMAIN Misread : Verifies[t, ReviewedKey] /\ ~Plan[t, ReviewedKey].plain
ASSUME Orderable == \A source \in Sources : Plan[source].deleted # {}
=============================================================================
