------------------------------ MODULE RaveImage ------------------------------
(* The root filesystem that the layers of image/ build from the Debian     *)
(* packages: image/layer/*.yaml, the hooks in image/bdebstrap, and the     *)
(* units, drop-ins and overlays they install.  Each layer is a function of *)
(* the paths it leaves behind; a later one is put before an earlier one.   *)
EXTENDS ImageVerifier

Blank(paths) == [path \in paths |-> File({})]
At(dir, names) == {dir \o <<name>> : name \in names}
Links(target, units) == [path \in {Want(target, unit) : unit \in units} |-> Link(Vendor(path[4]))]
Unit(name, lines) == Vendor(name) :> File(lines)
Package(version, arch) == [status |-> "install ok installed", version |-> version, arch |-> arch]

(* What the packages bring: openssh-server, avahi-daemon, network-manager, *)
(* systemd and the distribution's own files.                               *)
Debian ==
    Unit("ssh.socket", <<Section("Unit"), Key("Before", <<"sockets.target">>),
                         Section("Socket"), Key("ListenStream", <<"22">>), Key("Accept", <<"no">>)>>) @@
    Unit("ssh.service", <<Section("Unit"), Key("After", <<"network.target">>), Section("Service"),
                          Key("ExecStartPre", <<"/usr/sbin/sshd", "-t">>),
                          Key("ExecStart", <<"/usr/sbin/sshd", "-D">>)>>) @@
    Unit("sshd-keygen.service",
         <<Section("Unit"), Key("ConditionFirstBoot", <<"yes">>),
           Key("ConditionPathIsReadWrite", <<"/etc/ssh">>),
           Key("Before", <<"ssh.service", "sshd.service", "sshd@.service">>), Section("Service"),
           Key("ExecStart", <<"ssh-keygen", "-A">>), Section("Install"),
           Key("WantedBy", <<"ssh.service", "sshd.service", "sshd@.service", "ssh.socket">>)>>) @@
    Unit("avahi-daemon.service",
         <<Section("Unit"), Key("Requires", <<"avahi-daemon.socket">>), Section("Service"),
           Key("ExecStart", <<"/usr/sbin/avahi-daemon", "-s">>)>>) @@
    Unit("avahi-daemon.socket", <<Section("Socket"), Key("ListenStream", <<"/run/avahi-daemon/socket">>)>>) @@
    Unit("NetworkManager.service", <<Section("Unit"), Key("Before", <<"network.target">>)>>) @@
    Unit("systemd-networkd.service", <<Section("Unit"), Key("DefaultDependencies", <<"no">>),
                                       Key("Before", <<"network.target">>)>>) @@
    Links("sysinit.target", {"systemd-timesyncd.service"}) @@
    Blank(At(<<"usr", "sbin">>, {"avahi-daemon", "sshd", "wpa_supplicant"})
          \cup {<<"usr", "bin", "sudo">>, <<"var", "lib", "timesync", "clock">>}) @@
    Append(EtcSsh, "sshd_config") :> File({<<"Include", "/etc/ssh/sshd_config.d/*.conf">>, <<"UsePAM", "yes">>}) @@
    <<"etc", "localtime">> :> Link("/usr/share/zoneinfo/Etc/UTC") @@
    <<"etc", "modprobe.d", "cfg80211_regdomain.conf">> :> File("US") @@
    Passwd :> File([pi |-> [home |-> "/home/pi", shell |-> "/bin/bash", group |-> "pi"],
                    rave |-> [home |-> "/var/lib/rave", shell |-> "/usr/sbin/nologin", group |-> "rave"]]) @@
    Group :> File([pi |-> {}, rave |-> {}, sudo |-> {}]) @@
    DpkgStatus :> File(
        [name \in DOMAIN Pinned |-> Package(Pinned[name].version, Pinned[name].arch)] @@
        [name \in RuntimePackages \cup {"openssh-server", "sudo", "avahi-daemon", "systemd-timesyncd"} |->
            Package("any", "arm64")])

rave_base ==
    <<"opt">> :> Dir @@ <<"etc", "rave">> :> Dir @@ Models :> Dir @@
    <<"var", "lib", "rave">> :> [Dir EXCEPT !.mode = "0750", !.owner = "rave"] @@
    <<"usr", "libexec", "rave-model">> :> File({}) @@
    <<"usr", "tmpfiles.d", "rave.conf">> :> File("d /run/rave 0750 root rave") @@
    GrowScript :> File(GrowContracts) @@
    Unit("rave-grow-rootfs.service",
         <<Section("Unit"), Key("After", <<"local-fs.target", "systemd-udev-settle.service">>),
           Key("Before", <<"rave-networkd.service">>), Section("Service"), Key("Type", <<"oneshot">>),
           Key("ExecStart", <<"/usr/libexec/rave/rave-grow-rootfs">>), Key("ProtectSystem", <<"full">>)>>) @@
    Links("multi-user.target", {"rave-grow-rootfs.service"})

(* rave-hailo, rave-runtime and rave-update. *)
rave_hailo ==
    LET module == ModulesDir \o <<"kernel/drivers/misc", "hailo_pci.ko">> IN
    <<"etc", "rave", "compatibility", "hailo-stack.env">> :> File(Contract) @@
    module :> File("module") @@ Append(ModulesDir, "modules.dep") :> File({"hailo_pci.ko"}) @@
    <<"lib", "firmware", "hailo", "hailo8_fw.bin">> :> Link("hailo8_fw.4.23.0.bin") @@
    <<"lib", "firmware", "hailo", "hailo8_fw.4.23.0.bin">> :> File("firmware") @@
    <<"lib", "udev", "51-hailo-udev.rules">> :> File("rules") @@
    <<"etc", "modprobe.d", "hailo_pci.conf">> :> File("options") @@
    <<"var", "lib", "dpkg", "hailort-pcie-driver.postinst">> :> File("vendor postinst") @@
    Blank({<<"opt", "runtime", "PERCEPTION_NOT_INTEGRATED">>,
           <<"var", "lib", "rave", "update", "UPDATE_SERVICE_NOT_INTEGRATED">>})

Hardened == <<Key("NoNewPrivileges", <<"true">>), Key("ProtectSystem", <<"strict">>),
              Key("ProtectClock", <<"true">>), Key("PrivateDevices", <<"true">>),
              Key("RestrictAddressFamilies", <<"AF_UNIX">>), Key("CapabilityBoundingSet", <<>>)>>

customize80_rave_network ==
    Unit("rave-networkd.service",
         <<Section("Unit"), Key("Requires", <<"NetworkManager.service">>), Key("After", <<"NetworkManager.service">>),
           Section("Service"), Key("User", <<"root">>), Key("Group", <<"rave">>),
           Key("ExecStart", <<"/usr/bin/python3", "-m", "rave_networkd">>), Key("LimitCORE", <<"0">>),
           Key("ReadWritePaths", <<"/run/rave">>)>> \o Hardened) @@
    Unit("rave-management-dhcp.service",
         <<Section("Unit"), Key("Requires", <<"NetworkManager.service">>), Key("After", <<"NetworkManager.service">>),
           Section("Service"), Key("ExecStart", <<"/usr/sbin/dnsmasq", "--keep-in-foreground",
                                                  "--conf-file=/etc/rave/network/dnsmasq.conf", "--no-hosts", "--no-resolv">>),
           Key("ProtectSystem", <<"strict">>), Key("ReadWritePaths", <<"/var/lib/misc">>)>>) @@
    Links("multi-user.target", {"NetworkManager.service", "systemd-networkd.service", "rave-networkd.service"}) @@
    Local("iwd.service") :> Link("/dev/null") @@ <<"var", "lib", "misc">> :> Dir @@
    SetupProfile :> Private(
        [connection |-> "id" :> "RAVE-Setup" @@ "uuid" :> "0fc02a7e-795a-4e05-8952-9ea47f31f695" @@ "type" :> "wifi"
                        @@ "interface-name" :> "wlan0" @@ "autoconnect" :> "false"
                        @@ "autoconnect-priority" :> "100" @@ "wait-device-timeout" :> "15000",
         wifi |-> [mode |-> "ap", ssid |-> "RAVE-Setup", band |-> "bg"],
         ipv4 |-> "method" :> "manual" @@ "address1" :> "192.168.77.1/24" @@ "never-default" :> "true"
                  @@ "may-fail" :> "false" @@ "dns-search" :> "",
         ipv6 |-> [method |-> "disabled"]]) @@
    DnsmasqConf :> File(FlattenSeq(DnsmasqLines)) @@
    Sysctl :> File({"net.ipv4.ip_forward=0", "net.ipv6.conf.all.forwarding=0"}) @@
    EthernetPolicy :> File(
        [Match |-> [name |-> "eth0"],
         Network |-> [address |-> "10.77.0.1/24", dhcp |-> "no", linklocaladdressing |-> "no",
                      defaultrouteondevice |-> "no", ipmasquerade |-> "no", ipv6acceptra |-> "no"]]) @@
    NmConf("10-rave-unmanaged-runtime.conf") :> File([keyfile |-> "unmanaged-devices" :> "interface-name:eth0"]) @@
    NmConf("20-rave-wifi-backend.conf") :> File([device |-> "wifi.backend" :> "wpa_supplicant"]) @@
    Management :> Dir @@
    Management \o <<"rave_networkd", "backend.py">> :> File(BackendContracts) @@
    Management \o <<"rave_networkd", "server.py">> :> File({"SO_PEERCRED", "peer_not_authorized"}) @@
    Management \o <<"rave_network_ipc", "client.py">> :> File({"SO_PEERCRED", "expected_server_uid = 0"}) @@
    Blank(At(Append(Management, "rave_network_ipc"), {"protocol.py", "state.py"})
          \cup {Management \o <<"rave_networkd", "controller.py">>})

(* The key is the one that IGconf_rave_ssh_public_key passes.  The hook    *)
(* also removes the links with which openssh-server starts ssh.service and *)
(* its own host-key generator, and pi from the group sudo.                 *)
customize85_rave_engineering_ssh(key) ==
    Append(Policies, "90-rave-ethernet.conf") :> File(RequiredPolicy) @@
    SshDropIn :> File(<<Section("Socket"), Key("ListenStream", <<>>), Key("ListenStream", <<"10.77.0.1:22">>),
                        Key("FreeBind", <<"yes">>)>>) @@
    HostKeysDropIn :> File(<<Section("Unit"), Key("Requires", <<HostKeysUnit>>), Key("After", <<HostKeysUnit>>)>>) @@
    Unit(HostKeysUnit, <<Section("Unit"), Key("Before", <<"ssh.service">>), Section("Service"),
                         Key("Type", <<"oneshot">>), Key("ExecStart", <<"/usr/bin/ssh-keygen", "-A">>),
                         Key("RemainAfterExit", <<"yes">>)>>) @@
    Sudoers :> [File("pi ALL=(ALL:ALL) NOPASSWD: ALL") EXCEPT !.mode = "0440"] @@
    Front(AuthorizedKeys) :> [Dir EXCEPT !.mode = "0700", !.owner = "pi"] @@
    AuthorizedKeys :> [Private(key) EXCEPT !.owner = "pi"] @@
    Shadow :> File([pi |-> "hash", rave |-> "locked", root |-> "locked"]) @@
    Links("sockets.target", {"ssh.socket"})

customize90_rave_web ==
    Web :> Dir @@ Blank(At(Web, {"app.py", "providers.py", "index.html", "app.css", "app.js", "navigation.js"})) @@
    Unit("rave-webd.service",
         <<Section("Unit"), Key("Requires", <<"rave-webd.socket">>), Key("After", <<"rave-webd.socket">>),
           Section("Service"), Key("User", <<"rave">>), Key("Group", <<"rave">>),
           Key("Environment", <<"RAVE_PROVIDER=pi">>),
           Key("ExecStart", <<"/usr/bin/python3", "-m", "uvicorn", "rave_web.app:app", "--fd", "3">>)>> \o Hardened) @@
    Unit("rave-webd.socket",
         <<Section("Socket"), Key("ListenStream", <<"8080">>), Key("BindToDevice", <<"wlan0">>),
           Key("Service", <<"rave-webd.service">>)>>) @@
    Links("sockets.target", {"rave-webd.socket", "avahi-daemon.socket"}) @@
    Links("multi-user.target", {"avahi-daemon.service"}) @@
    AvahiConf :> File([server |-> "host-name" :> "rave-pi" @@ "domain-name" :> "local" @@ "allow-interfaces" :> "wlan0",
                       publish |-> "publish-addresses" :> "yes", reflector |-> "enable-reflector" :> "no"]) @@
    AvahiDropIn :> File(<<Section("Service"), Key("ExecStart", <<>>),
                          Key("ExecStart", <<"/usr/sbin/avahi-daemon", "-s", "-f", "/etc/rave/avahi-daemon.conf">>)>>) @@
    <<"usr", "doc", "THIRD_PARTY_NOTICES.md">> :> File({})

(* What is left of logs and caches by the cleanup hook, and of the host's  *)
(* identity.                                                               *)
rave_identity ==
    MachineId :> File("empty") @@ <<"var", "log", "rave">> :> [Dir EXCEPT !.mode = "0750", !.owner = "rave"]

Reviewed(key) ==
    rave_identity @@ customize90_rave_web @@ customize85_rave_engineering_ssh(key) @@
    customize80_rave_network @@ rave_hailo @@ rave_base @@ Debian

ReviewedConfiguration ==
    [layer |-> "image-rpios", boot_part_size |-> [amount |-> 512, unit |-> "M"],
     root_part_size |-> [amount |-> 12, unit |-> "G"]]
====
