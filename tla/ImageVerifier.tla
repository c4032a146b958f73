---------------------------- MODULE ImageVerifier ----------------------------
(* scripts/verify_rave_image.py: what it requires of the mounted root      *)
(* filesystem of an image, and of the configuration it is built from.      *)
(* Every require() is a conjunct, in the order of the code; one that fails *)
(* ends the verification, as does a file that cannot be read.              *)
EXTENDS UnitFiles, EngineeringKey

EtcSsh == <<"etc", "ssh">>
AuthorizedKeys == <<"home", "pi", "ssh", "authorized_keys">>
Policies == <<"etc", "ssh", "sshd_config.d">>
Sudoers == <<"etc", "sudoers.d", "90-rave-engineering-ssh">>
SetupProfile == <<"etc", "nm", "system-connections", "rave-setup.nmconnection">>
NmConf(conf) == <<"etc", "nm", "conf.d", conf>>
Networks == <<"etc", "networkd">>
EthernetPolicy == Append(Networks, "10-rave-ethernet.network")
DnsmasqConf == <<"etc", "rave", "dnsmasq.conf">>
AvahiConf == <<"etc", "rave", "avahi-daemon.conf">>
Sysctl == <<"etc", "sysctl.d", "90-rave-network-isolation.conf">>
MachineId == <<"etc", "machine-id">>
DpkgStatus == <<"var", "lib", "dpkg", "status">>
Passwd == <<"etc", "passwd">>
Group == <<"etc", "group">>
Shadow == <<"etc", "shadow">>
Management == <<"opt", "management">>
Web == <<"opt", "web">>
Models == <<"opt", "models">>
ModulesDir == <<"lib", "modules", "6.18.39+rpt-rpi-2712">>

HostKeys_Rsa(r) == {path \in Directly(r, EtcSsh) : Last(path) = "ssh_host_rsa_key"}

HostKeys(r) == {path \in Directly(r, EtcSsh) : Last(path) = "ssh_host_ed25519_key"}
HasEntry(file, section, option, value) ==
    section \in DOMAIN file /\ option \in DOMAIN file[section] /\ file[section][option] = value
Installed(r, name) ==
    LET packages == r[DpkgStatus].text
    IN  name \in DOMAIN packages /\ packages[name].status = "install ok installed"

-----------------------------------------------------------------------------
(* partition_size_mib: an amount with an explicit unit. *)
HasSize(size) == size.unit \in {"M", "G"} /\ size.amount > 0
partition_size_mib(size) == IF size.unit = "M" THEN size.amount ELSE size.amount * 1024

verify_image_configuration(image) ==
    /\ image.layer = "image-rpios"
    /\ {"system_part_size", "data_part_size"} \cap DOMAIN image = {}
    /\ HasSize(image.boot_part_size) /\ HasSize(image.root_part_size)
    /\ partition_size_mib(image.boot_part_size) = 512
    /\ partition_size_mib(image.root_part_size) >= 12 * 1024

-----------------------------------------------------------------------------
verify_shadow_account_password(account, password) ==
    IF account = "pi" THEN password = "hash" ELSE password = "locked"

iter_sensitive_files(r) ==
    {path \in DOMAIN r :
        /\ r[path].kind = "file"
        /\ \E base \in {<<"etc">>, <<"opt">>, <<"var", "lib", "rave">>, <<"var", "log", "rave">>,
                        <<"root">>, <<"home">>} : IsStrictPrefix(base, path)}

verify_clone_safety(r) ==
    /\ IsFile(r, MachineId) /\ r[MachineId].text = "empty"
    /\ <<"var", "lib", "dbus", "machine-id">> \notin DOMAIN r
    /\ HostKeys(r) = {}
    /\ \A base \in {<<"root">>, <<"home">>} : \A path \in Below(r, base) :
           /\ Last(path) = "authorized_keys" => path = AuthorizedKeys \/ r[path].text = "empty"
           /\ Last(path) \notin {"id_rsa", "id_dsa", "id_ecdsa", "id_ed25519"}
    /\ Directly(r, Front(SetupProfile)) \subseteq {SetupProfile}
    /\ \A state \in {"identity", "pairing", "session"} : <<"var", "lib", "rave", state>> \notin DOMAIN r
    /\ \A account \in DOMAIN r[Shadow].text :
           verify_shadow_account_password(account, r[Shadow].text[account])
    /\ "pi" \in DOMAIN r[Shadow].text
    /\ Below(r, <<"var", "log", "rave">>) = {}
    /\ \A dir \in {<<"var", "log">>, <<"var", "cache">>} : \A path \in Below(r, dir) : ~IsFile(r, path)
    /\ \A path \in iter_sensitive_files(r) :
           r[path].traces \subseteq (IF path = Passwd THEN {"home path"} ELSE {})

verify_gate2b_us_regulatory_domain(r) ==
    r[<<"etc", "modprobe.d", "cfg80211_regdomain.conf">>].text = "US"

-----------------------------------------------------------------------------
verify_management_profile(r) ==
    /\ IsFile(r, SetupProfile) /\ r[SetupProfile].mode = "0600"
    /\ LET profile == r[SetupProfile].text
           Has(section, option, value) == HasEntry(profile, section, option, value)
       IN  /\ Has("connection", "id", "RAVE-Setup")
           /\ Has("connection", "uuid", "0fc02a7e-795a-4e05-8952-9ea47f31f695")
           /\ Has("connection", "type", "wifi") /\ Has("connection", "interface-name", "wlan0")
           /\ Has("connection", "autoconnect", "false")
           /\ Has("connection", "autoconnect-priority", "100")
           /\ Has("connection", "wait-device-timeout", "15000")
           /\ Has("wifi", "ssid", "RAVE-Setup") /\ Has("wifi", "mode", "ap")
           /\ Has("ipv4", "method", "manual") /\ Has("ipv4", "address1", "192.168.77.1/24")
           /\ Has("ipv4", "never-default", "true") /\ Has("ipv4", "may-fail", "false")
           /\ {"gateway", "route1", "dns"} \cap DOMAIN profile["ipv4"] = {}
           /\ "dns-search" \in DOMAIN profile["ipv4"] => profile["ipv4"]["dns-search"] = ""
           /\ Has("ipv6", "method", "disabled")
           /\ {"wifi-security", "bridge"} \cap DOMAIN profile = {}

(* The lines <<key, value>>, or <<key>> for a flag. *)
DnsmasqLines ==
    << << <<"interface", "wlan0">> >>, << <<"listen-address", "192.168.77.1">> >>, << <<"bind-interfaces">> >>,
       << <<"port", "0">> >>, << <<"dhcp-range", "192.168.77.100,192.168.77.199,255.255.255.0,12h">> >>,
       << <<"dhcp-option", "3">>, <<"dhcp-option", "6">> >>,
       << <<"dhcp-leasefile", "/var/lib/misc/dnsmasq.leases">> >> >>

verify_dnsmasq_configuration(r) ==
    /\ IsFile(r, DnsmasqConf)
    /\ LET text == r[DnsmasqConf].text
           expected == Range(DnsmasqLines)
           At(key) == {i \in DOMAIN text : text[i][1] = key}
       IN  /\ {line[1] : line \in Range(text)} = {lines[1][1] : lines \in expected}
           /\ \A lines \in expected : LET at == At(lines[1][1]) IN
                  /\ Cardinality(at) = Len(lines)
                  /\ \A i \in at : text[i] = lines[Cardinality({j \in at : j <= i})]

verify_dhcp_service(r) ==
    LET path == Vendor("rave-management-dhcp.service")
        text == r[path].text
        command == systemd_directives(text, "Service", "ExecStart")
        leases == <<"var", "lib", "misc">>
    IN  /\ IsFile(r, path) /\ unit_dropins(r, "rave-management-dhcp.service") = {}
        /\ Terminated(text)
        /\ HasScalar(<<text>>, "Service", "ProtectSystem", "strict")
        /\ effective_systemd_words(<<text>>, "Service", "ReadWritePaths") = <<"/var/lib/misc">>
        /\ Len(command) = 1 /\ command[1] # <<>> /\ command[1][1] = "/usr/sbin/dnsmasq"
        /\ {"--conf-file=/etc/rave/network/dnsmasq.conf", "--no-hosts", "--no-resolv"} \subseteq Range(command[1])
        /\ Is(r, leases, "dir") /\ Guarded(r, leases, "0755", "root")
        /\ Append(leases, "dnsmasq.leases") \notin DOMAIN r

-----------------------------------------------------------------------------
WebCommandAllowed(words) ==
    /\ Cardinality({i \in DOMAIN words : words[i] = "--fd"}) = 1
    /\ \E i \in 1 .. Len(words) - 1 : words[i] = "--fd" /\ words[i + 1] = "3"
    /\ {"--host", "--port", "--uds"} \cap Range(words) = {}

web_socket_dependencies_NoOrder(socket) == DependsOn(socket, {"Requires", "Wants", "PartOf"})

web_socket_dependencies(socket) == DependsOn(socket, {"Requires", "Wants", "After", "Before", "PartOf"})

verify_web_service(r) ==
    /\ \A unit \in {"rave-webd.service", "rave-webd.socket"} :
           IsFile(r, Vendor(unit)) /\ unit_dropins(r, unit) = {} /\ Terminated(r[Vendor(unit)].text)
    /\ LET service == r[Vendor("rave-webd.service")].text
           socket == <<r[Vendor("rave-webd.socket")].text>>
           command == systemd_directives(service, "Service", "ExecStart")
       IN  /\ Len(command) = 1 /\ WebCommandAllowed(command[1])
           /\ "NetworkManager.service" \notin web_socket_dependencies(socket)
           /\ effective_systemd_list(socket, "Socket", "ListenStream") = << <<"8080">> >>
           /\ HasScalar(socket, "Socket", "BindToDevice", "wlan0")
           /\ HasScalar(socket, "Socket", "Service", "rave-webd.service")
           /\ <<"RAVE_PROVIDER=pi">> \in Range(systemd_directives(service, "Service", "Environment"))
           /\ \A setting \in {<<"User", "rave">>, <<"Group", "rave">>, <<"NoNewPrivileges", "true">>,
                              <<"ProtectClock", "true">>, <<"RestrictAddressFamilies", "AF_UNIX">>} :
                  HasScalar(<<service>>, "Service", setting[1], setting[2])
           /\ systemd_directives(service, "Service", "RuntimeDirectory") = <<>>
           /\ effective_systemd_words(<<service>>, "Unit", "Requires") = <<"rave-webd.socket">>
    /\ LinksTo(r, Want("sockets.target", "rave-webd.socket"), Vendor("rave-webd.socket"))

verify_mdns_discovery(r) ==
    /\ Installed(r, "avahi-daemon") /\ IsFile(r, <<"usr", "sbin", "avahi-daemon">>)
    /\ IsFile(r, AvahiConf)
    /\ LET policy == r[AvahiConf].text
       IN  /\ HasEntry(policy, "server", "host-name", "rave-pi")
           /\ HasEntry(policy, "server", "domain-name", "local")
           /\ HasEntry(policy, "server", "allow-interfaces", "wlan0")
           /\ HasEntry(policy, "publish", "publish-addresses", "yes")
           /\ HasEntry(policy, "reflector", "enable-reflector", "no")
    /\ IsFile(r, Vendor("avahi-daemon.service")) /\ Cardinality(unit_dropins(r, "avahi-daemon.service")) = 1
    /\ LET dropin == CHOOSE path \in unit_dropins(r, "avahi-daemon.service") : TRUE
           texts == <<r[Vendor("avahi-daemon.service")].text, r[dropin].text>>
       IN  /\ \A i \in DOMAIN texts : Terminated(texts[i])
           /\ effective_systemd_list(texts, "Service", "ExecStart")
                  = << <<"/usr/sbin/avahi-daemon", "-s", "-f", "/etc/rave/avahi-daemon.conf">> >>
    /\ LinksTo(r, Want("multi-user.target", "avahi-daemon.service"), Vendor("avahi-daemon.service"))
    /\ LinksTo(r, Want("sockets.target", "avahi-daemon.socket"), Vendor("avahi-daemon.socket"))

-----------------------------------------------------------------------------
(* The sources are the contracts that are found in them, or what must not. *)
BackendContracts ==
    {"INTERFACE = wlan0", "PROVISIONING_PROFILE = RAVE-Setup", "SAVED_PROFILE = RAVE-Management",
     "PREVIOUS_PROFILE = RAVE-Management-Previous", "run_with_secret", "os.memfd_create",
     "SYSTEMCTL = /usr/bin/systemctl", "connection.autoconnect no"}
BackendForbidden ==
    {"shell=True", "eth0", "ip_forward", "masquerade", "connection.autoconnect yes",
     "connection.autoconnect-retries"}

verify_networkd_service(r) ==
    LET path == Vendor("rave-networkd.service")
        texts == <<r[path].text>>
        backend == r[Management \o <<"rave_networkd", "backend.py">>].text
        server == r[Management \o <<"rave_networkd", "server.py">>].text
        client == r[Management \o <<"rave_network_ipc", "client.py">>].text
    IN  /\ IsFile(r, path) /\ unit_dropins(r, "rave-networkd.service") = {} /\ Terminated(texts[1])
        /\ systemd_directives(texts[1], "Service", "ExecStart") = << <<"/usr/bin/python3", "-m", "rave_networkd">> >>
        /\ \A setting \in {<<"User", "root">>, <<"Group", "rave">>, <<"NoNewPrivileges", "true">>,
                           <<"ProtectSystem", "strict">>, <<"ProtectClock", "true">>,
                           <<"PrivateDevices", "true">>, <<"RestrictAddressFamilies", "AF_UNIX">>,
                           <<"LimitCORE", "0">>} : HasScalar(texts, "Service", setting[1], setting[2])
        /\ effective_systemd_words(texts, "Service", "ReadWritePaths") = <<"/run/rave">>
        /\ effective_systemd_words(texts, "Service", "CapabilityBoundingSet") = <<>>
        /\ BackendContracts \subseteq backend /\ BackendForbidden \cap backend = {}
        /\ {"SO_PEERCRED", "peer_not_authorized"} \subseteq server
        /\ {"SO_PEERCRED", "expected_server_uid = 0"} \subseteq client

verify_management_install_ownership(r) ==
    /\ r[<<"usr", "tmpfiles.d", "rave.conf">>].text = "d /run/rave 0750 root rave"
    /\ \A base \in {Management, Web} :
           /\ Is(r, base, "dir")
           /\ \A path \in {base} \cup Below(r, base) :
                  r[path].kind # "link" /\ r[path].owner = "root" /\ r[path].mode \in {"0755", "0644"}

verify_timekeeping(r) ==
    /\ LinksTo(r, <<"etc", "localtime">>, "/usr/share/zoneinfo/Etc/UTC")
    /\ Installed(r, "systemd-timesyncd") /\ Enabled(r, "sysinit.target", "systemd-timesyncd.service")
    /\ IsFile(r, <<"var", "lib", "timesync", "clock">>)

verify_runtime_ethernet_configuration(r) ==
    LET dropins == Directly(r, Append(EthernetPolicy, "d"))
        unmanaged == NmConf("10-rave-unmanaged-runtime.conf")
    IN  /\ IsFile(r, EthernetPolicy) /\ dropins = {} /\ Directly(r, Networks) = {EthernetPolicy}
        /\ r[EthernetPolicy].text =
               [Match |-> [name |-> "eth0"],
                Network |-> [address |-> "10.77.0.1/24", dhcp |-> "no", linklocaladdressing |-> "no",
                             defaultrouteondevice |-> "no", ipmasquerade |-> "no", ipv6acceptra |-> "no"]]
        /\ IsFile(r, unmanaged)
        /\ r[unmanaged].text = [keyfile |-> [option \in {"unmanaged-devices"} |-> "interface-name:eth0"]]
        /\ \A path \in Directly(r, Front(unmanaged)) \ {unmanaged} :
               \A section \in Range(r[path].text) : "interface-name:eth0" \notin Range(section)

-----------------------------------------------------------------------------
(* verify_engineering_ethernet_ssh, part by part. *)

SshDropIn == Append(Local("ssh.socket"), "d") \o <<"90-rave-ethernet.conf">>
HostKeysDropIn == Append(Local("ssh.service"), "d") \o <<"90-rave-hostkeys.conf">>
HostKeysUnit == "rave-engineering-ssh-hostkeys.service"

ssh_units(r) ==
    /\ IsFile(r, MachineId) /\ r[MachineId].text = "empty"
    /\ Installed(r, "openssh-server") /\ Installed(r, "sudo")
    /\ \A unit \in {"ssh.socket", "ssh.service", "sshd-keygen.service", HostKeysUnit} : IsFile(r, Vendor(unit))
    /\ IsFile(r, <<"usr", "sbin", "sshd">>) /\ IsFile(r, <<"usr", "bin", "sudo">>)
    /\ unit_dropins(r, "ssh.service") = {HostKeysDropIn} /\ unit_dropins(r, HostKeysUnit) = {}
    /\ \A directive \in {"Requires", "After"} :
           effective_systemd_words(<<r[HostKeysDropIn].text>>, "Unit", directive) = <<HostKeysUnit>>

ssh_socket(r) ==
    LET texts == <<r[Vendor("ssh.socket")].text, r[SshDropIn].text>>
    IN  /\ IsFile(r, SshDropIn) /\ unit_dropins(r, "ssh.socket") = {SshDropIn}
        /\ ~Mentions(r[SshDropIn].text, HostKeysUnit)
        /\ effective_systemd_list(texts, "Socket", "ListenStream") = << <<"10.77.0.1:22">> >>
        /\ HasScalar(texts, "Socket", "FreeBind", "yes")
        /\ effective_systemd_scalar(texts, "Socket", "BindToDevice") \in {<<>>, << <<>> >>}

ssh_enablement(r) ==
    LET wants == {path \in DOMAIN r : Len(path) = 4 /\ path[1] = Local("")[1] /\ path[3] = "wants"
                                      /\ r[path].kind = "link"}
    IN  /\ LinksTo(r, Want("sockets.target", "ssh.socket"), Vendor("ssh.socket"))
        /\ \A path \in wants : Last(r[path].text) \notin {"ssh.service", "sshd.service"}
        /\ {path \in wants : path[4] \in {"ssh.socket", "sshd.socket"}} = {Want("sockets.target", "ssh.socket")}
        /\ \A unit \in {"ssh.socket", "ssh.service"} : Want(unit, "sshd-keygen.service") \notin DOMAIN r

Conditions_PathOnly == {"ConditionPathExists"}

Conditions == {"ConditionFirstBoot", "ConditionPathExists"}

host_keys(r) ==
    LET generator == r[Vendor(HostKeysUnit)].text
    IN  /\ \A line \in {Key("ConditionFirstBoot", <<"yes">>), Key("ConditionPathIsReadWrite", <<"/etc/ssh">>),
                        Key("Before", <<"ssh.service", "sshd.service", "sshd@.service">>),
                        Key("ExecStart", <<"ssh-keygen", "-A">>),
                        Key("WantedBy", <<"ssh.service", "sshd.service", "sshd@.service", "ssh.socket">>)} :
               line \in Range(r[Vendor("sshd-keygen.service")].text)
        /\ \A line \in {Key("Before", <<"ssh.service">>), Key("Type", <<"oneshot">>),
                        Key("ExecStart", <<"/usr/bin/ssh-keygen", "-A">>), Key("RemainAfterExit", <<"yes">>)} :
               line \in Range(generator)
        /\ \A line \in Range(generator) :
               line.words # <<>> => line.words[1] \notin Conditions
        /\ Key("ExecStartPre", <<"/usr/sbin/sshd", "-t">>) \in Range(r[Vendor("ssh.service")].text)
        /\ HostKeys(r) = {}

RequiredPolicy ==
    {<<"PubkeyAuthentication", "yes">>, <<"PasswordAuthentication", "no">>,
     <<"KbdInteractiveAuthentication", "no">>, <<"ChallengeResponseAuthentication", "no">>,
     <<"PermitEmptyPasswords", "no">>, <<"PermitRootLogin", "no">>, <<"AllowUsers", "pi">>,
     <<"AllowTcpForwarding", "no">>, <<"GatewayPorts", "no">>, <<"X11Forwarding", "no">>,
     <<"PermitTunnel", "no">>, <<"AllowAgentForwarding", "no">>}
ForbiddenPolicy ==
    {<<"PasswordAuthentication", "yes">>, <<"KbdInteractiveAuthentication", "yes">>,
     <<"ChallengeResponseAuthentication", "yes">>, <<"PermitRootLogin", "yes">>, <<"AllowUsers", "root">>}

sshd_policy(r) ==
    LET main == Append(EtcSsh, "sshd_config")
        policy == Append(Policies, "90-rave-ethernet.conf")
    IN  /\ IsFile(r, policy) /\ <<"Include", "/etc/ssh/sshd_config.d/*.conf">> \in r[main].text
        /\ RequiredPolicy \subseteq r[policy].text /\ ForbiddenPolicy \cap r[policy].text = {}
        /\ \A path \in {main} \cup Directly(r, Policies) :
               \A line \in r[path].text : line[1] # "ListenAddress"

pi_account(r) ==
    LET pi == r[Passwd].text["pi"] IN
    /\ "pi" \in DOMAIN r[Passwd].text /\ "pi" \in DOMAIN r[Shadow].text
    /\ r[Shadow].text["pi"] = "hash" /\ pi.shell \notin {"/usr/sbin/nologin", "/bin/false"}
    /\ IsFile(r, AuthorizedKeys) /\ parse_public_key(r[AuthorizedKeys].text)
    /\ Guarded(r, Front(AuthorizedKeys), "0700", "pi") /\ Guarded(r, AuthorizedKeys, "0600", "pi")
    /\ IsFile(r, Sudoers) /\ r[Sudoers].text = "pi ALL=(ALL:ALL) NOPASSWD: ALL" /\ Guarded(r, Sudoers, "0440", "root")
    /\ Append(Front(Sudoers), "010_rpi-nopasswd") \notin DOMAIN r
    /\ "sudo" \in DOMAIN r[Group].text /\ "pi" \notin r[Group].text["sudo"] /\ pi.group # "sudo"

ManagementStack ==
    {"rave-wifi-init.service", "rave-networkd.service", "rave-management-dhcp.service",
     "rave-webd.socket", "rave-webd.service", "NetworkManager.service",
     "NetworkManager-wait-online.service", "network-online.target"}
DeviceUnits == {"eth0.device", "wlan0.device"}

dependency_isolation(r) ==
    \A texts \in {<<r[Vendor("ssh.socket")].text, r[SshDropIn].text>>,
                  <<r[Vendor("ssh.service")].text, r[HostKeysDropIn].text>>,
                  <<r[Vendor(HostKeysUnit)].text>>} :
        /\ \A i \in DOMAIN texts : Terminated(texts[i])
        /\ DependsOn(texts, {"Requires", "Wants", "After", "Before", "BindsTo", "PartOf"})
               \cap (ManagementStack \cup DeviceUnits) = {}

verify_engineering_ethernet_ssh(r) ==
    ssh_units(r) /\ ssh_socket(r) /\ ssh_enablement(r) /\ host_keys(r)
    /\ sshd_policy(r) /\ pi_account(r) /\ dependency_isolation(r)

(* An engineering image is never one that may be published. *)
verify_publishable_image_has_no_engineering_ssh(r) ==
    {Append(Policies, "90-rave-ethernet.conf"), Sudoers, HostKeysDropIn, SshDropIn, AuthorizedKeys,
     Vendor(HostKeysUnit)} \cap DOMAIN r = {}

-----------------------------------------------------------------------------
KernelPackages ==
    {"linux-image-rpi-2712", "linux-headers-rpi-2712",
     "linux-image-6.18.39+rpt-rpi-2712", "linux-headers-6.18.39+rpt-rpi-2712"}
Pinned ==
    [name \in KernelPackages |-> [version |-> "1:6.18.39-1+rpt1", arch |-> "arm64"]] @@
    ("hailort" :> [version |-> "4.23.0", arch |-> "arm64"] @@
     "hailort-pcie-driver" :> [version |-> "4.23.0", arch |-> "all"])
(* Each stands for itself and for what it is the first part of. *)
Forbidden == {"dkms", "hailo-dkms", "hailo-all", "python3-hailort", "hailo-tappas", "tappas",
              "hailo-model-zoo", "hailo-dataflow-compiler"}
Contract ==
    [ACCELERATOR |-> "HAILO8", KERNEL_RELEASE |-> Last(ModulesDir),
     KERNEL_PACKAGE_VERSION |-> "1:6.18.39-1+rpt1", HAILORT_VERSION |-> "4.23.0",
     PCIE_DRIVER_VERSION |-> "4.23.0", IMAGE_CONTRACT |-> "M2A"]

verify_hailo_stack(r) ==
    LET compatibility == <<"etc", "rave", "compatibility">>
        packages == r[DpkgStatus].text
        matches == {path \in Below(r, ModulesDir) : Last(path) = "hailo_pci.ko"}
        firmware == <<"lib", "firmware", "hailo", "hailo8_fw.bin">>
    IN  /\ Append(compatibility, "HAILO_STACK_NOT_INTEGRATED") \notin DOMAIN r
        /\ IsFile(r, Append(compatibility, "hailo-stack.env"))
        /\ r[Append(compatibility, "hailo-stack.env")].text = Contract
        /\ IsFile(r, DpkgStatus)
        /\ \A name \in DOMAIN Pinned :
               Installed(r, name) /\ packages[name].version = Pinned[name].version
                                  /\ packages[name].arch = Pinned[name].arch
        /\ \A name \in DOMAIN packages :
               packages[name].status # "unknown ok not-installed" => name \notin Forbidden
        /\ matches = {ModulesDir \o <<"kernel/drivers/misc", "hailo_pci.ko">>}
        /\ \A path \in matches : IsFile(r, path) /\ r[path].text # "empty"
        /\ IsFile(r, Append(ModulesDir, "modules.dep")) /\ "hailo_pci.ko" \in r[Append(ModulesDir, "modules.dep")].text
        /\ LinksTo(r, firmware, "hailo8_fw.4.23.0.bin")
        /\ Append(Front(firmware), r[firmware].text) \in DOMAIN r
        /\ r[Append(Front(firmware), r[firmware].text)].text # "empty"
        /\ \A path \in {<<"lib", "udev", "51-hailo-udev.rules">>, <<"etc", "modprobe.d", "hailo_pci.conf">>} :
               IsFile(r, path) /\ r[path].text # "empty"
        /\ r[<<"var", "lib", "dpkg", "hailort-pcie-driver.postinst">>].text = "vendor postinst"

verify_model_store(r) ==
    Is(r, Models, "dir") /\ Guarded(r, Models, "0755", "root") /\ Below(r, Models) = {}

-----------------------------------------------------------------------------
(* verify_rootfs, part by part. *)

target_accounts(r) ==
    /\ "rave" \in DOMAIN r[Passwd].text /\ "rave" \in DOMAIN r[Group].text
    /\ r[Passwd].text["rave"].home = "/var/lib/rave" /\ r[Passwd].text["rave"].shell = "/usr/sbin/nologin"

RequiredModes ==
    <<"opt">> :> <<"0755", "root">> @@ <<"etc", "rave">> :> <<"0755", "root">> @@
    <<"var", "lib", "rave">> :> <<"0750", "rave">> @@ <<"var", "log", "rave">> :> <<"0750", "rave">>

required_modes(r) ==
    \A path \in DOMAIN RequiredModes :
        Is(r, path, "dir") /\ Guarded(r, path, RequiredModes[path][1], RequiredModes[path][2])

AvahiDropIn == Append(Vendor("avahi-daemon.service"), "d") \o <<"90-rave-management.conf">>
GrowScript == <<"usr", "libexec", "rave-grow-rootfs">>
GrowUnit == Vendor("rave-grow-rootfs.service")
RequiredFiles ==
    {<<"usr", "libexec", "rave-model">>, <<"usr", "tmpfiles.d", "rave.conf">>,
     Vendor("rave-networkd.service"), Vendor("rave-webd.socket"), Vendor("rave-webd.service"),
     Vendor("rave-management-dhcp.service"), AvahiDropIn, GrowScript, GrowUnit,
     SetupProfile, DnsmasqConf, AvahiConf, Sysctl, EthernetPolicy,
     NmConf("10-rave-unmanaged-runtime.conf"), NmConf("20-rave-wifi-backend.conf"),
     <<"usr", "doc", "THIRD_PARTY_NOTICES.md">>, <<"opt", "runtime", "PERCEPTION_NOT_INTEGRATED">>,
     <<"var", "lib", "rave", "update", "UPDATE_SERVICE_NOT_INTEGRATED">>}
    \cup {Management \o <<"rave_network_ipc", name>> : name \in {"client.py", "protocol.py", "state.py"}}
    \cup {Management \o <<"rave_networkd", name>> : name \in {"backend.py", "controller.py", "server.py"}}
    \cup {Append(Web, name) : name \in {"app.py", "providers.py", "index.html", "app.css", "app.js", "navigation.js"}}
Obsolete ==
    {<<"opt", "web", "WEB_PACKAGE_NOT_INSTALLED">>, Vendor("rave-wifi-init.service"),
     <<"usr", "libexec", "rave-wifi-init">>,
     Append(Local("NetworkManager-wait-online.service"), "d") \o <<"10-rave-wifi-init.conf">>}
RuntimePackages ==
    {"python3-fastapi", "python3-pydantic", "python3-uvicorn", "network-manager", "wpasupplicant",
     "dnsmasq-base", "cloud-guest-utils", "e2fsprogs", "util-linux"}

required_files(r) ==
    /\ \A path \in RequiredFiles : IsFile(r, path)
    /\ Obsolete \cap DOMAIN r = {}
    /\ \A name \in RuntimePackages : Installed(r, name)

GrowContracts == {"by-slot/system", "by-slot/boot", "growpart", "resize2fs", "unlink", "verify_expanded_geometry",
                  "verify_filesystem_size"}

boot_enablement(r) ==
    LET grow == <<r[GrowUnit].text>>
        Starts(unit) == Enabled(r, "multi-user.target", unit)
    IN  /\ \A unit \in {"rave-grow-rootfs.service", "rave-networkd.service", "NetworkManager.service",
                         "systemd-networkd.service"} : Starts(unit)
        /\ GrowContracts \subseteq r[GrowScript].text /\ Terminated(grow[1])
        /\ HasScalar(grow, "Service", "ProtectSystem", "full")
        /\ effective_systemd_words(grow, "Unit", "After") = <<"local-fs.target", "systemd-udev-settle.service">>
        /\ {Key("ExecStart", <<"/usr/libexec/rave/rave-grow-rootfs">>), Key("Type", <<"oneshot">>)} \subseteq Range(grow[1])
        /\ effective_systemd_words(grow, "Unit", "Before") = <<"rave-networkd.service">>
        /\ ~Starts("rave-webd.service") /\ ~Starts("rave-management-dhcp.service")
        /\ ~Enabled(r, "network-online.target", "NetworkManager-wait-online.service")

ManagementUnits == {"rave-management-dhcp.service", "rave-webd.service", "rave-webd.socket", "rave-networkd.service"}

single_owners(r) ==
    /\ \A unit \in ManagementUnits : \A word \in {"network-online.target", "NetworkManager-wait-online.service"} :
           ~Mentions(r[Vendor(unit)].text, word)
    /\ {"02-wlan0.network", "01-eth0.network"} \cap {Last(path) : path \in Directly(r, Networks)} = {}
    /\ LinksTo(r, Local("iwd.service"), "/dev/null")
    /\ verify_runtime_ethernet_configuration(r)
    /\ HasEntry(r[NmConf("20-rave-wifi-backend.conf")].text, "device", "wifi.backend", "wpa_supplicant")
    /\ IsFile(r, <<"usr", "sbin", "wpa_supplicant">>)

(* In the INI files a setting has one of these words as a value. *)
no_forwarding(r) ==
    LET forbidden == {"masquerade", "snat", "dnat", "iptables", "nft", "0.0.0.0"} IN
    /\ {"net.ipv4.ip_forward=0", "net.ipv6.conf.all.forwarding=0"} \subseteq r[Sysctl].text
    /\ forbidden \cap r[Sysctl].text = {}
    /\ \A unit \in ManagementUnits \ {"rave-management-dhcp.service"} : \A word \in forbidden :
           ~Mentions(r[Vendor(unit)].text, word)
    /\ \A line \in Range(r[DnsmasqConf].text) : forbidden \cap Range(line) = {}
    /\ \A path \in {SetupProfile, AvahiConf} : \A section \in Range(r[path].text) :
           \A option \in DOMAIN section : section[option] \notin forbidden

verify_rootfs(r) ==
    /\ verify_clone_safety(r) /\ verify_gate2b_us_regulatory_domain(r) /\ verify_timekeeping(r)
    /\ verify_hailo_stack(r) /\ verify_model_store(r) /\ verify_engineering_ethernet_ssh(r)
    /\ target_accounts(r) /\ required_modes(r) /\ verify_management_install_ownership(r)
    /\ required_files(r)
    /\ verify_web_service(r) /\ verify_mdns_discovery(r) /\ verify_networkd_service(r)
    /\ boot_enablement(r) /\ verify_dhcp_service(r) /\ single_owners(r)
    /\ verify_management_profile(r) /\ verify_dnsmasq_configuration(r) /\ no_forwarding(r)
=============================================================================
