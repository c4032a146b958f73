----------------------------- MODULE ApplianceBoot -----------------------------
(* What devices become whose cards are written with an image: the jobs     *)
(* that systemd queues for the units in it, the order they run in, what    *)
(* then listens where, and the identity a device gives itself.  The units  *)
(* are the repository's (systemd/, image/); systemd is external.           *)
EXTENDS Images

CONSTANTS Devices, MaxBoots, MaxBootFaults    \* the last two are bounds

VARIABLES
    card,        \* by device: the image on its card, as systemd takes it
    identity,    \* by device: machine id and SSH host keys
    on,          \* the device that is on, one at a time
    systemd,     \* on it, by unit: off, waiting, up, stuck or failed
    visit,       \* its boot: is it the first, did a part of it fail, has
                 \* somebody connected to port 22
    boots

boot_vars == <<card, identity, on, systemd, visit, boots>>

Interfaces == {"eth0", "wlan0"}
Targets == {"sockets.target", "basic.target", "network.target"}
Sockets == {"ssh.socket", "rave-webd.socket", "avahi-daemon.socket"}
MayHang == {"NetworkManager.service", "avahi-daemon.service", "rave-grow-rootfs.service"}
Services == MayHang \cup {"systemd-networkd.service", "rave-networkd.service", "ssh.service", HostKeysUnit}
Units == Targets \cup Sockets \cup Services \cup DeviceUnits
DeviceOf == [i \in Interfaces |-> IF i = "eth0" THEN "eth0.device" ELSE "wlan0.device"]
NameOf == [i \in Interfaces |-> IF i = "eth0" THEN "interface-name:eth0" ELSE "interface-name:wlan0"]
ServiceOf == "ssh.socket" :> "ssh.service" @@ "avahi-daemon.socket" :> "avahi-daemon.service"

ASSUME DeviceAssumption == None \notin Devices

(* The units and their drop-ins are texts. *)
UnitPaths(r, unit) == ({Vendor(unit), Local(unit)} \cap DOMAIN r) \cup unit_dropins(r, unit)
ASSUME UnitTextAssumption ==
    \A source \in Sources, unit \in Units : \A path \in UnitPaths(Rootfs[source], unit) :
        Rootfs[source][path].text \in Seq(Lines)

-----------------------------------------------------------------------------
(* systemd.unit(5), systemd.socket(5), bootup(7), for the units of r *)

Words(values) == UNION {Range(value) : value \in values}
BoundTo(r, u) ==
    {DeviceOf[i] : i \in Words(Range(effective_systemd_scalar(UnitTexts(r, u), "Socket", "BindToDevice")))}
Needs(r, u) == (Dependencies(r, u, "Requires") \cap Units) \cup (IF u \in Sockets THEN BoundTo(r, u) ELSE {})
Wanted(r, target) == {u \in Units : Enabled(r, target, u)}
Pulled(r, units) ==
    LET Closure[n \in 0 .. Cardinality(Services)] ==
            IF n = 0 THEN units
            ELSE LET pulled == Closure[n - 1] IN
                 pulled \cup UNION {Needs(r, u) \cup (Dependencies(r, u, "Wants") \cap Units) : u \in pulled}
    IN  Closure[Cardinality(Services)]
Jobs(r) == Pulled(r, Targets \cup DeviceUnits \cup Wanted(r, "multi-user.target") \cup Wanted(r, "sockets.target"))

(* What u waits for: by its own words, by others', or by default. *)
Implicit(r, u) ==
    CASE u \in Services /\ ~HasScalar(UnitTexts(r, u), "Unit", "DefaultDependencies", "no") ->
             {"basic.target"} \cup {socket \in DOMAIN ServiceOf : ServiceOf[socket] = u}
      [] u = "basic.target" -> {"sockets.target"}
      [] u = "sockets.target" -> Sockets
      [] u \in Sockets -> BoundTo(r, u)
      [] OTHER -> {}
After(r, u) ==
    Implicit(r, u) \cup (Dependencies(r, u, "After") \cap Units)
    \cup {v \in Units : u \in Dependencies(r, v, "Before")}

(* One job of an ordering cycle is deleted. *)
Ordered(jobs, order) ==
    LET Run[n \in 0 .. Cardinality(jobs)] ==
            IF n = 0 THEN {}
            ELSE LET run == Run[n - 1] IN {u \in jobs : \A v \in jobs \ run : <<v, u>> \notin order}
    IN  Run[Cardinality(jobs)] = jobs
Deleted(jobs, order) ==
    IF Ordered(jobs, order) THEN {{}} ELSE {drop \in {{u} : u \in jobs} : Ordered(jobs \ drop, order)}

AddressedBy(r) ==
    [i \in Interfaces |-> {r[path].text.Network.address : path \in {p \in Directly(r, Networks) : r[p].text.Match.name = i}}]

(* Linux delivers what is sent to an address of the host on whichever      *)
(* interface it arrives: only BindToDevice= confines a socket to one.      *)
Reachable(r, u) ==
    IF BoundTo(r, u) = {} THEN Interfaces ELSE {i \in Interfaces : DeviceOf[i] \in BoundTo(r, u)}
ListensOn(r, u) == Words(Setting(r, u, "Socket", "ListenStream"))

AvahiAllowed(r) ==
    LET server == r[AvahiConf].text.server
        configured == "/etc/rave/avahi-daemon.conf"
                          \in Words(Setting(r, "avahi-daemon.service", "Service", "ExecStart"))
    IN  IF configured /\ "allow-interfaces" \in DOMAIN server
        THEN {server["allow-interfaces"]} ELSE Interfaces

Unmanaged(r) ==
    {i \in Interfaces : \E path \in Directly(r, Front(NmConf(""))) :
         HasEntry(r[path].text, "keyfile", "unmanaged-devices", NameOf[i])}

(* What a unit that is up makes reachable, and what it configures. *)
Serves(r, u) ==
    CASE u = "ssh.socket" -> Reachable(r, u) \X {"ssh"}
      [] u = "rave-webd.socket" -> Reachable(r, u) \X {"web"}
      [] u = "avahi-daemon.service" -> AvahiAllowed(r) \X {"mdns"}
      [] u = "rave-networkd.service" ->
             {line[2] : line \in {l \in Range(r[DnsmasqConf].text) : l[1] = "interface"}} \X {"dhcp"}
      [] OTHER -> {}
Manages(r, u) ==
    CASE u = "NetworkManager.service" -> Interfaces \ Unmanaged(r)
      [] u = "systemd-networkd.service" -> {i \in Interfaces : AddressedBy(r)[i] # {}}
      [] OTHER -> {}

(* No whole unit in /etc takes the place of one that the verifier reads,   *)
(* which looks there for drop-ins and enabled units only (282-288), and    *)
(* the lines of the units are what both take them for (131-154).           *)
IsPlain(r) ==
    \A u \in Units :
        Local(u) \notin DOMAIN r /\ \A path \in UnitPaths(r, u) : ReadAlike(r[path].text)

(* What there is to know of an image; `verified` and `plain` are of no     *)
(* consequence to a device.                                                *)
PlanOf(r, verified, jobs, order) ==
    [verified |-> verified, plain |-> IsPlain(r),
     jobs |-> jobs, after |-> [u \in Units |-> {v \in Units : <<v, u>> \in order}],
     needs |-> [u \in Units |-> Needs(r, u)],
     deleted |-> Deleted(jobs, order), for_ssh |-> Pulled(r, {"ssh.service"}),
     free_bind |-> HasScalar(UnitTexts(r, "ssh.socket"), "Socket", "FreeBind", "yes"),
     loads |-> {u \in Services : Cardinality(Setting(r, u, "Service", "ExecStart")) <= 1},
     once |-> {u \in Services : HasScalar(UnitTexts(r, u), "Unit", "ConditionFirstBoot", "yes")},
     listens |-> ListensOn(r, "ssh.socket"),
     serves |-> [u \in Units |-> Serves(r, u)], manages |-> [u \in Units |-> Manages(r, u)],
     forwards |-> "net.ipv4.ip_forward=0" \notin r[Sysctl].text,
     machine |-> r[MachineId].text,
     keys |-> {r[path].text : path \in {p \in Directly(r, EtcSsh) : Last(p) = "ssh_host_ed25519_key"}},
     networks |-> Directly(r, Front(SetupProfile)) \ {SetupProfile}]
Plan == [source \in Sources |->
    CHOOSE plan \in {PlanOf(r, Verifies[source], Jobs(r), UNION {After(r, u) \X {u} : u \in Units}) :
                         r \in {Rootfs[source]}} : TRUE]

-----------------------------------------------------------------------------
BootInit ==
    /\ card = [d \in Devices |-> None] /\ identity = [d \in Devices |-> None]
    /\ on = None /\ systemd = [u \in Units |-> "off"]
    /\ visit = [first |-> FALSE, faulty |-> FALSE, requested |-> FALSE]
    /\ boots = [powered |-> 0, faults |-> 0]

image == card[on]
Becomes(u, state) == systemd' = [systemd EXCEPT ![u] = state]
BootFault ==
    /\ boots.faults < MaxBootFaults
    /\ boots' = [boots EXCEPT !.faults = @ + 1] /\ visit' = [visit EXCEPT !.faulty = TRUE]

(* Whether an empty machine-id makes a first boot, for ConditionFirstBoot=, *)
(* is left open.                                                           *)
power_on ==
    /\ on = None /\ boots.powered < MaxBoots
    /\ boots' = [boots EXCEPT !.powered = @ + 1]
    /\ \E d \in Devices :
           /\ card[d] # None /\ on' = d
           /\ \E dropped \in card[d].deleted :
                  systemd' = [u \in Units |-> IF u \in card[d].jobs \ dropped THEN "waiting" ELSE "off"]
           /\ \E first \in {FALSE, identity[d].machine = "empty" /\ card[d].once # {}} :
                  visit' = [first |-> first, faulty |-> FALSE, requested |-> FALSE]
           /\ identity' = IF identity[d].machine = "empty" THEN [identity EXCEPT ![d].machine = d] ELSE identity
    /\ UNCHANGED card

(* At any time, whatever is running. *)
power_off ==
    /\ on # None /\ on' = None
    /\ systemd' = [u \in Units |-> "off"]
    /\ visit' = [first |-> FALSE, faulty |-> FALSE, requested |-> FALSE]
    /\ UNCHANGED <<card, identity, boots>>

appear(u) ==
    /\ u \in DeviceUnits /\ systemd[u] = "waiting"
    /\ Becomes(u, "up")
    /\ UNCHANGED <<card, identity, on, visit, boots>>

(* After JobTimeoutSec= of the device unit. *)
never_appear(u) ==
    /\ u \in DeviceUnits /\ systemd[u] = "waiting"
    /\ BootFault /\ Becomes(u, "failed")
    /\ UNCHANGED <<card, identity, on>>

(* The job of u is next: nothing that it comes after has one. *)
Ready(u) ==
    /\ u \in Units \ DeviceUnits /\ systemd[u] = "waiting"
    /\ \A v \in image.after[u] : systemd[v] \notin {"waiting", "stuck"}

(* It fails because of something that it requires, or of itself. *)
CannotStart(u) ==
    \/ \E v \in image.needs[u] : systemd[v] \in {"off", "failed"}
    \/ u \in Services \ image.loads
    \/ u = "ssh.socket" /\ ~image.free_bind /\ systemd["systemd-networkd.service"] # "up"
    \/ u = "ssh.service" /\ identity[on].keys = {}    \* ExecStartPre=/usr/sbin/sshd -t

start(u) ==
    /\ Ready(u)
    /\ Becomes(u, IF CannotStart(u) THEN "failed" ELSE "up")
    /\ identity' = IF u = HostKeysUnit /\ identity[on].keys = {} /\ (u \in image.once => visit.first)
                   THEN [identity EXCEPT ![on].keys = {on}] ELSE identity
    /\ UNCHANGED <<card, on, visit, boots>>

hang(u) ==
    /\ u \in MayHang /\ Ready(u) /\ ~CannotStart(u)
    /\ BootFault /\ Becomes(u, "stuck")
    /\ UNCHANGED <<card, identity, on>>

(* TimeoutStartSec=, which a oneshot service does not have. *)
time_out(u) ==
    /\ u \in MayHang \ {"rave-grow-rootfs.service"} /\ systemd[u] = "stuck"
    /\ Becomes(u, "failed")
    /\ UNCHANGED <<card, identity, on, visit, boots>>

(* The first connection starts ssh.service, and what it requires. *)
ssh_connect ==
    /\ \A u \in {"ssh.socket", "systemd-networkd.service", "eth0.device"} : systemd[u] = "up"
    /\ ~visit.requested /\ visit' = [visit EXCEPT !.requested = TRUE]
    /\ systemd' = [u \in Units |-> IF u \in image.for_ssh /\ systemd[u] \in {"off", "failed"} THEN "waiting" ELSE systemd[u]]
    /\ UNCHANGED <<card, identity, on, boots>>

BootStep(u) == appear(u) \/ start(u) \/ time_out(u)
BootNext ==
    \/ power_on \/ power_off \/ ssh_connect
    \/ \E u \in Units : BootStep(u) \/ never_appear(u) \/ hang(u)

(* systemd runs every job that can run, and times out what hangs. *)
BootFairness == \A u \in Units : WF_boot_vars(BootStep(u))
=============================================================================
