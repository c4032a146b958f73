------------------------------ MODULE Deployment ------------------------------
(* From the repository to running devices: images are built, verified and  *)
(* packaged (ReleaseBuild), written to cards, and booted (ApplianceBoot).  *)
(* What the verifier lets through decides what the devices do.             *)
EXTENDS ReleaseBuild, ApplianceBoot

(* Bounds: at which counts of builds, packages and the rest cards are      *)
(* written, whether releases go on afterwards, and which first contents of *)
(* the repository see more than one build and one packaging of them.       *)
CONSTANTS CardsAt, ReleasesGoOn, LongReleases

OneRelease == bounds.edits = 0 /\ bounds.builds <= 1 /\ bounds.packages <= 1

deployment_vars == <<release_vars, boot_vars>>

DeploymentInit == ReleaseInit /\ BootInit

(* release/INSTALL.md: the candidate is checked, then written to a card.   *)
flash(d) ==
    /\ bounds \in CardsAt
    /\ Checked /\ card[d] = None
    /\ card' = [card EXCEPT ![d] = Plan[candidate.xz.tree, candidate.xz.key]]
    /\ identity' = [identity EXCEPT ![d] = [machine |-> card'[d].machine, keys |-> card'[d].keys]]
    /\ UNCHANGED <<release_vars, on, systemd, visit, boots>>

DeploymentNext ==
    \/ /\ ReleaseNext /\ UNCHANGED boot_vars
       /\ ReleasesGoOn \/ \A d \in Devices : card[d] = None
       /\ commits[1] \in LongReleases \/ OneRelease'
    \/ \E d \in Devices : flash(d)
    \/ BootNext /\ UNCHANGED release_vars

DeploymentSpec == DeploymentInit /\ [][DeploymentNext]_deployment_vars /\ BootFairness

-----------------------------------------------------------------------------
(* On a device that runs an image the verifier passed, port 22 is listened *)
(* on at the address of the cable only; the web page, mDNS and DHCP are    *)
(* reached over wlan0 only, no interface has two owners, and nothing is    *)
(* forwarded; if no whole unit in /etc hides one that the verifier reads,  *)
(* and systemd finds the lines in the units that the verifier finds        *)
(* (verify_rave_image.py 453-470, 541-616, 664-713, 781-793, 977, and the  *)
(* files of systemd/ and image/overlays that it reads).                    *)
InterfacesAreSeparate ==
    on # None /\ image.verified /\ image.plain =>
        /\ systemd["ssh.socket"] = "up" => image.listens = {"10.77.0.1:22"}
        /\ \A u \in {v \in Units \ {"ssh.socket"} : systemd[v] = "up"} :
               image.serves[u] \subseteq {<<"wlan0", "web">>, <<"wlan0", "mdns">>, <<"wlan0", "dhcp">>}
        /\ \A i \in Interfaces :
               Cardinality({u \in Units : systemd[u] = "up" /\ i \in image.manages[u]}) <= 1
        /\ ~image.forwards

(* Devices written with images the verifier passed have machine ids and    *)
(* host keys of their own, and none knows a network it was not told of     *)
(* (verify_clone_safety, 216-268; the host-key unit of systemd/).          *)
DevicesDiffer ==
    \A d \in {e \in Devices : card[e] # None /\ card[e].verified} :
        /\ card[d].networks = {}
        /\ \A e \in Devices \ {d} : card[e] # None /\ card[e].verified =>
               /\ identity[d].machine # identity[e].machine \/ identity[d].machine = "empty"
               /\ identity[d].keys \cap identity[e].keys = {}

(* Port 22 comes to listen on every device that stays on, and a connection *)
(* to it comes to be served, also on a later boot than the first, and if   *)
(* any part of the management network hangs or its hardware is missing; if *)
(* the units are read alike (verify_engineering_ethernet_ssh, 716-998).    *)
SshComesUp ==
    /\ on # None /\ image.plain ~> on = None \/ systemd["ssh.socket"] = "up"
    /\ visit.requested /\ image.plain ~> on = None \/ systemd["ssh.service"] = "up"

(* The management network comes up with every boot in which nothing fails, *)
(* if the units are read alike (verify_web_service, 453: the               *)
(* sockets.target ordering cycle; verify_mdns_discovery; boot_enablement). *)
ManagementComesUp ==
    on # None /\ image.plain ~>
        \/ on = None \/ visit.faulty
        \/ \A u \in {"rave-webd.socket", "rave-networkd.service", "avahi-daemon.service",
                     "systemd-networkd.service", "rave-grow-rootfs.service"} : systemd[u] = "up"
=============================================================================
