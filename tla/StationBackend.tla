---------------------------- MODULE StationBackend ----------------------------
(***************************************************************************)
(* NetworkManagerBackend at the level of its commands: the profiles nmcli  *)
(* keeps, the connection that is up on wlan0 and the DHCP service of the   *)
(* setup AP.  One command is one step.  NetworkController shows that one   *)
(* thread at a time is in here, so there is one program counter.           *)
(*                                                                         *)
(* A command can fail and leave things as they were, or be reported failed *)
(* (a timeout is returned as code 124) after it took effect.  The daemon   *)
(* can stop between any two commands; profiles survive that.               *)
(***************************************************************************)
EXTENDS Naturals, FiniteSets

CONSTANTS
    Uuids,        \* the profiles that can ever exist, besides RAVE-Setup
    None,
    FaultKinds,   \* subset of {"clean", "late"}
    MaxFaults,    \* bound on failed commands
    MaxCrashes,   \* bound on stops of the daemon
    MaxAttempts   \* bound on connection attempts

ASSUME NoneAssumption == None \notin Uuids
ASSUME BoundsAssumption ==
    /\ FaultKinds \subseteq {"clean", "late"}
    /\ MaxFaults \in Nat /\ MaxCrashes \in Nat /\ MaxAttempts \in Nat

VARIABLES
    profile,    \* the name of each profile
    active,     \* what is up on wlan0
    dhcp,       \* the state systemd shows of the setup AP's DHCP service
    pc,         \* the next command
    previous,   \* previous_uuid of connect_station, or the uuid boot activates
    candidate,  \* pending_uuid of connect_station
    confirmed,  \* the network the daemon last settled on
    faults, crashes, attempts

locals == <<previous, candidate>>
bounds == <<faults, crashes, attempts>>
vars == <<profile, active, dhcp, pc, locals, confirmed, bounds>>

Absent == "absent"
Saved == "RAVE-Management"
Pending == "RAVE-Management-Pending"
Previous == "RAVE-Management-Previous"
Setup == "RAVE-Setup"
Nothing == "nothing"

ASSUME UuidAssumption == Setup \notin Uuids /\ Nothing \notin Uuids

(* Commands, in the order of the source; a failed connection or boot ends  *)
(* in the controller's _restore_provisioning, which starts at enable_ap.   *)
BootLabels == {"has_saved_station", "find_saved", "rename_saved", "verify_saved",
               "stop_dhcp_for_saved", "up_saved"}
ConnectLabels == {"stop_dhcp", "find_previous", "delete_stale", "create_pending",
                  "secure_pending", "drop_pending", "find_pending", "up_pending",
               "drop_candidate"}
PromoteLabels == {"retire", "verify_retired", "promote", "verify_promoted",
                  "delete_previous"}
RollbackLabels == {"demote", "reinstate", "delete_candidate"}
ApLabels == {"enable_ap", "start_dhcp"}
Labels == {"idle"} \cup BootLabels \cup ConnectLabels \cup PromoteLabels
            \cup RollbackLabels \cup ApLabels

Named(name) == {u \in Uuids : profile[u] = name}

(* _profile_uuid: more than one match is an error. *)
Ambiguous(name) == Cardinality(Named(name)) > 1
TheUuid(name) == IF Named(name) = {} THEN None ELSE CHOOSE u \in Uuids : profile[u] = name

(* The profile the next boot would activate: _saved_profile_for_activation. *)
BootChoice_IgnoresBackup ==
    IF Ambiguous(Saved) THEN None ELSE TheUuid(Saved)

BootChoice ==
    IF Ambiguous(Saved) THEN None
    ELSE IF Named(Saved) # {} THEN TheUuid(Saved)
    ELSE IF Ambiguous(Previous) THEN None
    ELSE TheUuid(Previous)

TypeOK ==
    /\ profile \in [Uuids -> {Absent, Saved, Pending, Previous}]
    /\ active \in Uuids \cup {Setup, Nothing}
    /\ dhcp \in {"active", "inactive"}
    /\ pc \in Labels
    /\ previous \in Uuids \cup {None}
    /\ candidate \in Uuids \cup {None}
    /\ confirmed \in Uuids \cup {None}
    /\ faults \in 0 .. MaxFaults
    /\ crashes \in 0 .. MaxCrashes
    /\ attempts \in 0 .. MaxAttempts

(* The daemon starts with one saved network or none. *)
Init ==
    /\ confirmed \in Uuids \cup {None}
    /\ profile = [u \in Uuids |-> IF u = confirmed THEN Saved ELSE Absent]
    /\ active = Nothing
    /\ dhcp = "inactive"
    /\ pc = "has_saved_station"
    /\ previous = None
    /\ candidate = None
    /\ faults = 0 /\ crashes = 0 /\ attempts = 0

-----------------------------------------------------------------------------
(* Commands.  A read or a change that failed is a fault.                   *)

Fault == faults < MaxFaults /\ faults' = faults + 1 /\ UNCHANGED <<crashes, attempts>>
NoFault == UNCHANGED bounds

ReadFails == FaultKinds # {} /\ Fault

(* _profile_uuid, answered or not *)
ListingOk(name) == ~ Ambiguous(name) /\ NoFault
ListingFails(name) == (Ambiguous(name) /\ NoFault) \/ ReadFails

(* A change of the profiles to p: done and reported, refused, or done and  *)
(* reported as failed.                                                     *)
Changes(p) == profile' = p /\ NoFault
ChangeFails(p) ==
    /\ Fault
    /\ \/ "clean" \in FaultKinds /\ UNCHANGED profile
       \/ "late" \in FaultKinds /\ profile' = p

(* nmcli refuses to modify or delete a profile that does not exist. *)
Missing(u) == profile[u] = Absent /\ UNCHANGED profile /\ NoFault

Renamed(u, name) == [profile EXCEPT ![u] = name]
Removed(set) == [u \in Uuids |-> IF u \in set THEN Absent ELSE profile[u]]

(* _set_profile_identity, answered yes or no *)
RenameOk(u, name) == profile[u] # Absent /\ Changes(Renamed(u, name))
RenameFails(u, name) ==
    Missing(u) \/ (profile[u] # Absent /\ ChangeFails(Renamed(u, name)))

(* _profile_has_identity, answered yes or no *)
VerifyOk(u, name) == profile[u] = name /\ UNCHANGED profile /\ NoFault
VerifyFails(u, name) ==
    /\ UNCHANGED profile
    /\ \/ profile[u] # name /\ NoFault
       \/ profile[u] = name /\ ReadFails

(* _delete_profile_uuid, answered yes or no *)
DeleteOk(u) == profile[u] # Absent /\ Changes(Removed({u}))
DeleteFails(u) == Missing(u) \/ (profile[u] # Absent /\ ChangeFails(Removed({u})))
-----------------------------------------------------------------------------
(* activate_provisioning, which the controller calls after every failure   *)
(* and when the user asks for the setup AP.                                *)

StopsDhcp_IgnoresFailure(next) ==
    \/ dhcp' = "inactive" /\ NoFault /\ pc' = next
    \/ Fault /\ dhcp' \in {dhcp, "inactive"} /\ pc' = next

StopsDhcp(next) ==
    \/ dhcp' = "inactive" /\ NoFault /\ pc' = next
    \/ Fault /\ dhcp' \in {dhcp, "inactive"} /\ pc' = "enable_ap"

request_provisioning ==
    /\ pc = "idle"
    /\ pc' = "enable_ap"
    /\ UNCHANGED <<profile, active, dhcp, locals, confirmed, bounds>>

(* Radio on, then RAVE-Setup up. *)
enable_ap ==
    /\ pc = "enable_ap"
    /\ \/ active' = Setup /\ pc' = "start_dhcp" /\ NoFault
       \/ active' \in {active, Nothing, Setup} /\ pc' = "idle" /\ Fault
    /\ UNCHANGED <<profile, dhcp, locals, confirmed>>

start_dhcp ==
    /\ pc = "start_dhcp"
    /\ pc' = "idle"
    /\ \/ dhcp' = "active" /\ NoFault
       \/ dhcp' \in {dhcp, "active"} /\ Fault
    /\ UNCHANGED <<profile, active, locals, confirmed>>

-----------------------------------------------------------------------------
(* has_saved_station and activate_saved_station, at boot.                  *)

has_saved_station ==
    /\ pc = "has_saved_station"
    /\ \/ BootChoice # None /\ NoFault /\ pc' = "find_saved"
       \/ BootChoice = None /\ NoFault /\ pc' = "enable_ap"
       \/ ReadFails /\ pc' = "enable_ap"
    /\ UNCHANGED <<profile, active, dhcp, locals, confirmed>>

find_saved ==
    /\ pc = "find_saved"
    /\ \/ /\ BootChoice # None /\ NoFault
          /\ previous' = BootChoice
          /\ pc' = "rename_saved"
       \/ ReadFails /\ pc' = "enable_ap" /\ UNCHANGED previous
    /\ UNCHANGED <<profile, active, dhcp, candidate, confirmed>>

rename_saved ==
    /\ pc = "rename_saved"
    /\ \/ RenameOk(previous, Saved) /\ pc' = "verify_saved"
       \/ RenameFails(previous, Saved) /\ pc' = "enable_ap"
    /\ UNCHANGED <<active, dhcp, locals, confirmed>>

verify_saved ==
    /\ pc = "verify_saved"
    /\ \/ VerifyOk(previous, Saved) /\ pc' = "stop_dhcp_for_saved"
       \/ VerifyFails(previous, Saved) /\ pc' = "enable_ap"
    /\ UNCHANGED <<active, dhcp, locals, confirmed>>

stop_dhcp_for_saved ==
    /\ pc = "stop_dhcp_for_saved"
    /\ StopsDhcp("up_saved")
    /\ UNCHANGED <<profile, active, locals, confirmed>>

(* A network out of range is no fault. *)
up_saved ==
    /\ pc = "up_saved"
    /\ \/ active' = previous /\ pc' = "idle"
       \/ active' \in {Nothing, previous} /\ pc' = "enable_ap"
    /\ NoFault
    /\ UNCHANGED <<profile, dhcp, locals, confirmed>>

-----------------------------------------------------------------------------
(* connect_station.  A failed scan, an unknown name and bad credentials    *)
(* return before anything is changed, and are left out.                    *)

connect_station ==
    /\ pc = "idle"
    /\ attempts < MaxAttempts
    /\ attempts' = attempts + 1
    /\ previous' = None
    /\ candidate' = None
    /\ pc' = "stop_dhcp"
    /\ UNCHANGED <<profile, active, dhcp, confirmed, faults, crashes>>

stop_dhcp ==
    /\ pc = "stop_dhcp"
    /\ StopsDhcp("find_previous")
    /\ UNCHANGED <<profile, active, locals, confirmed>>

find_previous ==
    /\ pc = "find_previous"
    /\ \/ /\ ListingOk(Saved)
          /\ previous' = TheUuid(Saved)
          /\ pc' = "delete_stale"
       \/ /\ ListingFails(Saved)
          /\ pc' = "enable_ap"
          /\ UNCHANGED previous
    /\ UNCHANGED <<profile, active, dhcp, candidate, confirmed>>

(* _delete_profile removes every profile of the name; its answer is unused. *)
DeletesPending(next) ==
    /\ \/ Changes(Removed(Named(Pending)))
       \/ Named(Pending) # {} /\ ChangeFails(Removed(Named(Pending)))
    /\ pc' = next
    /\ UNCHANGED <<active, dhcp, locals, confirmed>>

delete_stale == pc = "delete_stale" /\ DeletesPending("create_pending")

drop_pending == pc = "drop_pending" /\ DeletesPending("enable_ap")

(* A new profile gets an identity no profile had before; that of a         *)
(* protected network is then given its key management.                     *)
create_pending ==
    /\ pc = "create_pending"
    /\ \E u \in {v \in Uuids : profile[v] = Absent /\ v # confirmed} :
         \/ Changes(Renamed(u, Pending)) /\ pc' \in {"secure_pending", "find_pending"}
         \/ ChangeFails(Renamed(u, Pending)) /\ pc' = "drop_pending"
    /\ UNCHANGED <<active, dhcp, locals, confirmed>>

secure_pending ==
    /\ pc = "secure_pending"
    /\ \/ NoFault /\ pc' = "find_pending"
       \/ Fault /\ pc' = "drop_pending"
    /\ UNCHANGED <<profile, active, dhcp, locals, confirmed>>

find_pending ==
    /\ pc = "find_pending"
    /\ \/ /\ Named(Pending) # {} /\ ListingOk(Pending)
          /\ candidate' = TheUuid(Pending)
          /\ pc' = "up_pending"
       \/ /\ ListingFails(Pending)
          /\ pc' = "drop_pending"
          /\ UNCHANGED candidate
    /\ UNCHANGED <<profile, active, dhcp, previous, confirmed>>

(* A wrong password is no fault. *)
up_pending ==
    /\ pc = "up_pending"
    /\ \/ /\ active' = candidate
          /\ pc' = IF previous = None THEN "promote" ELSE "retire"
       \/ active' \in {Nothing, candidate} /\ pc' = "drop_candidate"
    /\ NoFault
    /\ UNCHANGED <<profile, dhcp, locals, confirmed>>

drop_candidate ==
    /\ pc = "drop_candidate"
    /\ DeleteOk(candidate) \/ DeleteFails(candidate)
    /\ pc' = "enable_ap"
    /\ UNCHANGED <<active, dhcp, locals, confirmed>>

-----------------------------------------------------------------------------
(* _promote_pending_profile                                                *)

retire ==
    /\ pc = "retire"
    /\ \/ RenameOk(previous, Previous) /\ pc' = "verify_retired"
       \/ RenameFails(previous, Previous) /\ pc' = "demote"
    /\ UNCHANGED <<active, dhcp, locals, confirmed>>

verify_retired ==
    /\ pc = "verify_retired"
    /\ \/ VerifyOk(previous, Previous) /\ pc' = "promote"
       \/ VerifyFails(previous, Previous) /\ pc' = "demote"
    /\ UNCHANGED <<active, dhcp, locals, confirmed>>

promote ==
    /\ pc = "promote"
    /\ \/ RenameOk(candidate, Saved) /\ pc' = "verify_promoted"
       \/ RenameFails(candidate, Saved) /\ pc' = "demote"
    /\ UNCHANGED <<active, dhcp, locals, confirmed>>

(* The attempt succeeds here when there is nothing to retire. *)
verify_promoted ==
    /\ pc = "verify_promoted"
    /\ \/ /\ VerifyOk(candidate, Saved)
          /\ IF previous = None
             THEN pc' = "idle" /\ confirmed' = candidate
             ELSE pc' = "delete_previous" /\ UNCHANGED confirmed
       \/ VerifyFails(candidate, Saved) /\ pc' = "demote" /\ UNCHANGED confirmed
    /\ UNCHANGED <<active, dhcp, locals>>

delete_previous ==
    /\ pc = "delete_previous"
    /\ \/ DeleteOk(previous) /\ pc' = "idle" /\ confirmed' = candidate
       \/ DeleteFails(previous) /\ pc' = "demote" /\ UNCHANGED confirmed
    /\ UNCHANGED <<active, dhcp, locals>>

-----------------------------------------------------------------------------
(* _rollback_promotion: every answer is ignored.                           *)

demote_Skipped ==
    /\ pc = "demote"
    /\ pc' = IF previous = None THEN "delete_candidate" ELSE "reinstate"
    /\ UNCHANGED <<profile, active, dhcp, locals, confirmed, bounds>>

demote ==
    /\ pc = "demote"
    /\ RenameOk(candidate, Pending) \/ RenameFails(candidate, Pending)
    /\ pc' = IF previous = None THEN "delete_candidate" ELSE "reinstate"
    /\ UNCHANGED <<active, dhcp, locals, confirmed>>

reinstate ==
    /\ pc = "reinstate"
    /\ RenameOk(previous, Saved) \/ RenameFails(previous, Saved)
    /\ pc' = "delete_candidate"
    /\ UNCHANGED <<active, dhcp, locals, confirmed>>

delete_candidate ==
    /\ pc = "delete_candidate"
    /\ DeleteOk(candidate) \/ DeleteFails(candidate)
    /\ pc' = "enable_ap"
    /\ UNCHANGED <<active, dhcp, locals, confirmed>>

-----------------------------------------------------------------------------
(* Outside the daemon.                                                     *)

(* Deleting the profile that is up, or losing its network, takes it down.  *)
link_lost ==
    /\ active # Nothing
    /\ active' = Nothing
    /\ UNCHANGED <<profile, dhcp, pc, locals, confirmed, bounds>>

(* The daemon alone is restarted, or the whole device. *)
crash ==
    /\ crashes < MaxCrashes
    /\ crashes' = crashes + 1
    /\ \/ UNCHANGED <<active, dhcp>>
       \/ active' = Nothing /\ dhcp' = "inactive"
    /\ pc' = "has_saved_station"
    /\ previous' = None
    /\ candidate' = None
    /\ confirmed' = BootChoice
    /\ UNCHANGED <<profile, faults, attempts>>

Boots ==
    \/ has_saved_station \/ find_saved \/ rename_saved \/ verify_saved
    \/ stop_dhcp_for_saved \/ up_saved

Connects ==
    \/ connect_station \/ stop_dhcp \/ find_previous \/ delete_stale
    \/ create_pending \/ secure_pending \/ drop_pending \/ find_pending \/ up_pending \/ drop_candidate

Promotes == retire \/ verify_retired \/ promote \/ verify_promoted \/ delete_previous

RollsBack == demote \/ reinstate \/ delete_candidate

Provisions == request_provisioning \/ enable_ap \/ start_dhcp

Next == Boots \/ Connects \/ Promotes \/ RollsBack \/ Provisions \/ link_lost \/ crash

Spec == Init /\ [][Next]_vars

-----------------------------------------------------------------------------
(* Properties.                                                             *)

(* The DHCP server of the setup AP never runs while a network of the user  *)
(* is joined, where it would answer strangers: not across a failed stop,   *)
(* a failed switch back, a crash or a boot.                                *)
DhcpNeverServesStation == dhcp = "active" => active \notin Uuids

(* Two profiles share the saved name only after two commands have failed;  *)
(* after exactly two, and no stop of the daemon, only until the rollback   *)
(* ends, whose last deletion then takes one of them away.  With two owners *)
(* every lookup fails: boot joins nothing and every attempt is refused.    *)
OneSavedName ==
    Ambiguous(Saved) => faults >= 2 /\ (faults = 2 /\ crashes = 0 => pc \in RollbackLabels)

(* The saved network, as the next boot sees it, behaves as SavedNetwork    *)
(* promises, an attempt that fails or is cut short losing nothing, until a *)
(* second command has failed or an attempt is made after a stop, and if no *)
(* command that took effect is reported as failed (backend.py 283-319).    *)
InPromotion == pc \in PromoteLabels \cup RollbackLabels
Trial == IF InPromotion THEN candidate ELSE None

Promise == INSTANCE SavedNetwork
             WITH Networks <- Uuids, saved <- BootChoice, trial <- Trial

Undisturbed == faults <= 1 /\ (attempts <= 1 \/ crashes = 0)

SavedNetworkKept == Promise!Init /\ [][Undisturbed' => Promise!Next]_(Promise!vars)

(* docs/MANAGEMENT_NETWORK.md: a failure retains or restores the network   *)
(* saved before, so the daemon never forgets both.                         *)
NetworkRemembered == confirmed # None => BootChoice # None
=============================================================================
