------------------------ MODULE StationBackendProofs ------------------------
(***************************************************************************)
(* Theorems about StationBackend, for any profiles, any faults and any     *)
(* number of stops of the daemon.                                          *)
(***************************************************************************)
EXTENDS StationBackend, FiniteSetTheorems, TLAPS

(* Labels reached only after `systemctl stop` of the DHCP service answered. *)
DhcpStoppedLabels ==
    {"up_saved", "find_previous", "delete_stale", "create_pending", "secure_pending",
     "drop_pending", "find_pending", "up_pending", "drop_candidate"} \cup PromoteLabels \cup RollbackLabels

(* DhcpNeverServesStation strengthened by where the service is known to be *)
(* stopped and where the setup AP is known to be what is up.               *)
DhcpInv ==
    /\ DhcpNeverServesStation
    /\ pc \in DhcpStoppedLabels => dhcp = "inactive"
    /\ pc = "start_dhcp" => active \notin Uuids

(* The DHCP service of the setup AP never runs on a network of the user.   *)
THEOREM DhcpIsKeptFromStations == Spec => []DhcpNeverServesStation
<1> USE UuidAssumption
    DEF DhcpInv, DhcpNeverServesStation, DhcpStoppedLabels, PromoteLabels, RollbackLabels,
        locals, bounds
<1>1. Init => DhcpInv
  BY DEF Init
<1>2. DhcpInv /\ [Next]_vars => DhcpInv'
  <2> SUFFICES ASSUME DhcpInv, [Next]_vars PROVE DhcpInv'
    OBVIOUS
  <2>1. CASE Boots
    <3>1. CASE has_saved_station
      BY <3>1 DEF has_saved_station
    <3>2. CASE find_saved
      BY <3>2 DEF find_saved
    <3>3. CASE rename_saved
      BY <3>3 DEF rename_saved
    <3>4. CASE verify_saved
      BY <3>4 DEF verify_saved
    <3>5. CASE stop_dhcp_for_saved
      BY <3>5 DEF stop_dhcp_for_saved, StopsDhcp
    <3>6. CASE up_saved
      BY <3>6 DEF up_saved
    <3> QED BY <2>1, <3>1, <3>2, <3>3, <3>4, <3>5, <3>6 DEF Boots
  <2>2. CASE Connects
    <3>1. CASE connect_station
      BY <3>1 DEF connect_station
    <3>2. CASE stop_dhcp
      BY <3>2 DEF stop_dhcp, StopsDhcp
    <3>3. CASE find_previous
      BY <3>3 DEF find_previous
    <3>4. CASE delete_stale
      BY <3>4 DEF delete_stale, DeletesPending
    <3>5. CASE create_pending
      BY <3>5 DEF create_pending
    <3>6. CASE drop_pending
      BY <3>6 DEF drop_pending, DeletesPending
    <3>7. CASE find_pending
      BY <3>7 DEF find_pending
    <3>8. CASE up_pending
      BY <3>8 DEF up_pending
    <3>9. CASE drop_candidate
      BY <3>9 DEF drop_candidate
    <3>10. CASE secure_pending
      BY <3>10 DEF secure_pending
    <3> QED BY <2>2, <3>1, <3>2, <3>3, <3>4, <3>5, <3>6, <3>7, <3>8, <3>9, <3>10 DEF Connects
  <2>3. CASE Promotes
    <3>1. CASE retire
      BY <3>1 DEF retire
    <3>2. CASE verify_retired
      BY <3>2 DEF verify_retired
    <3>3. CASE promote
      BY <3>3 DEF promote
    <3>4. CASE verify_promoted
      BY <3>4 DEF verify_promoted
    <3>5. CASE delete_previous
      BY <3>5 DEF delete_previous
    <3> QED BY <2>3, <3>1, <3>2, <3>3, <3>4, <3>5 DEF Promotes
  <2>4. CASE RollsBack
    <3>1. CASE demote
      BY <3>1 DEF demote
    <3>2. CASE reinstate
      BY <3>2 DEF reinstate
    <3>3. CASE delete_candidate
      BY <3>3 DEF delete_candidate
    <3> QED BY <2>4, <3>1, <3>2, <3>3 DEF RollsBack
  <2>5. CASE Provisions
    <3>1. CASE request_provisioning
      BY <3>1 DEF request_provisioning
    <3>2. CASE enable_ap
      BY <3>2 DEF enable_ap
    <3>3. CASE start_dhcp
      BY <3>3 DEF start_dhcp
    <3> QED BY <2>5, <3>1, <3>2, <3>3 DEF Provisions
  <2>6. CASE link_lost
    BY <2>6 DEF link_lost
  <2>7. CASE crash
    BY <2>7 DEF crash
  <2>8. CASE UNCHANGED vars
    BY <2>8 DEF vars
  <2> QED BY <2>1, <2>2, <2>3, <2>4, <2>5, <2>6, <2>7, <2>8 DEF Next
<1>3. DhcpInv => DhcpNeverServesStation
  OBVIOUS
<1> QED BY <1>1, <1>2, <1>3, PTL DEF Spec

-----------------------------------------------------------------------------
(* No command is given a profile that was not looked up before: both of    *)
(* connect_station's locals are set wherever a command names them.         *)
UsesPrevious ==
    {"rename_saved", "verify_saved", "stop_dhcp_for_saved", "up_saved", "retire",
     "verify_retired", "delete_previous", "reinstate"}
UsesCandidate == {"up_pending", "drop_candidate"} \cup PromoteLabels \cup RollbackLabels

TypeInv ==
    /\ TypeOK
    /\ pc \in UsesPrevious => previous \in Uuids
    /\ pc \in UsesCandidate => candidate \in Uuids

LEMMA Lookups ==
    /\ \A name : TheUuid(name) \in Uuids \cup {None}
    /\ \A name : Named(name) # {} => TheUuid(name) \in Uuids
    /\ BootChoice \in Uuids \cup {None}
BY DEF TheUuid, Named, BootChoice

(* What commands do to the profiles keeps their type. *)
LEMMA Writes ==
    ASSUME TypeOK
    PROVE  /\ \A u, name : name \in {Saved, Pending, Previous} =>
                  Renamed(u, name) \in [Uuids -> {Absent, Saved, Pending, Previous}]
           /\ \A set : Removed(set) \in [Uuids -> {Absent, Saved, Pending, Previous}]
BY DEF TypeOK, Renamed, Removed

LEMMA TypeNext == TypeInv /\ [Next]_vars => TypeInv'
<1> SUFFICES ASSUME TypeInv, [Next]_vars PROVE TypeInv'
  OBVIOUS
<1>1. /\ \A name : TheUuid(name) \in Uuids \cup {None}
      /\ \A name : Named(name) # {} => TheUuid(name) \in Uuids
      /\ BootChoice \in Uuids \cup {None}
      /\ \A u, name : name \in {Saved, Pending, Previous} =>
             Renamed(u, name) \in [Uuids -> {Absent, Saved, Pending, Previous}]
      /\ \A set : Removed(set) \in [Uuids -> {Absent, Saved, Pending, Previous}]
  BY Lookups, Writes DEF TypeInv
<1> USE <1>1, BoundsAssumption, NoneAssumption
    DEF TypeInv, TypeOK, UsesPrevious, UsesCandidate, Labels, BootLabels, ConnectLabels,
        PromoteLabels, RollbackLabels, ApLabels, locals, bounds, Fault, NoFault, ReadFails,
        ListingOk, ListingFails, Changes, ChangeFails, Missing, RenameOk, RenameFails,
        VerifyOk, VerifyFails, DeleteOk, DeleteFails, StopsDhcp, DeletesPending
<1>2. CASE Boots
  <2>1. CASE has_saved_station
    BY <2>1 DEF has_saved_station
  <2>2. CASE find_saved
    BY <2>2 DEF find_saved
  <2>3. CASE rename_saved
    BY <2>3 DEF rename_saved
  <2>4. CASE verify_saved
    BY <2>4 DEF verify_saved
  <2>5. CASE stop_dhcp_for_saved
    BY <2>5 DEF stop_dhcp_for_saved
  <2>6. CASE up_saved
    BY <2>6 DEF up_saved
  <2> QED
    BY <1>2, <2>1, <2>2, <2>3, <2>4, <2>5, <2>6 DEF Boots
<1>3. CASE Connects
  <2>1. CASE connect_station
    BY <2>1 DEF connect_station
  <2>2. CASE stop_dhcp
    BY <2>2 DEF stop_dhcp
  <2>3. CASE find_previous
    BY <2>3 DEF find_previous
  <2>4. CASE delete_stale
    BY <2>4 DEF delete_stale
  <2>5. CASE create_pending
    BY <2>5 DEF create_pending
  <2>6. CASE drop_pending
    BY <2>6 DEF drop_pending
  <2>7. CASE find_pending
    BY <2>7 DEF find_pending
  <2>8. CASE up_pending
    BY <2>8 DEF up_pending
  <2>9. CASE drop_candidate
    BY <2>9 DEF drop_candidate
  <2>10. CASE secure_pending
    BY <2>10 DEF secure_pending
  <2> QED
    BY <1>3, <2>1, <2>2, <2>3, <2>4, <2>5, <2>6, <2>7, <2>8, <2>9, <2>10 DEF Connects
<1>4. CASE Promotes
  <2>1. CASE retire
    BY <2>1 DEF retire
  <2>2. CASE verify_retired
    BY <2>2 DEF verify_retired
  <2>3. CASE promote
    BY <2>3 DEF promote
  <2>4. CASE verify_promoted
    BY <2>4 DEF verify_promoted
  <2>5. CASE delete_previous
    BY <2>5 DEF delete_previous
  <2> QED
    BY <1>4, <2>1, <2>2, <2>3, <2>4, <2>5 DEF Promotes
<1>5. CASE RollsBack
  <2>1. CASE demote
    BY <2>1 DEF demote
  <2>2. CASE reinstate
    BY <2>2 DEF reinstate
  <2>3. CASE delete_candidate
    BY <2>3 DEF delete_candidate
  <2> QED
    BY <1>5, <2>1, <2>2, <2>3 DEF RollsBack
<1>6. CASE Provisions
  <2>1. CASE request_provisioning
    BY <2>1 DEF request_provisioning
  <2>2. CASE enable_ap
    BY <2>2 DEF enable_ap
  <2>3. CASE start_dhcp
    BY <2>3 DEF start_dhcp
  <2> QED
    BY <1>6, <2>1, <2>2, <2>3 DEF Provisions
<1>7. CASE link_lost
  BY <1>7 DEF link_lost
<1>8. CASE crash
  BY <1>8 DEF crash
<1>9. CASE UNCHANGED vars
  BY <1>9 DEF vars
<1> QED
  BY <1>2, <1>3, <1>4, <1>5, <1>6, <1>7, <1>8, <1>9 DEF Next

LEMMA TypeInvInit == Init => TypeInv
BY BoundsAssumption, NoneAssumption
   DEF Init, TypeInv, TypeOK, UsesPrevious, UsesCandidate, Labels, BootLabels,
       PromoteLabels, RollbackLabels

(* Every variable keeps its type, for any faults and stops.                *)
THEOREM TypeCorrect == Spec => []TypeOK
<1>1. TypeInv => TypeOK
  BY DEF TypeInv
<1> QED
  BY <1>1, TypeInvInit, TypeNext, PTL DEF Spec

-----------------------------------------------------------------------------
(* Who has the saved name, where the failures are few: the profile that a  *)
(* boot or an attempt looked up, then nobody, then the candidate, and      *)
(* after a failure the profile looked up again.  A second failure in the   *)
(* rollback leaves the candidate beside it, until it is deleted.           *)
AtMostOne(name) == \A u, v \in Uuids : profile[u] = name /\ profile[v] = name => u = v
Only(set, name) == \A u \in Uuids : profile[u] = name => u \in set

OwnerInv ==
    /\ pc # "delete_candidate" \/ faults <= 1 => AtMostOne(Saved)
    /\ pc \in {"rename_saved", "delete_stale", "create_pending", "secure_pending",
               "find_pending", "up_pending", "retire"} => Only({previous}, Saved)
    /\ pc \in {"delete_stale", "create_pending", "secure_pending", "find_pending",
               "up_pending", "retire"} /\ previous # None => profile[previous] = Saved
    /\ pc \in {"up_pending", "retire", "verify_retired", "promote"} => profile[candidate] = Pending
    /\ pc \in {"verify_retired", "promote"} => Only({}, Saved)
    /\ pc \in {"verify_retired", "promote", "verify_promoted", "delete_previous"} /\ previous # None =>
           profile[previous] = Previous
    /\ pc \in {"verify_promoted", "delete_previous"} =>
           Only({candidate}, Saved) /\ profile[candidate] = Saved
    /\ pc \in RollbackLabels => faults >= 1 /\ Only({candidate, previous}, Saved)
    /\ pc \in PromoteLabels \cup RollbackLabels => candidate # previous
    /\ pc \in {"reinstate", "delete_candidate"} /\ profile[candidate] = Saved => faults >= 2

(* One failure with any number of stops, or two with none. *)
Few(f, c) == f <= 1 \/ (f <= 2 /\ c = 0)
FewFaults == Few(faults, crashes) => OwnerInv

(* A name with at most one owner is not ambiguous. *)
LEMMA Unambiguous == \A name : AtMostOne(name) => ~ Ambiguous(name)
<1> SUFFICES ASSUME NEW name, AtMostOne(name) PROVE ~ Ambiguous(name)
  OBVIOUS
<1>1. CASE Named(name) = {}
  BY <1>1, FS_EmptySet DEF Ambiguous
<1>2. CASE Named(name) # {}
  <2>1. PICK u \in Uuids : profile[u] = name
    BY <1>2 DEF Named
  <2>2. Named(name) = {u}
    BY <2>1 DEF Named, AtMostOne
  <2> QED  BY <2>2, FS_Singleton DEF Ambiguous
<1> QED  BY <1>1, <1>2

LEMMA FaultsGrow ==
    TypeOK /\ [Next]_vars => /\ faults' \in {faults, faults + 1} /\ crashes' \in {crashes, crashes + 1}
                             /\ attempts' \in {attempts, attempts + 1}
BY DEF TypeOK, Next, vars, bounds, locals, Boots, Connects, Promotes, RollsBack, Provisions,
       has_saved_station, find_saved, rename_saved, verify_saved, stop_dhcp_for_saved, up_saved,
       secure_pending,
       connect_station, stop_dhcp, find_previous, delete_stale, create_pending, drop_pending,
       find_pending, up_pending, drop_candidate, retire, verify_retired, promote, verify_promoted,
       delete_previous, demote, reinstate, delete_candidate, request_provisioning, enable_ap,
       start_dhcp, link_lost, crash, Fault, NoFault, ReadFails, ListingOk, ListingFails, Changes,
       ChangeFails, Missing, RenameOk, RenameFails, VerifyOk, VerifyFails, DeleteOk, DeleteFails,
       StopsDhcp, DeletesPending

LEMMA OwnerNext == TypeInv /\ TypeInv' /\ FewFaults /\ [Next]_vars => FewFaults'
<1> SUFFICES ASSUME TypeInv, TypeInv', FewFaults, [Next]_vars, Few(faults', crashes')
             PROVE  OwnerInv'
  BY DEF FewFaults, Few
<1>0. /\ faults \in Nat /\ faults <= faults' /\ crashes \in Nat /\ crashes <= crashes'
      /\ OwnerInv
  BY FaultsGrow, BoundsAssumption DEF TypeInv, TypeOK, FewFaults, Few
<1> USE <1>0, NoneAssumption
    DEF TypeInv, TypeOK, UsesPrevious, UsesCandidate, PromoteLabels, RollbackLabels, locals, bounds,
        OwnerInv, Few, AtMostOne, Only, Named, Fault, NoFault, ReadFails,
        ListingOk, ListingFails, Changes, ChangeFails, Missing, RenameOk, RenameFails, Renamed, Removed,
        VerifyOk, VerifyFails, DeleteOk, DeleteFails, StopsDhcp, DeletesPending,
        Absent, Saved, Pending, Previous
<1>1. CASE Boots
  <2>1. CASE has_saved_station
    BY <2>1 DEF has_saved_station
  <2>2. CASE find_saved
    BY <2>2 DEF find_saved, BootChoice, TheUuid
  <2>3. CASE rename_saved
    BY <2>3 DEF rename_saved
  <2>4. CASE verify_saved
    BY <2>4 DEF verify_saved
  <2>5. CASE stop_dhcp_for_saved
    BY <2>5 DEF stop_dhcp_for_saved
  <2>6. CASE up_saved
    BY <2>6 DEF up_saved
  <2> QED
    BY <1>1, <2>1, <2>2, <2>3, <2>4, <2>5, <2>6 DEF Boots
<1>2. CASE Connects
  <2>1. CASE connect_station
    BY <2>1 DEF connect_station
  <2>2. CASE stop_dhcp
    BY <2>2 DEF stop_dhcp
  <2>3. CASE find_previous
    BY <2>3 DEF find_previous, TheUuid
  <2>4. CASE delete_stale
    BY <2>4 DEF delete_stale
  <2>5. CASE create_pending
    BY <2>5 DEF create_pending
  <2>6. CASE drop_pending
    BY <2>6 DEF drop_pending
  <2>7. CASE find_pending
    BY <2>7 DEF find_pending, TheUuid
  <2>8. CASE up_pending
    BY <2>8 DEF up_pending
  <2>9. CASE drop_candidate
    BY <2>9 DEF drop_candidate
  <2>10. CASE secure_pending
    BY <2>10 DEF secure_pending
  <2> QED
    BY <1>2, <2>1, <2>2, <2>3, <2>4, <2>5, <2>6, <2>7, <2>8, <2>9, <2>10 DEF Connects
<1>3. CASE Promotes
  <2>1. CASE retire
    BY <2>1 DEF retire
  <2>2. CASE verify_retired
    BY <2>2 DEF verify_retired
  <2>3. CASE promote
    BY <2>3 DEF promote
  <2>4. CASE verify_promoted
    BY <2>4 DEF verify_promoted
  <2>5. CASE delete_previous
    BY <2>5 DEF delete_previous
  <2> QED
    BY <1>3, <2>1, <2>2, <2>3, <2>4, <2>5 DEF Promotes
<1>4. CASE RollsBack
  <2>1. CASE demote
    BY <2>1 DEF demote
  <2>2. CASE reinstate
    BY <2>2 DEF reinstate
  <2>3. CASE delete_candidate
    BY <2>3 DEF delete_candidate
  <2> QED
    BY <1>4, <2>1, <2>2, <2>3 DEF RollsBack
<1>5. CASE Provisions
  <2>1. CASE request_provisioning
    BY <2>1 DEF request_provisioning
  <2>2. CASE enable_ap
    BY <2>2 DEF enable_ap
  <2>3. CASE start_dhcp
    BY <2>3 DEF start_dhcp
  <2> QED
    BY <1>5, <2>1, <2>2, <2>3 DEF Provisions
<1>6. CASE link_lost
  BY <1>6 DEF link_lost
<1>7. CASE crash
  BY <1>7 DEF crash
<1>8. CASE UNCHANGED vars
  BY <1>8 DEF vars
<1> QED
  BY <1>1, <1>2, <1>3, <1>4, <1>5, <1>6, <1>7, <1>8 DEF Next

(* Two profiles have the saved name only after two commands have failed:   *)
(* one failure, at any command and reported before or after it took        *)
(* effect, is undone with a single owner at every step, whatever earlier   *)
(* attempts and stops left; and after two, without a stop, the rollback    *)
(* ends with one owner again (backend.py 283-319).                         *)
THEOREM SavedNameHasOneOwner == Spec => []OneSavedName
<1>1. Init => FewFaults
  BY NoneAssumption DEF Init, FewFaults, OwnerInv, AtMostOne, Only, PromoteLabels, RollbackLabels,
                        Absent, Saved
<1>2. TypeOK /\ FewFaults => OneSavedName
  <2> SUFFICES ASSUME TypeOK, FewFaults, Ambiguous(Saved)
               PROVE  faults >= 2 /\ (faults = 2 /\ crashes = 0 => pc \in RollbackLabels)
    BY DEF OneSavedName
  <2>1. ~ AtMostOne(Saved)
    BY Unambiguous
  <2>2. faults \in Nat
    BY BoundsAssumption DEF TypeOK
  <2> QED
    BY <2>1, <2>2 DEF FewFaults, Few, OwnerInv, RollbackLabels
<1>3. TypeInv => TypeOK
  BY DEF TypeInv
<1> QED
  BY <1>1, <1>2, <1>3, TypeInvInit, TypeNext, OwnerNext, PTL DEF Spec

-----------------------------------------------------------------------------
(* The refinement of SavedNetwork.  `Owns` says who alone has a name (None *)
(* for nobody), `Finds` what the next boot finds.                          *)
Owns(u, name) == \A v \in Uuids : profile[v] = name <=> v = u
Finds(c) == \/ c # None /\ Owns(c, Saved)
            \/ Owns(None, Saved) /\ Owns(c, Previous)

Settled == Owns(confirmed, Saved) /\ Owns(None, Previous)
Retired == Owns(None, Saved) /\ Owns(confirmed, Previous)
Promoted == Owns(candidate, Saved) /\ Owns(confirmed, Previous)

(* Where the confirmed network and the candidate are, command by command.  *)
(* A backup is there before an attempt only if an earlier one was stopped. *)
KeptInv ==
    /\ ~ InPromotion => Finds(confirmed)
    /\ ~ InPromotion /\ (crashes = 0 \/ attempts = 0) => Owns(None, Previous)
    /\ pc \in ConnectLabels => Owns(None, Previous)
    /\ pc \in ConnectLabels \/ InPromotion => attempts >= 1
    /\ InPromotion \/ pc \in {"rename_saved", "delete_stale", "create_pending", "secure_pending",
               "find_pending", "up_pending"} =>
           previous = confirmed
    /\ pc \in {"up_pending", "drop_candidate", "retire", "verify_retired", "promote",
               "reinstate", "delete_candidate"} => profile[candidate] = Pending
    /\ pc \in {"retire", "delete_candidate"} => Settled
    /\ pc \in {"verify_retired", "promote"} => Retired
    /\ pc \in {"verify_promoted", "delete_previous"} => Promoted
    /\ pc = "demote" => /\ (confirmed # None /\ Settled) \/ Retired \/ Promoted
                        /\ profile[candidate] \in {Pending, Saved}
    /\ pc = "reinstate" => Settled \/ Retired
    /\ InPromotion => candidate # confirmed
    /\ pc \in RollbackLabels => faults >= 1

(* What boot finds is what the lookups of the backend answer.              *)
BootFinds == \A c \in Uuids \cup {None} : Finds(c) => BootChoice = c

LEMMA BootLooksUp == BootFinds
<1> SUFFICES ASSUME NEW c \in Uuids \cup {None}, Finds(c) PROVE BootChoice = c
  BY DEF BootFinds
<1> USE NoneAssumption DEF Owns, AtMostOne, Named, TheUuid
<1>1. ~ Ambiguous(Saved)
  BY Unambiguous DEF Finds
<1>2. CASE c # None /\ Owns(c, Saved)
  BY <1>1, <1>2 DEF BootChoice
<1>3. CASE Owns(None, Saved) /\ Owns(c, Previous)
  <2>1. ~ Ambiguous(Previous)
    BY <1>3, Unambiguous
  <2> QED
    BY <1>1, <1>3, <2>1 DEF BootChoice
<1> QED
  BY <1>2, <1>3 DEF Finds

LEMMA KeptInit == Init => KeptInv
BY NoneAssumption
   DEF Init, KeptInv, InPromotion, Finds, Owns, ConnectLabels, PromoteLabels, RollbackLabels,
       Absent, Saved, Previous

(* What has failed or stopped stays so.                                    *)
LEMMA DisturbedStays == TypeInv /\ TypeInv' /\ [Next]_vars /\ Undisturbed' => Undisturbed
<1> SUFFICES ASSUME TypeInv, TypeInv', [Next]_vars, Undisturbed' PROVE Undisturbed
  OBVIOUS
<1>1. /\ faults' \in {faults, faults + 1} /\ crashes' \in {crashes, crashes + 1}
      /\ attempts' \in {attempts, attempts + 1}
  BY FaultsGrow DEF TypeInv
<1> QED  BY <1>1, BoundsAssumption DEF TypeInv, TypeOK, Undisturbed

KeptUndisturbed == Undisturbed => KeptInv

LEMMA KeptNext ==
    ASSUME FaultKinds \subseteq {"clean"}
    PROVE  TypeInv /\ TypeInv' /\ KeptUndisturbed /\ [Next]_vars => KeptUndisturbed'
<1> SUFFICES ASSUME TypeInv, TypeInv', KeptInv, [Next]_vars, Undisturbed, Undisturbed' PROVE KeptInv'
  BY DisturbedStays DEF KeptUndisturbed
<1>0. /\ faults \in Nat /\ faults <= 1 /\ faults' \in Nat /\ faults' <= 1
      /\ attempts \in Nat /\ attempts' \in Nat /\ crashes \in Nat /\ crashes' \in Nat
      /\ attempts <= 1 \/ crashes = 0
      /\ attempts' <= 1 \/ crashes' = 0
      /\ "late" \notin FaultKinds
  BY BoundsAssumption DEF TypeInv, TypeOK, Undisturbed
<1>10. Finds(confirmed) => BootChoice = confirmed
  BY BootLooksUp DEF BootFinds, TypeInv, TypeOK
<1> USE <1>0, NoneAssumption, BoundsAssumption
    DEF TypeInv, TypeOK, UsesPrevious, UsesCandidate, ConnectLabels, PromoteLabels, RollbackLabels,
        locals, bounds, KeptInv, InPromotion, Finds, Owns, Settled, Retired, Promoted,
        Fault, NoFault, ReadFails,
        ListingOk, ListingFails, Changes, ChangeFails, Missing, RenameOk, RenameFails, Renamed, Removed,
        VerifyOk, VerifyFails, DeleteOk, DeleteFails, StopsDhcp, DeletesPending,
        Absent, Saved, Pending, Previous
<1>1. CASE Boots
  <2>1. CASE has_saved_station
    BY <2>1 DEF has_saved_station
  <2>2. CASE find_saved
    BY <2>2, <1>10 DEF find_saved
  <2>3. CASE rename_saved
    BY <2>3 DEF rename_saved
  <2>4. CASE verify_saved
    BY <2>4 DEF verify_saved
  <2>5. CASE stop_dhcp_for_saved
    BY <2>5 DEF stop_dhcp_for_saved
  <2>6. CASE up_saved
    BY <2>6 DEF up_saved
  <2> QED
    BY <1>1, <2>1, <2>2, <2>3, <2>4, <2>5, <2>6 DEF Boots
<1>2. CASE Connects
  <2>1. CASE connect_station
    BY <2>1 DEF connect_station
  <2>2. CASE stop_dhcp
    BY <2>2 DEF stop_dhcp
  <2>3. CASE find_previous
    BY <2>3 DEF find_previous, TheUuid, Named
  <2>4. CASE delete_stale
    BY <2>4 DEF delete_stale, Named
  <2>5. CASE create_pending
    BY <2>5 DEF create_pending
  <2>6. CASE drop_pending
    BY <2>6 DEF drop_pending, Named
  <2>7. CASE find_pending
    BY <2>7 DEF find_pending, TheUuid, Named
  <2>8. CASE up_pending
    BY <2>8 DEF up_pending
  <2>9. CASE drop_candidate
    BY <2>9 DEF drop_candidate
  <2>10. CASE secure_pending
    BY <2>10 DEF secure_pending
  <2> QED
    BY <1>2, <2>1, <2>2, <2>3, <2>4, <2>5, <2>6, <2>7, <2>8, <2>9, <2>10 DEF Connects
<1>3. CASE Promotes
  <2>1. CASE retire
    BY <2>1 DEF retire
  <2>2. CASE verify_retired
    BY <2>2 DEF verify_retired
  <2>3. CASE promote
    BY <2>3 DEF promote
  <2>4. CASE verify_promoted
    BY <2>4 DEF verify_promoted
  <2>5. CASE delete_previous
    BY <2>5 DEF delete_previous
  <2> QED
    BY <1>3, <2>1, <2>2, <2>3, <2>4, <2>5 DEF Promotes
<1>4. CASE RollsBack
  <2>1. CASE demote
    BY <2>1 DEF demote
  <2>2. CASE reinstate
    BY <2>2 DEF reinstate
  <2>3. CASE delete_candidate
    BY <2>3 DEF delete_candidate
  <2> QED
    BY <1>4, <2>1, <2>2, <2>3 DEF RollsBack
<1>5. CASE Provisions
  <2>1. CASE request_provisioning
    BY <2>1 DEF request_provisioning
  <2>2. CASE enable_ap
    BY <2>2 DEF enable_ap
  <2>3. CASE start_dhcp
    BY <2>3 DEF start_dhcp
  <2> QED
    BY <1>5, <2>1, <2>2, <2>3 DEF Provisions
<1>6. CASE link_lost
  BY <1>6 DEF link_lost
<1>7. CASE crash
  <2>1. Finds(confirmed) \/ (InPromotion /\ Finds(candidate))
    OBVIOUS
  <2>2. Finds(candidate) => BootChoice = candidate
    BY BootLooksUp DEF BootFinds
  <2>3. Finds(BootChoice)
    BY <2>1, <2>2, <1>10 DEFS Finds
  <2>4. ~ InPromotion => BootChoice = confirmed
    BY <1>10
  <2> QED
    BY <1>7, <2>3, <2>4 DEF crash
<1>8. CASE UNCHANGED vars
  BY <1>8 DEF vars
<1> QED
  BY <1>1, <1>2, <1>3, <1>4, <1>5, <1>6, <1>7, <1>8 DEF Next

(* In a promotion, boot finds one of the two networks, and which of them   *)
(* is said by who has the names.                                           *)
FoundNow ==
    /\ ~ InPromotion => BootChoice = confirmed
    /\ InPromotion => BootChoice \in {confirmed, candidate}
    /\ pc \in {"retire", "verify_retired", "promote", "reinstate", "delete_candidate"} =>
           BootChoice = confirmed
    /\ pc \in {"verify_promoted", "delete_previous"} => BootChoice = candidate

LEMMA Found == TypeInv /\ KeptInv => FoundNow
<1> SUFFICES ASSUME TypeInv, KeptInv PROVE FoundNow
  OBVIOUS
<1>1. /\ Finds(confirmed) => BootChoice = confirmed
      /\ Finds(candidate) => BootChoice = candidate
  BY BootLooksUp DEF BootFinds, TypeInv, TypeOK
<1>2. candidate # None \/ ~ InPromotion
  BY NoneAssumption DEF TypeInv, UsesCandidate, InPromotion
<1>3. pc \in {"retire", "verify_retired", "delete_previous", "reinstate"} => confirmed # None
  BY NoneAssumption DEF TypeInv, UsesPrevious, KeptInv, InPromotion, PromoteLabels, RollbackLabels
<1> QED
  BY <1>1, <1>2, <1>3
     DEF FoundNow, KeptInv, Finds, Settled, Retired, Promoted, InPromotion, PromoteLabels, RollbackLabels

LEMMA SavedNetworkInit == Init => Promise!Init
<1> SUFFICES ASSUME Init PROVE Promise!Init
  OBVIOUS
<1>1. BootChoice = confirmed
  BY KeptInit, TypeInvInit, Found DEF FoundNow, Init, InPromotion, PromoteLabels, RollbackLabels
<1> QED
  BY <1>1 DEF Init, Promise!Init, Trial, InPromotion, PromoteLabels, RollbackLabels

(* Joining the candidate is a trial, its promotion and every step back     *)
(* replace what boot finds, the last command of either confirms or         *)
(* abandons, a stop interrupts; all other commands are invisible.          *)
LEMMA SavedNetworkStep ==
    TypeInv /\ TypeInv' /\ KeptInv /\ KeptInv' /\ FoundNow /\ FoundNow' /\ [Next]_vars
        => [Promise!Next]_(Promise!vars)
<1> SUFFICES ASSUME TypeInv, TypeInv', KeptInv, KeptInv', FoundNow, FoundNow', [Next]_vars
             PROVE  [Promise!Next]_(Promise!vars)
  OBVIOUS
<1>0. BootChoice \in Uuids \cup {None}
  BY Lookups
<1> USE <1>0, NoneAssumption
    DEF TypeInv, TypeOK, UsesCandidate, FoundNow, InPromotion, PromoteLabels, RollbackLabels,
        Trial, locals, bounds,
        Promise!Next, Promise!vars, Promise!Try, Promise!Replace, Promise!Confirm, Promise!Abandon,
        Promise!Interrupt
<1>1. CASE Boots
  <2>1. CASE has_saved_station
    BY <2>1 DEF has_saved_station
  <2>2. CASE find_saved
    BY <2>2 DEF find_saved
  <2>3. CASE rename_saved
    BY <2>3 DEF rename_saved
  <2>4. CASE verify_saved
    BY <2>4 DEF verify_saved
  <2>5. CASE stop_dhcp_for_saved
    BY <2>5 DEF stop_dhcp_for_saved, StopsDhcp
  <2>6. CASE up_saved
    BY <2>6 DEF up_saved
  <2> QED
    BY <1>1, <2>1, <2>2, <2>3, <2>4, <2>5, <2>6 DEF Boots
<1>2. CASE Connects
  <2>1. CASE connect_station
    BY <2>1 DEF connect_station
  <2>2. CASE stop_dhcp
    BY <2>2 DEF stop_dhcp, StopsDhcp
  <2>3. CASE find_previous
    BY <2>3 DEF find_previous
  <2>4. CASE delete_stale
    BY <2>4 DEF delete_stale, DeletesPending
  <2>5. CASE create_pending
    BY <2>5 DEF create_pending
  <2>6. CASE drop_pending
    BY <2>6 DEF drop_pending, DeletesPending
  <2>7. CASE find_pending
    BY <2>7 DEF find_pending
  <2>8. CASE up_pending
    BY <2>8 DEF up_pending, KeptInv
  <2>9. CASE drop_candidate
    BY <2>9 DEF drop_candidate
  <2>10. CASE secure_pending
    BY <2>10 DEF secure_pending
  <2> QED
    BY <1>2, <2>1, <2>2, <2>3, <2>4, <2>5, <2>6, <2>7, <2>8, <2>9, <2>10 DEF Connects
<1>3. CASE Promotes
  <2>1. CASE retire
    BY <2>1 DEF retire
  <2>2. CASE verify_retired
    BY <2>2 DEF verify_retired
  <2>3. CASE promote
    BY <2>3 DEF promote
  <2>4. CASE verify_promoted
    BY <2>4 DEF verify_promoted
  <2>5. CASE delete_previous
    BY <2>5 DEF delete_previous
  <2> QED
    BY <1>3, <2>1, <2>2, <2>3, <2>4, <2>5 DEF Promotes
<1>4. CASE RollsBack
  <2>1. CASE demote
    BY <2>1 DEF demote
  <2>2. CASE reinstate
    BY <2>2 DEF reinstate
  <2>3. CASE delete_candidate
    BY <2>3 DEF delete_candidate
  <2> QED
    BY <1>4, <2>1, <2>2, <2>3 DEF RollsBack
<1>5. CASE Provisions
  <2>1. CASE request_provisioning
    BY <2>1 DEF request_provisioning
  <2>2. CASE enable_ap
    BY <2>2 DEF enable_ap
  <2>3. CASE start_dhcp
    BY <2>3 DEF start_dhcp
  <2> QED
    BY <1>5, <2>1, <2>2, <2>3 DEF Provisions
<1>6. CASE link_lost
  BY <1>6 DEF link_lost
<1>7. CASE crash
  BY <1>7 DEF crash
<1>8. CASE UNCHANGED vars
  BY <1>8 DEF vars
<1> QED
  BY <1>1, <1>2, <1>3, <1>4, <1>5, <1>6, <1>7, <1>8 DEF Next

(* Whatever the backend does, a boot finds the network last settled on or  *)
(* the one that was just joined, never neither (MANAGEMENT_NETWORK.md;     *)
(* backend.py 283-319): until a second command is refused, or an attempt   *)
(* follows a stop, the promotion and its rollback implement SavedNetwork,  *)
(* with any number of profiles, stops in one attempt and attempts without. *)
THEOREM SavedNetworkIsKept == ASSUME FaultKinds \subseteq {"clean"} PROVE Spec => SavedNetworkKept
<1>1. Init => KeptUndisturbed
  BY KeptInit DEF KeptUndisturbed
<1>2. KeptUndisturbed /\ TypeInv /\ TypeInv' /\ [Next]_vars => KeptUndisturbed'
  BY KeptNext
<1>7. TypeInv' /\ KeptInv' => FoundNow'
  BY Found, PTL
<1>3. /\ TypeInv /\ TypeInv' /\ KeptUndisturbed /\ KeptUndisturbed' /\ [Next]_vars
      => [Undisturbed' => Promise!Next]_(Promise!vars)
  <2> SUFFICES ASSUME TypeInv, TypeInv', KeptUndisturbed, KeptUndisturbed', [Next]_vars, Undisturbed'
               PROVE  [Promise!Next]_(Promise!vars)
    OBVIOUS
  <2>1. KeptInv /\ KeptInv'
    BY DisturbedStays DEF KeptUndisturbed
  <2>2. FoundNow /\ FoundNow'
    BY <2>1, <1>7, Found
  <2> QED  BY <2>1, <2>2, SavedNetworkStep
<1>4. Init => Promise!Init
  BY SavedNetworkInit
<1>5. Init => TypeInv
  BY TypeInvInit
<1>6. TypeInv /\ [Next]_vars => TypeInv'
  BY TypeNext
<1> QED
  BY <1>1, <1>2, <1>3, <1>4, <1>5, <1>6, PTL DEF Spec, SavedNetworkKept
=============================================================================
