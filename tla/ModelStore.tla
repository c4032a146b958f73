------------------------------- MODULE ModelStore -------------------------------
(***************************************************************************)
(* rave_model.py: operators install the one selected model into the store  *)
(* and point "current" and "known-good" at it.  The store is a directory   *)
(* of an ext4 filesystem: every process sees a change at once, a power cut *)
(* goes back to the last commit of the journal, and the bytes of a file    *)
(* are on the disk for sure only when the file was synced.                 *)
(***************************************************************************)
EXTENDS Naturals

CONSTANTS
    Admins,     \* commands that operators may have running
    None,
    MaxFaults,  \* bound on system calls that fail
    MaxKills,   \* bound on commands that are killed
    MaxCuts     \* bound on power cuts

ASSUME NoneAssumption == None \notin Admins
ASSUME BoundAssumption == MaxFaults \in Nat /\ MaxKills \in Nat /\ MaxCuts \in Nat

VARIABLES
    holder,      \* who holds .admin.lock
    pc, op,      \* of each command
    stage,       \* what each command has staged: its bytes
    stage_bytes, \* whether they are on the disk
    version,     \* the installed version
    bytes,       \* whether its bytes are on the disk
    current, known_good,
    disk,        \* version, current and known_good at the last commit
    activated,   \* an activation or a rollback was acknowledged
    faults, kills, cuts

processes == <<holder, pc, op, stage, stage_bytes>>
store == <<version, bytes, current, known_good>>
bounds == <<faults, kills, cuts>>
vars == <<processes, store, disk, activated, bounds>>

Operations == {"install", "activate", "qualify", "rollback"}
Content == {"absent", "whole", "damaged"}
Pointer == {"none", "selected"}
OnDisk == {"synced", "cached"}

TypeOK ==
    /\ holder \in Admins \cup {None}
    /\ pc \in [Admins -> {"idle", "start", "look", "recheck", "copy", "validate",
                          "sync", "rename", "readlink", "check", "replace",
                          "sync_store", "off"}]
    /\ op \in [Admins -> Operations]
    /\ stage \in [Admins -> Content]
    /\ \A a \in Admins : pc[a] \notin {"validate", "sync", "rename"} => stage[a] = "absent"
    /\ stage_bytes \in [Admins -> OnDisk]
    /\ version \in Content /\ bytes \in OnDisk
    /\ current \in Pointer /\ known_good \in Pointer
    /\ disk \in [version : Content, current : Pointer, known_good : Pointer]
    /\ activated \in {"no", "yes"}
    /\ faults \in 0 .. MaxFaults /\ kills \in 0 .. MaxKills /\ cuts \in 0 .. MaxCuts

(* The image has an empty store. *)
Init ==
    /\ holder = None
    /\ pc = [a \in Admins |-> "idle"] /\ op = [a \in Admins |-> "install"]
    /\ stage = [a \in Admins |-> "absent"] /\ stage_bytes = [a \in Admins |-> "synced"]
    /\ version = "absent" /\ bytes = "synced"
    /\ current = "none" /\ known_good = "none"
    /\ disk = [version |-> "absent", current |-> "none", known_good |-> "none"]
    /\ activated = "no"
    /\ faults = 0 /\ kills = 0 /\ cuts = 0

NoFault == UNCHANGED bounds
Fault == faults < MaxFaults /\ faults' = faults + 1 /\ UNCHANGED <<kills, cuts>>

(* Leaving the with blocks: the temporary directory is removed, the lock   *)
(* closed.                                                                 *)
Leaves(a) ==
    /\ pc' = [pc EXCEPT ![a] = "idle"]
    /\ holder' = None
    /\ stage' = [stage EXCEPT ![a] = "absent"]
    /\ UNCHANGED <<op, stage_bytes>>

(* A step fails, because of what it finds or of a system call. *)
Fails(a, found) == Leaves(a) /\ IF found THEN NoFault ELSE Fault

Goes(a, label) == pc' = [pc EXCEPT ![a] = label] /\ NoFault

-----------------------------------------------------------------------------
(* main and _store_lock *)

command(a) ==
    /\ pc[a] = "idle"
    /\ \E o \in Operations : op' = [op EXCEPT ![a] = o]
    /\ Goes(a, "start")
    /\ UNCHANGED <<holder, stage, stage_bytes, store, disk, activated>>

FirstStep(o) ==
    IF o = "install" THEN "look" ELSE IF o = "rollback" THEN "readlink" ELSE "check"

(* flock LOCK_EX | LOCK_NB: an overlapping command fails. *)
_store_lock(a) ==
    /\ pc[a] = "start"
    /\ \/ holder = None /\ holder' = a /\ Goes(a, FirstStep(op[a]))
       \/ holder # None /\ Goes(a, "idle") /\ UNCHANGED holder
    /\ UNCHANGED <<op, stage, stage_bytes, store, disk, activated>>

-----------------------------------------------------------------------------
(* install_model *)

look(a) ==
    /\ pc[a] = "look"
    /\ Goes(a, IF version = "absent" THEN "copy" ELSE "recheck")
    /\ UNCHANGED <<holder, op, stage, stage_bytes, store, disk, activated>>

recheck_Reinstalls(a) ==
    /\ pc[a] = "recheck"
    /\ version' = "absent" /\ bytes' = "synced"
    /\ Goes(a, "copy")
    /\ UNCHANGED <<holder, op, stage, stage_bytes, current, known_good, disk, activated>>

(* The source and the installed version are validated, nothing is written. *)
recheck(a) ==
    /\ pc[a] = "recheck"
    /\ Leaves(a) /\ (NoFault \/ Fault)
    /\ UNCHANGED <<store, disk, activated>>

(* The source may hold another file than the selected one. *)
copy(a) ==
    /\ pc[a] = "copy"
    /\ \/ \E content \in {"whole", "damaged"} :
            /\ stage' = [stage EXCEPT ![a] = content]
            /\ stage_bytes' = [stage_bytes EXCEPT ![a] = "cached"]
            /\ Goes(a, "validate") /\ UNCHANGED <<holder, op>>
       \/ Fails(a, FALSE)
    /\ UNCHANGED <<store, disk, activated>>

validate(a) ==
    /\ pc[a] = "validate"
    /\ \/ stage[a] = "whole" /\ Goes(a, "sync")
            /\ UNCHANGED <<holder, op, stage, stage_bytes>>
       \/ Fails(a, stage[a] = "damaged")
    /\ UNCHANGED <<store, disk, activated>>

sync_Skipped(a) ==
    /\ pc[a] = "sync" /\ Goes(a, "rename")
    /\ UNCHANGED <<holder, op, stage, stage_bytes, store, disk, activated>>

(* Both files, then the staging directory. *)
sync(a) ==
    /\ pc[a] = "sync"
    /\ \/ stage_bytes' = [stage_bytes EXCEPT ![a] = "synced"]
            /\ Goes(a, "rename") /\ UNCHANGED <<holder, op, stage>>
       \/ Fails(a, FALSE)
    /\ UNCHANGED <<store, disk, activated>>

rename(a) ==
    /\ pc[a] = "rename"
    /\ \/ /\ version = "absent"
          /\ version' = stage[a] /\ bytes' = stage_bytes[a]
          /\ stage' = [stage EXCEPT ![a] = "absent"]
          /\ Goes(a, "sync_store") /\ UNCHANGED <<holder, op, stage_bytes>>
       \/ Fails(a, version # "absent") /\ UNCHANGED <<version, bytes>>
    /\ UNCHANGED <<current, known_good, disk, activated>>

-----------------------------------------------------------------------------
(* rollback_model and _replace_pointer *)

readlink(a) ==
    /\ pc[a] = "readlink"
    /\ \/ known_good = "selected" /\ Goes(a, "check")
            /\ UNCHANGED <<holder, op, stage, stage_bytes>>
       \/ Fails(a, known_good = "none")
    /\ UNCHANGED <<store, disk, activated>>

_installed_version(a) ==
    /\ pc[a] = "check"
    /\ \/ version = "whole" /\ Goes(a, "replace")
            /\ UNCHANGED <<holder, op, stage, stage_bytes>>
       \/ Fails(a, version # "whole")
    /\ UNCHANGED <<store, disk, activated>>

replace_BothPointers(a) ==
    /\ pc[a] = "replace"
    /\ known_good' = "selected"
    /\ current' = IF op[a] = "qualify" THEN current ELSE "selected"
    /\ Goes(a, "sync_store") /\ UNCHANGED <<holder, op, stage, stage_bytes>>
    /\ UNCHANGED <<version, bytes, disk, activated>>

replace(a) ==
    /\ pc[a] = "replace"
    /\ \/ /\ IF op[a] = "qualify"
             THEN known_good' = "selected" /\ UNCHANGED current
             ELSE current' = "selected" /\ UNCHANGED known_good
          /\ Goes(a, "sync_store") /\ UNCHANGED <<holder, op, stage, stage_bytes>>
       \/ Fails(a, FALSE) /\ UNCHANGED <<current, known_good>>
    /\ UNCHANGED <<version, bytes, disk, activated>>

-----------------------------------------------------------------------------
Committed == [version |-> version, current |-> current, known_good |-> known_good]

Acknowledges(a) == activated' = IF op[a] \in {"activate", "rollback"} THEN "yes" ELSE activated

(* _sync_directory(store), the last step of every change. *)
_sync_directory_Skipped(a) ==
    /\ pc[a] = "sync_store"
    /\ Leaves(a) /\ NoFault /\ Acknowledges(a)
    /\ UNCHANGED <<store, disk>>

_sync_directory(a) ==
    /\ pc[a] = "sync_store"
    /\ \/ Leaves(a) /\ NoFault /\ disk' = Committed /\ Acknowledges(a)
       \/ Fails(a, FALSE) /\ UNCHANGED <<disk, activated>>
    /\ UNCHANGED store

Step(a) ==
    \/ command(a) \/ _store_lock(a) \/ look(a) \/ recheck(a) \/ copy(a) \/ validate(a)
    \/ sync(a) \/ rename(a) \/ readlink(a) \/ _installed_version(a) \/ replace(a)
    \/ _sync_directory(a)

-----------------------------------------------------------------------------
(* The machine *)

(* A killed command leaves a staging directory that nothing reads; the     *)
(* kernel closes its lock.                                                 *)
kill(a) ==
    /\ pc[a] # "idle"
    /\ kills < MaxKills /\ kills' = kills + 1 /\ UNCHANGED <<faults, cuts>>
    /\ pc' = [pc EXCEPT ![a] = "idle"]
    /\ holder' = IF holder = a THEN None ELSE holder
    /\ stage' = [stage EXCEPT ![a] = "absent"]
    /\ UNCHANGED <<op, stage_bytes, store, disk, activated>>

commit ==
    /\ disk # Committed /\ disk' = Committed
    /\ UNCHANGED <<processes, store, activated, bounds>>

power_cut ==
    /\ cuts < MaxCuts /\ cuts' = cuts + 1 /\ UNCHANGED <<faults, kills>>
    /\ holder' = None
    /\ pc' = [a \in Admins |-> "idle"]
    /\ stage' = [a \in Admins |-> "absent"]
    /\ current' = disk.current /\ known_good' = disk.known_good
    /\ IF disk.version = "whole" /\ bytes = "cached"
       THEN version' \in {"whole", "damaged"} ELSE version' = disk.version
    /\ bytes' = "synced"
    /\ disk' = [disk EXCEPT !.version = version']
    /\ UNCHANGED <<op, stage_bytes, activated>>

Next == (\E a \in Admins : Step(a) \/ kill(a)) \/ commit \/ power_cut

Spec == Init /\ [][Next]_vars

-----------------------------------------------------------------------------
(* Properties *)

(* A pointer that a process or the next boot finds names a complete        *)
(* version with the selected bytes, at every moment and after every cut    *)
(* (validation at 111 and 124, syncs before publication at 112-117).       *)
PointersNameWholeVersion ==
    /\ current = "selected" \/ known_good = "selected" => version = "whole"
    /\ disk.current = "selected" \/ disk.known_good = "selected" =>
        disk.version = "whole" /\ bytes = "synced"

(* Once an activation or a rollback was acknowledged, no cut takes it      *)
(* back, nor the version it points at, although the version may have been  *)
(* left uncommitted by an install that was killed (lines 126-129).         *)
ActivationSurvives ==
    activated = "yes" => disk.current = "selected" /\ disk.version = "whole"

(* known-good moves to a model only in the qualify command of an operator: *)
(* never with an activation, an installation or a rollback (142).          *)
OnlyQualified ==
    [][known_good # "selected" /\ known_good' = "selected" =>
        \E a \in Admins : op[a] = "qualify" /\ holder = a]_vars

(* What was installed is never replaced or changed by a command: only a    *)
(* cut before the commit takes it away (101-103, 118).                     *)
VersionsAreFinal ==
    [][version # "absent" /\ version' # version => cuts' > cuts]_vars
=============================================================================
