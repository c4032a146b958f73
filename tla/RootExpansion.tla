----------------------------- MODULE RootExpansion -----------------------------
(***************************************************************************)
(* rave_grow_rootfs.py, which rave-grow-rootfs.service runs once on every  *)
(* boot: the ROOT partition grows to the end of the card, the ext4         *)
(* filesystem grows to the end of the partition, and a completion record   *)
(* is left on that same filesystem.  Sizes are in units of one allocation  *)
(* step; Slack stands for MAX_TRAILING_BYTES.                              *)
(*                                                                         *)
(* What is on the filesystem is seen by everybody at once, but a power cut *)
(* goes back to the last commit of the ext4 journal.  The partition table  *)
(* is written through.  The kernel reads the table at boot, and again when *)
(* growpart tells it to.                                                   *)
(***************************************************************************)
EXTENDS Naturals

CONSTANTS
    ImageSize,   \* size of ROOT in the image that is flashed
    MaxDevice,   \* bound on the size of a card
    Slack,       \* MAX_TRAILING_BYTES
    NoRecord,    \* COMPLETION_PATH does not exist
    MaxFaults,   \* bound on commands and system calls that fail
    MaxCuts      \* bound on power cuts

Size == 0 .. MaxDevice
Records == [end : Size, fs : Size]

ASSUME SizeAssumption ==
    /\ MaxDevice \in Nat /\ ImageSize \in Size
    /\ Slack \in Nat /\ MaxFaults \in Nat /\ MaxCuts \in Nat
ASSUME RecordAssumption == NoRecord \notin Records

VARIABLES
    device,   \* size of the card
    table,    \* end of ROOT in the partition table
    kernel,   \* end of ROOT as the running kernel knows it
    fs,       \* size of the ext4 filesystem
    marker,   \* the completion record
    disk,     \* fs and marker as of the last commit of the journal
    pc,       \* the next step of expand_root, or how it ended
    before,   \* end_sector of the first plan
    faults, cuts

geometry == <<device, table, kernel>>
files == <<fs, marker>>
vars == <<geometry, files, disk, pc, before, faults, cuts>>

Steps == {"unlink", "inspect", "growpart", "verify", "resize", "measure",
          "replace", "sync"}
Ends == {"done", "failed", "unremoved"}   \* "unremoved": the unlink raised OSError

TypeOK ==
    /\ device \in Size /\ table \in 0 .. device /\ kernel \in 0 .. table
    /\ fs \in 0 .. kernel
    /\ marker \in Records \cup {NoRecord}
    /\ disk \in [fs : 0 .. fs, marker : Records \cup {NoRecord}]
    /\ pc \in {"off"} \cup Steps \cup Ends
    /\ before \in 0 .. table
    /\ faults \in 0 .. MaxFaults /\ cuts \in 0 .. MaxCuts

(* A freshly flashed card. *)
Init ==
    /\ device \in ImageSize .. MaxDevice
    /\ table = ImageSize /\ kernel = ImageSize /\ fs = ImageSize
    /\ marker = NoRecord
    /\ disk = [fs |-> ImageSize, marker |-> NoRecord]
    /\ pc = "off"
    /\ before = 0
    /\ faults = 0 /\ cuts = 0

Fault == faults < MaxFaults /\ faults' = faults + 1 /\ UNCHANGED cuts
NoFault == UNCHANGED <<faults, cuts>>

(* An ExpansionError, OSError or ValueError: main returns 1, and the unit  *)
(* is not started again before the next boot.                              *)
Fails == pc' = "failed" /\ Fault

-----------------------------------------------------------------------------
(* expand_root *)

(* The record of an earlier boot goes first. *)
unlink_Skipped ==
    /\ pc = "unlink"
    /\ pc' = "inspect" /\ NoFault
    /\ UNCHANGED <<geometry, files, disk, before>>

unlink ==
    /\ pc = "unlink"
    /\ \/ pc' = "inspect" /\ marker' = NoRecord /\ NoFault
       \/ pc' = "unremoved" /\ Fault /\ UNCHANGED marker
    /\ UNCHANGED <<geometry, fs, disk, before>>

needs_partition_growth == device - table > Slack

(* Identity checks, sizes and the first plan: reads, any of which fails.   *)
inspect ==
    /\ pc = "inspect"
    /\ \/ /\ before' = table /\ NoFault
          /\ pc' = IF needs_partition_growth THEN "growpart" ELSE "verify"
       \/ Fails /\ UNCHANGED before
    /\ UNCHANGED <<geometry, files, disk>>

(* growpart and udevadm settle.  A fault leaves the table written or not,  *)
(* ends short of the card, or is not noticed by the kernel, and is         *)
(* reported or not.                                                        *)
growpart ==
    /\ pc = "growpart"
    /\ \/ /\ table' \in table .. device /\ device - table' <= Slack
          /\ kernel' = table' /\ pc' = "verify" /\ NoFault
       \/ /\ table' \in table .. device /\ kernel' \in {kernel, table'}
          /\ pc' \in {"verify", "failed"} /\ Fault
    /\ UNCHANGED <<device, files, disk, before>>

(* verify_expanded_geometry on the second plan. *)
verify_expanded_geometry == table >= before /\ device - table <= Slack

verify ==
    /\ pc = "verify"
    /\ \/ verify_expanded_geometry /\ pc' = "resize" /\ NoFault
       \/ ~ verify_expanded_geometry /\ pc' = "failed" /\ NoFault
       \/ Fails
    /\ UNCHANGED <<geometry, files, disk, before>>

(* resize2fs grows the filesystem to the partition the kernel knows.       *)
resize_OnlyWhenGrown ==
    /\ pc = "resize"
    /\ fs' = IF table > before THEN kernel ELSE fs
    /\ pc' = "measure" /\ NoFault
    /\ UNCHANGED <<geometry, marker, disk, before>>

resize ==
    /\ pc = "resize"
    /\ \/ fs' = kernel /\ pc' = "measure" /\ NoFault
       \/ fs' \in fs .. kernel /\ Fails
    /\ UNCHANGED <<geometry, marker, disk, before>>

verify_filesystem_size == fs <= table /\ table - fs <= Slack

measure ==
    /\ pc = "measure"
    /\ \/ verify_filesystem_size /\ pc' = "replace" /\ NoFault
       \/ ~ verify_filesystem_size /\ pc' = "failed" /\ NoFault
       \/ Fails
    /\ UNCHANGED <<geometry, files, disk, before>>

(* write_completion: the finished record takes the place of the name...    *)
replace_Rounded ==
    /\ pc = "replace"
    /\ marker' = [end |-> device, fs |-> table] /\ pc' = "sync" /\ NoFault
    /\ UNCHANGED <<geometry, fs, disk, before>>

replace ==
    /\ pc = "replace"
    /\ \/ marker' = [end |-> table, fs |-> fs] /\ pc' = "sync" /\ NoFault
       \/ Fails /\ UNCHANGED marker
    /\ UNCHANGED <<geometry, fs, disk, before>>

(* ...and the directory is synced, which commits all that came before.     *)
sync_Skipped ==
    /\ pc = "sync" /\ pc' = "done" /\ NoFault
    /\ UNCHANGED <<geometry, files, disk, before>>

sync ==
    /\ pc = "sync"
    /\ \/ disk' = [fs |-> fs, marker |-> marker] /\ pc' = "done" /\ NoFault
       \/ Fails /\ UNCHANGED disk
    /\ UNCHANGED <<geometry, files, before>>

expand_root ==
    \/ unlink \/ inspect \/ growpart \/ verify \/ resize \/ measure
    \/ replace \/ sync

-----------------------------------------------------------------------------
(* The machine around the script.                                          *)

(* The service starts with what the kernel read from the table.            *)
boot ==
    /\ pc = "off" /\ pc' = "unlink"
    /\ kernel' = table
    /\ UNCHANGED <<device, table, files, disk, before, faults, cuts>>

(* The journal commits on its own every few seconds.                       *)
journal_commit ==
    /\ pc # "off"
    /\ disk # [fs |-> fs, marker |-> marker]
    /\ disk' = [fs |-> fs, marker |-> marker]
    /\ UNCHANGED <<geometry, files, pc, before, faults, cuts>>

shutdown ==
    /\ pc \in Ends /\ pc' = "off"
    /\ disk' = [fs |-> fs, marker |-> marker]
    /\ UNCHANGED <<geometry, files, before, faults, cuts>>

power_cut ==
    /\ pc # "off" /\ pc' = "off"
    /\ cuts < MaxCuts /\ cuts' = cuts + 1
    /\ fs' = disk.fs /\ marker' = disk.marker
    /\ UNCHANGED <<geometry, disk, before, faults>>

(* The used image is copied to a larger card.                              *)
move_to_larger_card ==
    /\ pc = "off"
    /\ device' \in device + 1 .. MaxDevice
    /\ UNCHANGED <<table, kernel, files, disk, pc, before, faults, cuts>>

Next == expand_root \/ boot \/ journal_commit \/ shutdown \/ power_cut \/ move_to_larger_card

Spec == Init /\ [][Next]_vars

(* Once started, the oneshot service runs on; a user switches the device   *)
(* on again some time after it went off.                                   *)
FairSpec == Spec /\ WF_vars(expand_root) /\ WF_vars(boot)

-----------------------------------------------------------------------------
(* Properties *)

Fills(e, f) == device - e <= Slack /\ e - f <= Slack

(* Once this boot has removed the old record, a record is there only when  *)
(* it tells the present geometry and that geometry fills the card: no      *)
(* failure on the way leaves or writes a false claim (lines 198, 218-229). *)
ClaimIsTrue ==
    pc \notin {"off", "unlink", "unremoved"} /\ marker # NoRecord =>
        /\ marker = [end |-> table, fs |-> fs]
        /\ Fills(table, fs)

(* When the script reports success, a power cut cannot take back the       *)
(* record, nor the growth it tells of (lines 187-194).                     *)
SuccessSurvives ==
    pc = "done" => marker # NoRecord /\ disk = [fs |-> fs, marker |-> marker]

(* Whatever a power cut leaves, a record found at boot never claims more   *)
(* than the partition and the filesystem have: it is true, or the truth    *)
(* about a smaller card (resize at 223 before the record at 229).          *)
ClaimWithinDisk ==
    disk.marker # NoRecord => disk.marker.end <= table /\ disk.marker.fs <= disk.fs

(* A boot completes the expansion unless a further command fails or the    *)
(* power is cut, whatever partial state earlier boots left behind: a grown *)
(* partition with a small filesystem, a stale kernel view, a larger card,  *)
(* a record or none (line 223 is not conditional on line 214).             *)
BootCompletes ==
    \A f \in 0 .. MaxFaults, c \in 0 .. MaxCuts :
        pc = "unlink" /\ faults = f /\ cuts = c ~>
            (pc = "done" /\ Fills(table, fs)) \/ faults > f \/ cuts > c
=============================================================================
