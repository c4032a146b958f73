----------------------------- MODULE ReleaseBuild -----------------------------
(* scripts/build-rave-os.sh and scripts/package-release-candidate.sh.      *)
(* Both stop at the first command that fails.  Neither takes a lock: a     *)
(* build may run beside a packaging, and the repository, which the build   *)
(* reads where it is (82), and the key file may be changed under them at   *)
(* any time.  Of each script one runs at a time.                           *)
EXTENDS Images

CONSTANTS
    EditedTrees,          \* what an edit can make of the repository
    FirstKey,
    ConfigurationOf(_),   \* the image section of a tree's rave-os.yaml
    KeyText(_),
    MaxEdits, MaxBuilds, MaxPackages, MaxStops    \* bounds

ASSUME BoundAssumption == MaxEdits \in Nat /\ EditedTrees \subseteq Trees /\ FirstKey \in KeyFiles

VARIABLES
    commits, tree,        \* the repository: its history, the worktree
    key_file,
    build,                \* the running build: next step and shell variables
    chroot,               \* work/chroot-<version>
    artifacts,            \* work/deploy-<version>, by commit
    provenance,           \* provenance.json
    package,              \* the running packaging
    candidate,            \* its output directory
    bounds

repository == <<commits, tree, key_file>>
release_vars == <<commits, tree, key_file, build, chroot, artifacts, provenance, package, candidate, bounds>>

Commits == 1 .. MaxEdits + 1
Idle == [pc |-> "idle"]
ConfigurationIsSound(t) == verify_image_configuration(ConfigurationOf(t))

ReleaseInit ==
    /\ tree \in Trees /\ commits = <<tree>> /\ key_file = FirstKey
    /\ build = Idle /\ package = Idle /\ chroot = None /\ provenance = None
    /\ artifacts = [c \in Commits |-> None]
    /\ candidate = [raw |-> None, xz |-> None, sums |-> None, manifest |-> None]
    /\ bounds = [edits |-> 0, builds |-> 0, packages |-> 0, faults |-> 0]

Counts(counter, limit) == bounds[counter] < limit /\ bounds' = [bounds EXCEPT ![counter] = @ + 1]

-----------------------------------------------------------------------------
(* The developer.  `steady` is history: FALSE once the build has read one  *)
(* thing of the repository or the key and finds another of it later.       *)
Disturbs(steps) == build' = IF build.pc \in steps THEN [build EXCEPT !.steady = FALSE] ELSE build
Reads == {"status", "verify_configuration", "build_chroot"}
Unbuilt == <<chroot, artifacts, provenance, package, candidate>>

edit ==
    /\ Counts("edits", MaxEdits)
    /\ tree' \in EditedTrees \ {tree}
    /\ Disturbs(Reads)
    /\ UNCHANGED <<commits, key_file, Unbuilt>>

git_commit ==
    /\ tree # Last(commits)
    /\ commits' = Append(commits, tree)
    /\ Disturbs(Reads)
    /\ UNCHANGED <<tree, key_file, bounds, Unbuilt>>

replace_key ==
    /\ Counts("edits", MaxEdits)
    /\ key_file' \in KeyFiles \ {key_file}
    /\ Disturbs({"read_fingerprint"})
    /\ UNCHANGED <<commits, tree, Unbuilt>>

-----------------------------------------------------------------------------
(* build-rave-os.sh *)

Goes(pc) == build' = [build EXCEPT !.pc = pc]
Requires(condition, pc) == build' = IF condition THEN [build EXCEPT !.pc = pc] ELSE Idle
Packaged == <<package, candidate>>

(* package.steady is history too: FALSE once a build has replaced, between *)
(* two looks of the packaging at it, what it packages.                     *)
Overtakes(condition) ==
    package' = IF package # Idle /\ condition THEN [package EXCEPT !.steady = FALSE] ELSE package

read_key ==
    /\ build = Idle
    /\ Counts("builds", MaxBuilds)
    /\ parse_public_key(KeyText(key_file))
    /\ build' = [pc |-> "read_fingerprint", key |-> key_file, fingerprint |-> None,
                 commit |-> 0, dirty |-> FALSE, steady |-> TRUE]
    /\ UNCHANGED <<repository, chroot, artifacts, provenance, Packaged>>

read_fingerprint ==
    /\ build.pc = "read_fingerprint"
    /\ build' = IF parse_public_key(KeyText(key_file))
                THEN [build EXCEPT !.pc = "rev_parse", !.fingerprint = fingerprint(KeyText(key_file))]
                ELSE Idle
    /\ UNCHANGED <<repository, chroot, artifacts, provenance, Packaged, bounds>>

rev_parse ==
    /\ build.pc = "rev_parse"
    /\ build' = [build EXCEPT !.pc = "status", !.commit = Len(commits)]
    /\ UNCHANGED <<repository, chroot, artifacts, provenance, Packaged, bounds>>

status ==
    /\ build.pc = "status"
    /\ build' = [build EXCEPT !.pc = "verify_configuration", !.dirty = tree # Last(commits)]
    /\ UNCHANGED <<repository, chroot, artifacts, provenance, Packaged, bounds>>

verify_configuration ==
    /\ build.pc = "verify_configuration"
    /\ Requires(ConfigurationIsSound(tree), "build_chroot")
    /\ UNCHANGED <<repository, chroot, artifacts, provenance, Packaged, bounds>>

(* rpi-image-gen: the root filesystem, then the image made of it.  Two     *)
(* builds of the same tree are not the same bytes.                         *)
build_chroot ==
    /\ build.pc = "build_chroot"
    /\ chroot' = [tree |-> tree, key |-> build.key, number |-> bounds.builds]
    /\ Goes("build_artifact")
    /\ UNCHANGED <<repository, artifacts, provenance, Packaged, bounds>>

build_artifact ==
    /\ build.pc = "build_artifact"
    /\ artifacts' = [artifacts EXCEPT ![build.commit] = chroot]
    /\ Overtakes(package.pc \in {"check_provenance", "extract"} /\ package.version = build.commit)
    /\ Goes("verify")
    /\ UNCHANGED <<repository, chroot, provenance, candidate, bounds>>

verify_image ==
    /\ build.pc = "verify"
    /\ Requires(Verifies[chroot.tree, chroot.key] /\ artifacts[build.commit] # None, "write_provenance")
    /\ UNCHANGED <<repository, chroot, artifacts, provenance, Packaged, bounds>>

(* The configuration is verified again for the storage layout.             *)
write_provenance ==
    /\ build.pc = "write_provenance"
    /\ provenance' =
           IF ConfigurationIsSound(tree)
           THEN [commit |-> build.commit, dirty |-> build.dirty, fingerprint |-> build.fingerprint,
                 sha256 |-> artifacts[build.commit], steady |-> build.steady]
           ELSE provenance
    /\ Overtakes(package.pc # "check_provenance" /\ ConfigurationIsSound(tree))
    /\ build' = Idle
    /\ UNCHANGED <<repository, chroot, artifacts, candidate, bounds>>

(* A command fails, or the build is killed. *)
build_stops ==
    /\ build # Idle /\ build' = Idle
    /\ Counts("faults", MaxStops)
    /\ UNCHANGED <<repository, chroot, artifacts, provenance, Packaged>>

-----------------------------------------------------------------------------
(* package-release-candidate.sh, for any artifact that there is *)

Built == <<build, chroot, artifacts, provenance>>
Packs(pc) == package' = [package EXCEPT !.pc = pc]
Source == artifacts[package.version]

test_source ==
    /\ package = Idle /\ provenance # None
    /\ Counts("packages", MaxPackages)
    /\ \E version \in Commits :
           /\ artifacts[version] # None
           /\ package' = [pc |-> "check_provenance", version |-> version, source_sha |-> artifacts[version],
                          xz_sha |-> None, steady |-> TRUE]
    /\ UNCHANGED <<repository, Built, candidate>>

check_provenance_Size ==
    /\ package.pc = "check_provenance"
    /\ Packs("extract")
    /\ UNCHANGED <<repository, Built, candidate, bounds>>

check_provenance ==
    /\ package.pc = "check_provenance"
    /\ package' = IF provenance.sha256 = package.source_sha THEN [package EXCEPT !.pc = "extract"] ELSE Idle
    /\ UNCHANGED <<repository, Built, candidate, bounds>>

extract ==
    /\ package.pc = "extract"
    /\ candidate' = [candidate EXCEPT !.raw = Source]
    /\ Packs("compress")
    /\ UNCHANGED <<repository, Built, bounds>>

compress ==
    /\ package.pc = "compress"
    /\ candidate' = [candidate EXCEPT !.xz = candidate.raw]
    /\ package' = [package EXCEPT !.pc = "checksums", !.xz_sha = candidate.raw]
    /\ UNCHANGED <<repository, Built, bounds>>

checksums ==
    /\ package.pc = "checksums"
    /\ candidate' = [candidate EXCEPT !.sums = package.xz_sha]
    /\ Packs("manifest")
    /\ UNCHANGED <<repository, Built, bounds>>

write_manifest ==
    /\ package.pc = "manifest"
    /\ candidate' = [candidate EXCEPT !.manifest = [image |-> package.xz_sha, provenance |-> provenance,
                                                       steady |-> package.steady]]
    /\ package' = Idle
    /\ UNCHANGED <<repository, Built, bounds>>

(* zstd and xz replace their output: one that is stopped leaves none. *)
package_stops ==
    /\ package # Idle /\ package' = Idle
    /\ Counts("faults", MaxStops)
    /\ candidate' = CASE package.pc = "extract" -> [candidate EXCEPT !.raw = None]
                      [] package.pc = "compress" -> [candidate EXCEPT !.xz = None]
                      [] OTHER -> candidate
    /\ UNCHANGED <<repository, Built>>

ReleaseNext ==
    \/ edit \/ git_commit \/ replace_key
    \/ read_key \/ read_fingerprint \/ rev_parse \/ status \/ verify_configuration
    \/ build_chroot \/ build_artifact \/ verify_image \/ write_provenance \/ build_stops
    \/ test_source \/ check_provenance \/ extract \/ compress \/ checksums
    \/ write_manifest \/ package_stops

-----------------------------------------------------------------------------
(* What release/README.md asks the user to check before flashing. *)
Checked ==
    /\ candidate.xz # None /\ candidate.sums = candidate.xz
    /\ candidate.manifest # None /\ candidate.manifest.image = candidate.xz

(* The artifact that the provenance in a candidate's manifest tells of is  *)
(* one that the verifier passed and that may not be published, whatever    *)
(* was rebuilt, interrupted or packaged again, and its commit, dirty state *)
(* and key are those it was built from, unless they were changed while it  *)
(* was built (build-rave-os.sh 110-114).  The image beside it, whose       *)
(* checksums hold, is that artifact, unless a build replaced one of them   *)
(* while they were packaged (package-release-candidate.sh 33-67).          *)
ManifestIsTrue ==
    Checked =>
        LET record == candidate.manifest.provenance
            built == record.sha256
        IN  /\ Verifies[built.tree, built.key]
            /\ ~Publishable[built.tree, built.key]
            /\ record.steady =>
                   /\ record.dirty = (built.tree # commits[record.commit])
                   /\ record.fingerprint = fingerprint(KeyText(built.key))
            /\ candidate.manifest.steady => candidate.xz = built
=============================================================================
