---------------------------- MODULE ApplianceProofs ----------------------------
(***************************************************************************)
(* Theorems about the appliance, from the repository to the device, for    *)
(* any repository, any number of builds, releases, devices and boots and   *)
(* any failures (Deployment), and about the root filesystem that grows on  *)
(* its card, for every size of card (RootExpansion).                       *)
(***************************************************************************)
EXTENDS Deployment, RootExpansion, FiniteSetTheorems, SequenceTheorems, TLAPS

-----------------------------------------------------------------------------
(* What the release knows of its images.                                   *)

Running == {"read_fingerprint", "rev_parse", "status", "verify_configuration", "build_chroot",
            "build_artifact", "verify", "write_provenance"}
Packing == {"check_provenance", "extract", "compress", "checksums", "manifest"}
Image(built) == built.tree \in Trees /\ built.key \in KeyFiles

(* The worktree differs from the last commit only by an edit that no       *)
(* commit has used up, so that the history stays within its bound.         *)
HistoryBound ==
    /\ commits \in Seq(Trees) /\ tree \in Trees /\ key_file \in KeyFiles
    /\ bounds = [edits |-> bounds.edits, builds |-> bounds.builds, packages |-> bounds.packages,
                 faults |-> bounds.faults]
    /\ bounds.edits \in 0 .. MaxEdits
    /\ Len(commits) \in 1 .. bounds.edits + 1
    /\ tree # Last(commits) => Len(commits) <= bounds.edits

(* What each step of an undisturbed build has read is still so, and what   *)
(* it made is of the tree and the key that it read.                        *)
BuildReads ==
    build = Idle \/
        /\ build.pc \in Running /\ build.key \in KeyFiles
        /\ build = [pc |-> build.pc, key |-> build.key, fingerprint |-> build.fingerprint,
                    commit |-> build.commit, dirty |-> build.dirty, steady |-> build.steady]
        /\ build.pc = "read_fingerprint" =>
               (build.steady => key_file = build.key)
        /\ build.pc # "read_fingerprint" =>
               (build.steady => build.fingerprint = fingerprint(KeyText(build.key)))
        /\ build.pc \notin {"read_fingerprint", "rev_parse"} => build.commit \in 1 .. Len(commits)
        /\ build.pc = "status" => (build.steady => build.commit = Len(commits))
        /\ build.pc \in {"verify_configuration", "build_chroot"} =>
               (build.steady => build.dirty = (tree # commits[build.commit]))

BuildMakes ==
    /\ build.pc \in {"build_artifact", "verify", "write_provenance"} =>
           /\ Image(chroot) /\ chroot.key = build.key
           /\ build.steady => build.dirty = (chroot.tree # commits[build.commit])
    /\ build.pc \in {"verify", "write_provenance"} => artifacts[build.commit] = chroot
    /\ build.pc = "write_provenance" => Verifies[chroot.tree, chroot.key]
    /\ DOMAIN artifacts = Commits

(* A provenance that is true of a history. *)
Truth(record, history) ==
    LET built == record.sha256 IN
    /\ Image(built) /\ Verifies[built.tree, built.key]
    /\ record.commit \in 1 .. Len(history)
    /\ record.steady =>
           /\ record.dirty = (built.tree # history[record.commit])
           /\ record.fingerprint = fingerprint(KeyText(built.key))

(* From the check on, an artifact that no build has replaced since is the  *)
(* one that the provenance tells of, whatever is built beside it.          *)
PackageReads ==
    package = Idle \/
        /\ package.pc \in Packing /\ package.version \in Commits /\ Truth(provenance, commits)
        /\ package = [pc |-> package.pc, version |-> package.version, source_sha |-> package.source_sha,
                      xz_sha |-> package.xz_sha, steady |-> package.steady]
        /\ package.steady =>
               /\ package.pc \in {"check_provenance", "extract"} => package.source_sha = Source
               /\ package.pc # "check_provenance" => package.source_sha = provenance.sha256
               /\ package.pc = "compress" => candidate.raw = package.source_sha
               /\ package.pc \in {"checksums", "manifest"} => package.xz_sha = package.source_sha

CandidateTrue ==
    /\ candidate = [raw |-> candidate.raw, xz |-> candidate.xz, sums |-> candidate.sums,
                    manifest |-> candidate.manifest]
    /\ candidate.manifest # None =>
           /\ Truth(candidate.manifest.provenance, commits)
           /\ candidate.manifest.steady => candidate.manifest.image = candidate.manifest.provenance.sha256

(* Verified or not, everything that is built is an image of some content   *)
(* of the repository and some key.                                         *)
ImagesOnly ==
    /\ chroot # None => Image(chroot)
    /\ \A c \in Commits : artifacts[c] # None => Image(artifacts[c])
    /\ candidate.raw # None => Image(candidate.raw)
    /\ candidate.xz # None => Image(candidate.xz)

ReleaseInv ==
    /\ HistoryBound /\ BuildReads /\ BuildMakes /\ PackageReads /\ CandidateTrue /\ ImagesOnly
    /\ provenance # None => Truth(provenance, commits)

USE BoundAssumption

LEMMA ReleaseInvInit == ReleaseInit => ReleaseInv
  BY DEF ReleaseInit, ReleaseInv, HistoryBound, BuildReads, BuildMakes, PackageReads, CandidateTrue, ImagesOnly,
         Idle, Commits, Last

(* The history only grows, and what a record says of it stays true. *)
LEMMA TruthStays ==
    ASSUME NEW record, NEW history \in Seq(Trees), NEW t \in Trees, Truth(record, history)
    PROVE  Truth(record, Append(history, t))
<1> DEFINE c == record.commit
<1>1. c \in 1 .. Len(history)
  BY DEF Truth
<1>2. Append(history, t)[c] = history[c] /\ c \in 1 .. Len(Append(history, t))
  BY <1>1
<1> HIDE DEF c
<1>3. Truth(record, history)
  OBVIOUS
<1> QED  BY <1>2, <1>3 DEF Truth, c

(* The counters of the bounds. *)
LEMMA Counting ==
    ASSUME HistoryBound, NEW counter \in {"edits", "builds", "packages", "faults"}, NEW limit,
           Counts(counter, limit)
    PROVE  /\ bounds' = [edits |-> bounds'.edits, builds |-> bounds'.builds, packages |-> bounds'.packages,
                         faults |-> bounds'.faults]
           /\ bounds'.edits = IF counter = "edits" THEN bounds.edits + 1 ELSE bounds.edits
           /\ counter = "edits" => bounds.edits < limit
<1> DEFINE old == bounds
<1>1. bounds' = [old EXCEPT ![counter] = old[counter] + 1] /\ old[counter] < limit
  BY DEF Counts
<1>2. old = [edits |-> old.edits, builds |-> old.builds, packages |-> old.packages, faults |-> old.faults]
  BY DEF HistoryBound
<1> QED  BY <1>1, <1>2

LEMMA DeveloperKeeps ==
    ASSUME ReleaseInv, edit \/ git_commit \/ replace_key
    PROVE  ReleaseInv'
<1> USE DEF ReleaseInv, Disturbs, Reads, Unbuilt
<1>1. CASE edit
  <2>1. HistoryBound'
    <3>1. UNCHANGED <<commits, key_file>> /\ tree' \in Trees
      BY <1>1 DEF edit
    <3>2. /\ bounds' = [edits |-> bounds'.edits, builds |-> bounds'.builds, packages |-> bounds'.packages,
                        faults |-> bounds'.faults]
          /\ bounds'.edits = bounds.edits + 1 /\ bounds.edits < MaxEdits
      BY <1>1, Counting DEF edit
    <3> QED  BY <3>1, <3>2 DEF HistoryBound
  <2>2. BuildReads'
    BY <1>1 DEF edit, BuildReads, Running, Idle, HistoryBound
  <2>3. BuildMakes'
    BY <1>1 DEF edit, BuildReads, BuildMakes, Running, Idle, Image
  <2>4. PackageReads'
    BY <1>1 DEF edit, PackageReads, Source, Idle, Packing
  <2>5. CandidateTrue' /\ (provenance # None => Truth(provenance, commits))'
    BY <1>1 DEF edit, CandidateTrue
  <2>6. ImagesOnly'
    BY <1>1 DEF edit, ImagesOnly, Image
  <2> QED  BY <2>1, <2>2, <2>3, <2>4, <2>5, <2>6
<1>2. CASE git_commit
  <2>0. /\ commits' = Append(commits, tree) /\ UNCHANGED <<tree, key_file, bounds, Unbuilt>>
        /\ tree # Last(commits) /\ Disturbs(Reads)
    BY <1>2 DEF git_commit
  <2>a. commits \in Seq(Trees) /\ tree \in Trees
    BY DEF HistoryBound
  <2>b. /\ commits' \in Seq(Trees) /\ Len(commits') = Len(commits) + 1
        /\ Last(commits') = tree /\ commits'[Len(commits')] = tree
    BY <2>0, <2>a DEF Last
  <2>c. \A c \in 1 .. Len(commits) : commits'[c] = commits[c] /\ c \in 1 .. Len(commits')
    BY <2>0, <2>a
  <2>1. HistoryBound'
    BY <2>0, <2>b DEF HistoryBound
  <2>2. BuildReads'
    BY <2>0, <2>b, <2>c DEF BuildReads, Running, Idle
  <2>3. BuildMakes'
    <3>1. UNCHANGED <<chroot, artifacts, build.pc, build.key, build.commit, build.dirty>>
          /\ (build'.steady => build.steady)
      BY <2>0 DEF BuildReads, Running, Idle
    <3>2. build.pc \in {"build_artifact", "verify", "write_provenance"} =>
              commits'[build.commit] = commits[build.commit]
      BY <2>c DEF BuildReads, Running, Idle
    <3> QED  BY <3>1, <3>2 DEF BuildMakes, Image
  <2>4. PackageReads'
    BY <2>0, <2>a, TruthStays DEF PackageReads, Source, Idle, Packing
  <2>5. CandidateTrue' /\ (provenance # None => Truth(provenance, commits))'
    BY <2>0, <2>a, TruthStays DEF CandidateTrue
  <2>6. ImagesOnly'
    BY <2>0 DEF ImagesOnly, Image
  <2> QED  BY <2>1, <2>2, <2>3, <2>4, <2>5, <2>6
<1>3. CASE replace_key
  <2>1. HistoryBound'
    <3>1. UNCHANGED <<commits, tree>> /\ key_file' \in KeyFiles
      BY <1>3 DEF replace_key
    <3>2. /\ bounds' = [edits |-> bounds'.edits, builds |-> bounds'.builds, packages |-> bounds'.packages,
                        faults |-> bounds'.faults]
          /\ bounds'.edits = bounds.edits + 1 /\ bounds.edits < MaxEdits
      BY <1>3, Counting DEF replace_key
    <3> QED  BY <3>1, <3>2 DEF HistoryBound
  <2>2. BuildReads'
    BY <1>3 DEF replace_key, BuildReads, Running, Idle, HistoryBound
  <2>3. BuildMakes'
    BY <1>3 DEF replace_key, BuildReads, BuildMakes, Running, Idle, Image
  <2>4. PackageReads'
    BY <1>3 DEF replace_key, PackageReads, Source, Idle, Packing
  <2>5. CandidateTrue' /\ (provenance # None => Truth(provenance, commits))'
    BY <1>3 DEF replace_key, CandidateTrue
  <2>6. ImagesOnly'
    BY <1>3 DEF replace_key, ImagesOnly, Image
  <2> QED  BY <2>1, <2>2, <2>3, <2>4, <2>5, <2>6
<1> QED  BY <1>1, <1>2, <1>3

(* The steps of the build.  Two of them touch what a packaging reads: it   *)
(* is not steady then, if it looks again at what they replace.             *)
LEMMA BuildKeeps ==
    ASSUME ReleaseInv,
           \/ read_key \/ read_fingerprint \/ rev_parse \/ status \/ verify_configuration
           \/ build_chroot \/ build_artifact \/ verify_image \/ write_provenance \/ build_stops
    PROVE  ReleaseInv'
<1> USE DEF ReleaseInv, Goes, Requires, Packaged, repository
<1>0. build = Idle => build.pc = "idle"
  BY DEF Idle
<1>a. ASSUME UNCHANGED <<repository, package, candidate, provenance, artifacts>>,
             UNCHANGED chroot \/ Image(chroot'), HistoryBound', BuildReads', BuildMakes'
      PROVE  ReleaseInv'
  <2>1. PackageReads'
    BY <1>a DEF PackageReads, Source
  <2>2. ImagesOnly'
    BY <1>a DEF ImagesOnly, Image
  <2> QED  BY <1>a, <2>1, <2>2 DEF CandidateTrue
<1>c. ASSUME UNCHANGED <<repository, bounds>> PROVE HistoryBound'
  BY <1>c DEF HistoryBound
<1>d. DOMAIN artifacts = Commits /\ Len(commits) \in 1 .. MaxEdits + 1
  <2>1. DOMAIN artifacts = Commits
    BY DEF BuildMakes
  <2>2. Len(commits) \in 1 .. MaxEdits + 1
    BY DEF HistoryBound
  <2> QED  BY <2>1, <2>2
<1>1. CASE read_key
  <2>1. HistoryBound'
    <3>1. /\ bounds' = [edits |-> bounds'.edits, builds |-> bounds'.builds, packages |-> bounds'.packages,
                        faults |-> bounds'.faults]
          /\ bounds'.edits = bounds.edits
      BY <1>1, Counting DEF read_key
    <3> QED  BY <1>1, <3>1 DEF read_key, HistoryBound
  <2>2. BuildReads'
    BY <1>1 DEF read_key, BuildReads, Running, HistoryBound
  <2>3. BuildMakes'
    BY <1>1 DEF read_key, BuildMakes
  <2> QED  BY <1>1, <1>a, <2>1, <2>2, <2>3 DEF read_key
<1>2. CASE read_fingerprint
  <2>1. BuildReads'
    BY <1>2, <1>0 DEF read_fingerprint, BuildReads, Running, Idle
  <2>2. BuildMakes'
    BY <1>2, <1>0 DEF read_fingerprint, BuildMakes, BuildReads, Idle
  <2> QED  BY <1>2, <1>0, <1>a, <1>c, <2>1, <2>2 DEF read_fingerprint
<1>3. CASE rev_parse
  <2>1. BuildReads'
    <3>1. /\ build.key \in KeyFiles
          /\ build.steady => build.fingerprint = fingerprint(KeyText(build.key))
          /\ build' = [pc |-> "status", key |-> build.key, fingerprint |-> build.fingerprint,
                       commit |-> Len(commits), dirty |-> build.dirty, steady |-> build.steady]
          /\ UNCHANGED commits
      BY <1>3, <1>0 DEF rev_parse, BuildReads
    <3>2. Len(commits) \in 1 .. Len(commits)
      BY <1>d
    <3> QED  BY <3>1, <3>2 DEF BuildReads, Running
  <2>2. BuildMakes'
    BY <1>3, <1>0 DEF rev_parse, BuildMakes, BuildReads, Idle
  <2> QED  BY <1>3, <1>0, <1>a, <1>c, <2>1, <2>2 DEF rev_parse
<1>4. CASE status
  <2>1. BuildReads'
    <3>1. /\ build.commit \in 1 .. Len(commits) /\ (build.steady => build.commit = Len(commits))
          /\ build' = [pc |-> "verify_configuration", key |-> build.key, fingerprint |-> build.fingerprint,
                       commit |-> build.commit, dirty |-> tree # Last(commits), steady |-> build.steady]
      BY <1>4, <1>0 DEF status, BuildReads
    <3>2. build.steady => Last(commits) = commits[build.commit]
      BY <3>1, <1>d DEF Last
    <3>3. build.key \in KeyFiles /\ (build.steady => build.fingerprint = fingerprint(KeyText(build.key)))
      BY <1>4, <1>0 DEF status, BuildReads
    <3>4. /\ build'.pc = "verify_configuration" /\ build'.key = build.key
          /\ build'.fingerprint = build.fingerprint /\ build'.commit = build.commit
          /\ build'.dirty = (tree # Last(commits)) /\ build'.steady = build.steady
          /\ build' = [pc |-> build'.pc, key |-> build'.key, fingerprint |-> build'.fingerprint,
                       commit |-> build'.commit, dirty |-> build'.dirty, steady |-> build'.steady]
      BY <3>1
    <3>5. UNCHANGED <<commits, tree>>
      BY <1>4 DEF status
    <3>6. build'.steady => build'.dirty = (tree' # commits'[build'.commit])
      BY <3>2, <3>4, <3>5
    <3>7. build'.steady => build'.fingerprint = fingerprint(KeyText(build'.key))
      BY <3>3, <3>4
    <3>8. build'.commit \in 1 .. Len(commits') /\ build'.key \in KeyFiles
      BY <3>1, <3>3, <3>4, <3>5
    <3> QED  BY <3>4, <3>6, <3>7, <3>8 DEF BuildReads, Running
  <2>2. BuildMakes'
    BY <1>4, <1>0 DEF status, BuildMakes, BuildReads, Idle
  <2> QED  BY <1>4, <1>0, <1>a, <1>c, <2>1, <2>2 DEF status
<1>5. CASE verify_configuration
  <2>1. BuildReads'
    BY <1>5, <1>0 DEF verify_configuration, BuildReads, Running, Idle
  <2>2. BuildMakes'
    BY <1>5, <1>0 DEF verify_configuration, BuildMakes, BuildReads, Idle
  <2> QED  BY <1>5, <1>0, <1>a, <1>c, <2>1, <2>2 DEF verify_configuration
<1>6. CASE build_chroot
  <2>1. BuildReads'
    BY <1>6, <1>0 DEF build_chroot, BuildReads, Running, Idle
  <2>2. BuildMakes'
    BY <1>6, <1>0 DEF build_chroot, BuildMakes, BuildReads, HistoryBound, Image
  <2>3. Image(chroot')
    BY <1>6, <1>0 DEF build_chroot, BuildReads, HistoryBound, Image
  <2> QED  BY <1>6, <1>0, <1>a, <1>c, <2>1, <2>2, <2>3 DEF build_chroot
<1>7. CASE build_artifact
  <2>1. BuildReads'
    BY <1>7, <1>0 DEF build_artifact, BuildReads, Running, Idle
  <2>2. BuildMakes'
    BY <1>7, <1>0, <1>d DEF build_artifact, BuildMakes, BuildReads, Image, Commits
  <2>3. PackageReads'
    <3>1. /\ artifacts' = [artifacts EXCEPT ![build.commit] = chroot] /\ UNCHANGED <<commits, provenance, candidate>>
          /\ Overtakes(package.pc \in {"check_provenance", "extract"} /\ package.version = build.commit)
      BY <1>7 DEF build_artifact, repository
    <3>2. CASE package = Idle
      BY <3>1, <3>2 DEF Overtakes, PackageReads
    <3>3. CASE package # Idle /\ package.pc \in {"check_provenance", "extract"} /\ package.version = build.commit
      <4>1. package' = [package EXCEPT !.steady = FALSE]
        BY <3>1, <3>3 DEF Overtakes
      <4>2. /\ package.pc \in Packing /\ package.version \in Commits /\ Truth(provenance, commits)
            /\ package' = [pc |-> package.pc, version |-> package.version, source_sha |-> package.source_sha,
                           xz_sha |-> package.xz_sha, steady |-> FALSE]
        BY <3>3, <4>1 DEF PackageReads
      <4>3. Truth(provenance', commits')
        BY <3>1, <4>2 DEF Truth
      <4> QED  BY <4>2, <4>3 DEF PackageReads
    <3>4. CASE package # Idle /\ ~(package.pc \in {"check_provenance", "extract"} /\ package.version = build.commit)
      <4>1. UNCHANGED package
        BY <3>1, <3>4 DEF Overtakes
      <4>2. package.pc \in {"check_provenance", "extract"} => Source' = Source
        BY <3>1, <3>4, <4>1, <1>d DEF Source, PackageReads
      <4>3. Truth(provenance, commits) => Truth(provenance', commits')
        BY <3>1 DEF Truth
      <4>4. CASE package.steady
        BY <3>1, <3>4, <4>1, <4>2, <4>3, <4>4 DEF PackageReads
      <4>5. CASE ~package.steady
        BY <3>1, <3>4, <4>1, <4>3, <4>5 DEF PackageReads
      <4> QED  BY <4>4, <4>5
    <3> QED  BY <3>2, <3>3, <3>4
  <2>4. UNCHANGED <<repository, candidate, provenance, bounds>>
    BY <1>7 DEF build_artifact
  <2>5. ImagesOnly'
    BY <1>7, <1>d DEF build_artifact, BuildMakes, ImagesOnly, Image
  <2> QED  BY <1>c, <2>1, <2>2, <2>3, <2>4, <2>5 DEF CandidateTrue
<1>8. CASE verify_image
  <2>1. BuildReads'
    BY <1>8, <1>0 DEF verify_image, BuildReads, Running, Idle
  <2>2. BuildMakes'
    BY <1>8, <1>0 DEF verify_image, BuildMakes, BuildReads, Image, Idle
  <2> QED  BY <1>8, <1>0, <1>a, <1>c, <2>1, <2>2 DEF verify_image
<1>9. CASE write_provenance
  <2>1. HistoryBound' /\ BuildReads' /\ BuildMakes'
    BY <1>9, <1>0, <1>c DEF write_provenance, BuildReads, BuildMakes, Idle
  <2>2. UNCHANGED provenance \/ Truth(provenance', commits)
    <3>1. CASE UNCHANGED provenance
      BY <3>1
    <3>2. CASE provenance' = [commit |-> build.commit, dirty |-> build.dirty, fingerprint |-> build.fingerprint,
                              sha256 |-> artifacts[build.commit], steady |-> build.steady]
      <4>1. /\ Image(chroot) /\ chroot.key = build.key /\ artifacts[build.commit] = chroot
            /\ Verifies[chroot.tree, chroot.key]
            /\ build.steady => build.dirty = (chroot.tree # commits[build.commit])
        BY <1>9 DEF write_provenance, BuildMakes
      <4>2. /\ build.commit \in 1 .. Len(commits)
            /\ build.steady => build.fingerprint = fingerprint(KeyText(build.key))
        BY <1>9, <1>0 DEF write_provenance, BuildReads
      <4>3. /\ provenance'.commit = build.commit /\ provenance'.dirty = build.dirty
            /\ provenance'.fingerprint = build.fingerprint /\ provenance'.sha256 = artifacts[build.commit]
            /\ provenance'.steady = build.steady
        BY <3>2
      <4> QED  BY <4>1, <4>2, <4>3 DEF Truth
    <3> QED  BY <1>9, <3>1, <3>2 DEF write_provenance
  <2>3. PackageReads'
    <3>1. /\ Overtakes(package.pc # "check_provenance" /\ ConfigurationIsSound(tree))
          /\ UNCHANGED <<candidate, artifacts>>
          /\ ConfigurationIsSound(tree) \/ UNCHANGED provenance
      BY <1>9 DEF write_provenance
    <3>2. CASE package = Idle
      BY <3>1, <3>2 DEF Overtakes, PackageReads
    <3>3. UNCHANGED commits /\ (package # Idle => Truth(provenance', commits))
      BY <1>9, <2>2 DEF write_provenance, PackageReads
    <3>4. CASE package # Idle /\ package.pc # "check_provenance" /\ ConfigurationIsSound(tree)
      BY <3>1, <3>3, <3>4 DEF Overtakes, PackageReads, Packing
    <3>5. CASE package # Idle /\ ~(package.pc # "check_provenance" /\ ConfigurationIsSound(tree))
      <4>1. UNCHANGED <<package, artifacts, candidate>> /\ (package.pc # "check_provenance" => UNCHANGED provenance)
        BY <3>1, <3>5 DEF Overtakes
      <4> QED  BY <3>3, <3>5, <4>1 DEF PackageReads, Source
    <3> QED  BY <3>2, <3>4, <3>5
  <2>4. UNCHANGED <<repository, candidate>>
    BY <1>9 DEF write_provenance
  <2>5. ImagesOnly'
    BY <1>9 DEF write_provenance, ImagesOnly, Image
  <2> QED  BY <2>1, <2>2, <2>3, <2>4, <2>5 DEF CandidateTrue
<1>10. CASE build_stops
  <2>1. HistoryBound'
    <3>1. /\ bounds' = [edits |-> bounds'.edits, builds |-> bounds'.builds, packages |-> bounds'.packages,
                        faults |-> bounds'.faults]
          /\ bounds'.edits = bounds.edits
      BY <1>10, Counting DEF build_stops
    <3> QED  BY <1>10, <3>1 DEF build_stops, HistoryBound
  <2>2. BuildReads' /\ BuildMakes'
    BY <1>10 DEF build_stops, BuildReads, BuildMakes, Idle
  <2> QED  BY <1>10, <1>0, <1>a, <2>1, <2>2 DEF build_stops
<1> QED  BY <1>1, <1>2, <1>3, <1>4, <1>5, <1>6, <1>7, <1>8, <1>9, <1>10

(* The steps of the packaging.                                             *)
LEMMA PackageKeeps ==
    ASSUME ReleaseInv,
           \/ test_source \/ check_provenance \/ extract \/ compress \/ checksums
           \/ write_manifest \/ package_stops
    PROVE  ReleaseInv'
<1> USE DEF ReleaseInv, Packs, Built, repository
<1>0. package = Idle => package.pc = "idle"
  BY DEF Idle
<1>a. ASSUME UNCHANGED <<repository, Built>>, HistoryBound', PackageReads', CandidateTrue',
             candidate'.raw \in {candidate.raw, None} \/ (candidate'.raw = Source /\ package.version \in Commits),
             candidate'.xz \in {candidate.xz, candidate.raw, None}
      PROVE  ReleaseInv'
  <2>1. ImagesOnly'
    BY <1>a DEF ImagesOnly, Image, Source
  <2> QED  BY <1>a, <2>1 DEF BuildReads, BuildMakes
<1>c. ASSUME UNCHANGED <<repository, bounds>> PROVE HistoryBound'
  BY <1>c DEF HistoryBound
<1>1. CASE test_source
  <2>1. HistoryBound'
    <3>1. /\ bounds' = [edits |-> bounds'.edits, builds |-> bounds'.builds, packages |-> bounds'.packages,
                        faults |-> bounds'.faults]
          /\ bounds'.edits = bounds.edits
      BY <1>1, Counting DEF test_source
    <3> QED  BY <1>1, <3>1 DEF test_source, HistoryBound
  <2>2. PackageReads' /\ CandidateTrue'
    BY <1>1 DEF test_source, PackageReads, CandidateTrue, Packing, Source
  <2> QED  BY <1>1, <1>a, <2>1, <2>2 DEF test_source
<1>2. CASE check_provenance
  <2>1. PackageReads' /\ CandidateTrue'
    BY <1>2, <1>0 DEF check_provenance, PackageReads, CandidateTrue, Packing, Source, Idle
  <2> QED  BY <1>2, <1>a, <1>c, <2>1 DEF check_provenance
<1>3. CASE extract
  <2>1. PackageReads'
    BY <1>3, <1>0 DEF extract, PackageReads, CandidateTrue, Packing, Source
  <2>2. CandidateTrue'
    BY <1>3, <1>0 DEF extract, CandidateTrue
  <2>3. candidate'.raw = Source /\ candidate'.xz = candidate.xz /\ package.version \in Commits
    BY <1>3, <1>0 DEF extract, CandidateTrue, PackageReads
  <2> QED  BY <1>3, <1>a, <1>c, <2>1, <2>2, <2>3 DEF extract
<1>4. CASE compress
  <2>1. PackageReads'
    BY <1>4, <1>0 DEF compress, PackageReads, CandidateTrue, Packing, Source
  <2>2. CandidateTrue'
    BY <1>4, <1>0 DEF compress, CandidateTrue
  <2>3. candidate'.raw = candidate.raw /\ candidate'.xz = candidate.raw
    BY <1>4, <1>0 DEF compress, CandidateTrue
  <2> QED  BY <1>4, <1>a, <1>c, <2>1, <2>2, <2>3 DEF compress
<1>5. CASE checksums
  <2>1. PackageReads'
    BY <1>5, <1>0 DEF checksums, PackageReads, CandidateTrue, Packing, Source
  <2>2. CandidateTrue'
    BY <1>5, <1>0 DEF checksums, CandidateTrue
  <2>3. candidate'.raw = candidate.raw /\ candidate'.xz = candidate.xz
    BY <1>5, <1>0 DEF checksums, CandidateTrue
  <2> QED  BY <1>5, <1>a, <1>c, <2>1, <2>2, <2>3 DEF checksums
<1>6. CASE write_manifest
  <2>1. PackageReads'
    BY <1>6 DEF write_manifest, PackageReads
  <2>2. CandidateTrue'
    BY <1>6, <1>0 DEF write_manifest, CandidateTrue, PackageReads
  <2>3. candidate'.raw = candidate.raw /\ candidate'.xz = candidate.xz
    BY <1>6, <1>0 DEF write_manifest, CandidateTrue
  <2> QED  BY <1>6, <1>a, <1>c, <2>1, <2>2, <2>3 DEF write_manifest
<1>7. CASE package_stops
  <2>1. HistoryBound'
    <3>1. /\ bounds' = [edits |-> bounds'.edits, builds |-> bounds'.builds, packages |-> bounds'.packages,
                        faults |-> bounds'.faults]
          /\ bounds'.edits = bounds.edits
      BY <1>7, Counting DEF package_stops
    <3> QED  BY <1>7, <3>1 DEF package_stops, HistoryBound
  <2>2. PackageReads'
    BY <1>7 DEF package_stops, PackageReads
  <2>3. CandidateTrue'
    BY <1>7 DEF package_stops, CandidateTrue
  <2>4. candidate'.raw \in {candidate.raw, None} /\ candidate'.xz \in {candidate.xz, None}
    BY <1>7 DEF package_stops, CandidateTrue
  <2> QED  BY <1>7, <1>a, <2>1, <2>2, <2>3, <2>4 DEF package_stops
<1> QED  BY <1>1, <1>2, <1>3, <1>4, <1>5, <1>6, <1>7

LEMMA ReleaseInvStutters ==
    ASSUME ReleaseInv, UNCHANGED release_vars
    PROVE  ReleaseInv'
<1> USE DEF release_vars, ReleaseInv
<1>1. HistoryBound'
  BY DEF HistoryBound
<1>2. BuildReads' /\ BuildMakes'
  BY DEF BuildReads, BuildMakes
<1>3. PackageReads'
  BY DEF PackageReads, Source
<1>4. CandidateTrue' /\ (provenance # None => Truth(provenance, commits))'
  BY DEF CandidateTrue
<1>5. ImagesOnly'
  BY DEF ImagesOnly
<1> QED  BY <1>1, <1>2, <1>3, <1>4, <1>5

LEMMA ReleaseInvNext == ReleaseInv /\ [DeploymentNext]_deployment_vars => ReleaseInv'
<1> SUFFICES ASSUME ReleaseInv, [DeploymentNext]_deployment_vars PROVE ReleaseInv'
  OBVIOUS
<1>1. CASE ReleaseNext
  BY <1>1, DeveloperKeeps, BuildKeeps, PackageKeeps DEF ReleaseNext
<1>2. CASE UNCHANGED release_vars
  BY <1>2, ReleaseInvStutters
<1>3. ASSUME NEW d \in Devices, flash(d) PROVE UNCHANGED release_vars
  BY <1>3 DEF flash
<1>4. CASE \E d \in Devices : flash(d)
  <2>1. PICK d \in Devices : flash(d)
    BY <1>4
  <2> QED  BY <1>2, <1>3, <2>1
<1>5. CASE BootNext /\ UNCHANGED release_vars
  BY <1>2, <1>5
<1>6. CASE UNCHANGED deployment_vars
  BY <1>2, <1>6 DEF deployment_vars
<1> QED  BY <1>1, <1>4, <1>5, <1>6 DEF DeploymentNext

-----------------------------------------------------------------------------
(* What the verifier lets through.                                         *)

LEMMA VerifiedRootfs ==
    ASSUME NEW source \in Sources
    PROVE  /\ Verifies[source] => verify_rootfs(Rootfs[source])
           /\ Publishable[source] => verify_publishable_image_has_no_engineering_ssh(Rootfs[source])
  BY DEF Verifies, Publishable

LEMMA NotPublishable ==
    ASSUME NEW source \in Sources, Verifies[source]
    PROVE  ~Publishable[source]
<1> DEFINE r == Rootfs[source]
           policy == Append(Policies, "90-rave-ethernet.conf")
<1>1. verify_rootfs(r)
  BY VerifiedRootfs
<1>2. policy \in DOMAIN r
  BY <1>1 DEF verify_rootfs, verify_engineering_ethernet_ssh, sshd_policy, IsFile, Is
<1>3. ~verify_publishable_image_has_no_engineering_ssh(r)
  BY <1>2 DEF verify_publishable_image_has_no_engineering_ssh
<1> QED  BY <1>3, VerifiedRootfs

(* A manifest tells of an artifact that the verifier passed, and what it   *)
(* was built from; the image beside it is that artifact, unless a build    *)
(* overtook the packaging.                                                 *)
THEOREM ManifestsAreTrue == DeploymentSpec => []ManifestIsTrue
<1>1. DeploymentInit => ReleaseInv
  BY ReleaseInvInit DEF DeploymentInit
<1>2. ReleaseInv => ManifestIsTrue
  <2> DEFINE built == candidate.manifest.provenance.sha256
  <2> SUFFICES ASSUME ReleaseInv, Checked PROVE ManifestIsTrue
    BY DEF ManifestIsTrue
  <2>1. /\ Truth(candidate.manifest.provenance, commits)
        /\ candidate.manifest.steady => candidate.xz = built
    BY DEF Checked, ReleaseInv, CandidateTrue
  <2>2. Verifies[built.tree, built.key] /\ <<built.tree, built.key>> \in Sources
    <3>1. Image(built) /\ Verifies[built.tree, built.key]
      BY <2>1 DEF Truth
    <3>2. built.tree \in Trees /\ built.key \in KeyFiles
      BY <3>1 DEF Image
    <3>3. \A t \in Trees, key \in KeyFiles : <<t, key>> \in Sources
      BY DEF Sources
    <3> QED  BY <3>1, <3>2, <3>3
  <2>3. ~Publishable[built.tree, built.key]
    BY <2>2, NotPublishable
  <2> QED  BY <2>1, <2>2, <2>3 DEF Truth, ManifestIsTrue
<1> QED  BY <1>1, <1>2, ReleaseInvNext, PTL DEF DeploymentSpec

(* How systemd reads the units of an image.                                *)

LEMMA PairIsConcat ==
    ASSUME NEW a, NEW b
    PROVE  <<a>> \o <<b>> = <<a, b>>
<1> DEFINE S == {a, b}
           s == <<a>> \o <<b>>
           t == <<a, b>>
<1>1. <<a>> \in Seq(S) /\ <<b>> \in Seq(S) /\ t \in Seq(S)
  OBVIOUS
<1>2. s \in Seq(S) /\ Len(s) = 2 /\ s[1] = a /\ s[2] = b
  BY <1>1
<1>3. Len(s) = Len(t) /\ \A i \in 1 .. Len(s) : s[i] = t[i]
  BY <1>2
<1>4. t \in Seq(S) /\ s \in Seq(S)
  BY <1>1, <1>2
<1> HIDE DEF s, t, S
<1>5. s = t
  BY <1>3, <1>4, SeqEqual
<1> QED  BY <1>5 DEF s, t

(* systemd and the verifier read the same of a text whose comments end     *)
(* where their lines do.                                                   *)
LEMMA SameText ==
    ASSUME NEW text \in Seq(Lines), ReadAlike(text), Terminated(text)
    PROVE  AsSystemd(text) = text
<1>1. ASSUME NEW i \in DOMAIN text
      PROVE  i \in 1 .. Len(text) /\ text[i] = [words |-> text[i].words, ends |-> text[i].ends]
  <2>1. text[i] \in Lines
    OBVIOUS
  <2>2. ASSUME NEW line \in Lines PROVE line = [words |-> line.words, ends |-> line.ends]
    BY DEF Lines
  <2> QED  BY <2>1, <2>2
<1>2. \A i \in DOMAIN text : ~Joined(text, i)
  BY <1>1 DEF ReadAlike, Joined
<1>3. ASSUME NEW i \in DOMAIN text PROVE Dropped(text, i) <=> IsComment(text[i].words)
  BY <1>1, <1>2, <1>3 DEF Dropped
<1>4. ASSUME NEW i \in DOMAIN text
      PROVE  AsSystemd(text)[i] = text[i]
  <2>1. text[i].ends \in {"newline", "backslash"}
    BY DEF ReadAlike
  <2>2. CASE IsComment(text[i].words)
    <3>1. Dropped(text, i) /\ ~Inside(text, i) /\ ~Joined(text, i) /\ text[i].ends = "newline"
      BY <1>2, <1>3, <2>2 DEF ReadAlike
    <3> QED  BY <1>1, <3>1 DEF AsSystemd
  <2>3. CASE ~IsComment(text[i].words)
    <3>1. ~Dropped(text, i)
      BY <1>3, <2>3
    <3>2. text[i].ends = "backslash" => i < Len(text)
      <4>1. text # <<>> /\ text[Len(text)].ends # "backslash"
        BY <1>1 DEF Terminated, Continues, Last
      <4> QED  BY <1>1, <4>1
    <3> QED  BY <1>1, <2>1, <3>1, <3>2 DEF AsSystemd
  <2> QED  BY <2>2, <2>3
<1> DEFINE read == AsSystemd(text)
<1>5. read = [i \in DOMAIN text |-> read[i]]
  BY DEF AsSystemd
<1>6. text = [i \in DOMAIN text |-> text[i]]
  OBVIOUS
<1>7. \A i \in DOMAIN text : read[i] = text[i]
  BY <1>4
<1> HIDE DEF read
<1>8. read = text
  BY <1>5, <1>6, <1>7
<1> QED  BY <1>8 DEF read

(* What is known of the files of a unit of a plain image.                  *)
Alike(r, unit) ==
    /\ Local(unit) \notin DOMAIN r
    /\ \A path \in UnitPaths(r, unit) : Terminated(r[path].text) => AsSystemd(r[path].text) = r[path].text

LEMMA PlainUnits ==
    ASSUME NEW source \in Sources, NEW unit \in Units, IsPlain(Rootfs[source])
    PROVE  Alike(Rootfs[source], unit)
  BY UnitTextAssumption, SameText DEF IsPlain, Alike

LEMMA NoDropIns ==
    ASSUME NEW r, NEW unit, Alike(r, unit), unit_dropins(r, unit) = {}, Vendor(unit) \in DOMAIN r,
           Terminated(r[Vendor(unit)].text)
    PROVE  UnitTexts(r, unit) = <<r[Vendor(unit)].text>>
<1>1. SetToSeq({}) = <<>>
  <2>1. Cardinality({}) = 0
    BY FS_EmptySet
  <2>2. \A f \in [1 .. 0 -> {}] : f = <<>>
    OBVIOUS
  <2>3. <<>> \in [1 .. 0 -> {}] /\ IsInjective(<<>>)
    BY DEF IsInjective
  <2> QED  BY <2>1, <2>2, <2>3 DEF SetToSeq
<1>2. SetToSeq(unit_dropins(r, unit)) = SetToSeq({})
  BY Zenon
<1>3. Fragments(r, unit) = <<Vendor(unit)>>
  BY DEF Fragments, Alike
<1> DEFINE main == Vendor(unit)
           paths == Fragments(r, unit) \o SetToSeq(unit_dropins(r, unit))
<1>4. paths = <<main>> \o <<>>
  BY <1>1, <1>2, <1>3, Zenon
<1> HIDE DEF main, paths
<1>5. <<main>> \o <<>> = <<main>>
  OBVIOUS
<1>6. AsSystemd(r[main].text) = r[main].text
  BY DEF main, Alike, UnitPaths
<1>7. [i \in DOMAIN paths |-> AsSystemd(r[paths[i]].text)] = <<AsSystemd(r[main].text)>>
  BY <1>4, <1>5
<1>8. UnitTexts(r, unit) = [i \in DOMAIN paths |-> AsSystemd(r[paths[i]].text)]
  BY DEF UnitTexts, Files, paths
<1> QED  BY <1>6, <1>7, <1>8 DEF main

LEMMA OneDropIn ==
    ASSUME NEW r, NEW unit, NEW file, Alike(r, unit), unit_dropins(r, unit) = {file}, Vendor(unit) \in DOMAIN r,
           Terminated(r[Vendor(unit)].text), Terminated(r[file].text)
    PROVE  UnitTexts(r, unit) = <<r[Vendor(unit)].text, r[file].text>>
<1>1. SetToSeq({file}) = <<file>>
  <2>1. Cardinality({file}) = 1
    BY FS_Singleton
  <2>2. \A f \in [1 .. 1 -> {file}] : f = <<file>>
    OBVIOUS
  <2>3. <<file>> \in [1 .. 1 -> {file}] /\ IsInjective(<<file>>)
    BY DEF IsInjective
  <2> QED  BY <2>1, <2>2, <2>3 DEF SetToSeq
<1>2. SetToSeq(unit_dropins(r, unit)) = SetToSeq({file})
  BY Zenon
<1>3. Fragments(r, unit) = <<Vendor(unit)>>
  BY DEF Fragments, Alike
<1> DEFINE main == Vendor(unit)
           paths == Fragments(r, unit) \o SetToSeq(unit_dropins(r, unit))
<1>4. paths = <<main>> \o <<file>>
  BY <1>1, <1>2, <1>3, Zenon
<1> HIDE DEF main, paths
<1>6. <<main>> \o <<file>> = <<main, file>>
  BY PairIsConcat
<1>5. [i \in DOMAIN paths |-> AsSystemd(r[paths[i]].text)] = <<AsSystemd(r[main].text), AsSystemd(r[file].text)>>
  BY <1>4, <1>6
<1>7. AsSystemd(r[main].text) = r[main].text /\ AsSystemd(r[file].text) = r[file].text
  BY DEF main, Alike, UnitPaths
<1>8. UnitTexts(r, unit) = [i \in DOMAIN paths |-> AsSystemd(r[paths[i]].text)]
  BY DEF UnitTexts, Files, paths
<1> QED  BY <1>5, <1>7, <1>8 DEF main

LEMMA Listed ==
    ASSUME NEW r, NEW unit, NEW section, NEW key, NEW texts, UnitTexts(r, unit) = texts
    PROVE  Setting(r, unit, section, key) = Range(effective_systemd_list(texts, section, key))
  BY DEF Setting, effective_systemd_list

(* Port 22 is listened on at the address of the cable alone.               *)
LEMMA SshListens ==
    ASSUME NEW r, verify_rootfs(r), Alike(r, "ssh.socket")
    PROVE  ListensOn(r, "ssh.socket") = {"10.77.0.1:22"}
<1> DEFINE texts == <<r[Vendor("ssh.socket")].text, r[SshDropIn].text>>
<1>1. ssh_units(r) /\ ssh_socket(r) /\ dependency_isolation(r)
  BY DEF verify_rootfs, verify_engineering_ethernet_ssh
<1>2. Vendor("ssh.socket") \in DOMAIN r
  BY <1>1 DEF ssh_units, IsFile, Is
<1>3. unit_dropins(r, "ssh.socket") = {SshDropIn}
  BY <1>1 DEF ssh_socket
<1>9. Terminated(texts[1]) /\ Terminated(texts[2])
  <2>1. \A i \in DOMAIN texts : Terminated(texts[i])
    BY <1>1 DEF dependency_isolation
  <2> QED  BY <2>1
<1>4. UnitTexts(r, "ssh.socket") = texts
  BY <1>2, <1>3, <1>9, OneDropIn
<1>5. effective_systemd_list(texts, "Socket", "ListenStream") = << <<"10.77.0.1:22">> >>
  BY <1>1 DEF ssh_socket
<1> HIDE DEF texts
<1>6. Setting(r, "ssh.socket", "Socket", "ListenStream") = Range(<< <<"10.77.0.1:22">> >>)
  BY <1>4, <1>5, Listed
<1>7. Words(Range(<< <<"10.77.0.1:22">> >>)) = {"10.77.0.1:22"}
  BY DEF Words, Range
<1> QED  BY <1>6, <1>7 DEF ListensOn

(* The web page listens on wlan0 alone.                                    *)
LEMMA WebReach ==
    ASSUME NEW r, verify_rootfs(r), Alike(r, "rave-webd.socket")
    PROVE  Reachable(r, "rave-webd.socket") \subseteq {"wlan0"}
<1> DEFINE texts == <<r[Vendor("rave-webd.socket")].text>>
<1>1. verify_web_service(r)
  BY DEF verify_rootfs
<1>2. /\ Vendor("rave-webd.socket") \in DOMAIN r /\ unit_dropins(r, "rave-webd.socket") = {}
      /\ HasScalar(texts, "Socket", "BindToDevice", "wlan0") /\ Terminated(r[Vendor("rave-webd.socket")].text)
  BY <1>1 DEF verify_web_service, IsFile, Is
<1>3. UnitTexts(r, "rave-webd.socket") = texts
  BY <1>2, NoDropIns
<1> HIDE DEF texts
<1>4. effective_systemd_scalar(UnitTexts(r, "rave-webd.socket"), "Socket", "BindToDevice") = << <<"wlan0">> >>
  BY <1>2, <1>3 DEF HasScalar
<1>5. Words(Range(<< <<"wlan0">> >>)) = {"wlan0"}
  BY DEF Words, Range
<1>6. BoundTo(r, "rave-webd.socket") = {DeviceOf[i] : i \in {"wlan0"}}
  BY <1>4, <1>5, Zenon DEF BoundTo
<1>7. /\ DeviceOf["wlan0"] = "wlan0.device" /\ DeviceOf["eth0"] = "eth0.device"
      /\ BoundTo(r, "rave-webd.socket") = {"wlan0.device"}
  BY <1>6 DEF DeviceOf, Interfaces
<1>8. {i \in Interfaces : DeviceOf[i] \in BoundTo(r, "rave-webd.socket")} = {"wlan0"}
  BY <1>7 DEF Interfaces
<1> QED  BY <1>8 DEF Reachable

(* Avahi answers on wlan0 alone.                                           *)
LEMMA AvahiReach ==
    ASSUME NEW r, verify_rootfs(r), Alike(r, "avahi-daemon.service"), IsFiniteSet(DOMAIN r)
    PROVE  AvahiAllowed(r) = {"wlan0"}
<1> DEFINE unit == "avahi-daemon.service"
           conf == "/etc/rave/avahi-daemon.conf"
           command == <<"/usr/sbin/avahi-daemon", "-s", "-f", conf>>
<1>1. verify_mdns_discovery(r)
  BY DEF verify_rootfs
<1>2. /\ Vendor(unit) \in DOMAIN r /\ Cardinality(unit_dropins(r, unit)) = 1
      /\ HasEntry(r[AvahiConf].text, "server", "allow-interfaces", "wlan0")
  BY <1>1 DEF verify_mdns_discovery, IsFile, Is
<1>3. IsFiniteSet(unit_dropins(r, unit))
  <2>1. unit_dropins(r, unit) \subseteq DOMAIN r
    BY DEF unit_dropins, Directly
  <2> QED  BY <2>1, FS_Subset
<1>4. PICK dropin : unit_dropins(r, unit) = {dropin}
  BY <1>2, <1>3, FS_Singleton
<1> DEFINE texts == <<r[Vendor(unit)].text, r[dropin].text>>
<1>5. (CHOOSE path \in unit_dropins(r, unit) : TRUE) = dropin
  BY <1>4
<1>11. Terminated(texts[1]) /\ Terminated(texts[2])
  <2>1. \A i \in DOMAIN texts : Terminated(texts[i])
    BY <1>1, <1>5 DEF verify_mdns_discovery
  <2> QED  BY <2>1
<1>6. UnitTexts(r, unit) = texts
  BY <1>2, <1>4, <1>11, OneDropIn
<1>7. effective_systemd_list(texts, "Service", "ExecStart") = <<command>>
  BY <1>1, <1>5 DEF verify_mdns_discovery
<1> HIDE DEF texts
<1>8. Setting(r, unit, "Service", "ExecStart") = Range(<<command>>)
  BY <1>6, <1>7, Listed
<1>9. conf \in Words(Range(<<command>>))
  <2>1. Range(<<command>>) = {command} /\ conf \in Range(command)
    <3>1. command[4] = conf /\ 4 \in DOMAIN command
      OBVIOUS
    <3> QED  BY <3>1 DEF Range
  <2> QED  BY <2>1 DEF Words
<1>10. conf \in Words(Setting(r, unit, "Service", "ExecStart"))
  BY <1>8, <1>9, Zenon
<1> QED  BY <1>2, <1>10 DEF AvahiAllowed, HasEntry

LEMMA SameFront ==
    ASSUME NEW a, NEW b, NEW c, NEW d, NEW e
    PROVE  Front(<<a, b, c, d>>) = Front(<<a, b, c, e>>)
<1> DEFINE S == {a, b, c, d, e}
           s == <<a, b, c, d>>
           t == <<a, b, c, e>>
<1>1. s \in Seq(S) /\ t \in Seq(S) /\ Len(s) = 4 /\ Len(t) = 4 /\ \A i \in 1 .. 3 : s[i] = t[i]
  OBVIOUS
<1> HIDE DEF s, t, S
<1>2. /\ SubSeq(s, 1, 3) \in Seq(S) /\ Len(SubSeq(s, 1, 3)) = 3
      /\ SubSeq(t, 1, 3) \in Seq(S) /\ Len(SubSeq(t, 1, 3)) = 3
      /\ \A i \in 1 .. 3 : SubSeq(s, 1, 3)[i] = SubSeq(t, 1, 3)[i]
  BY <1>1
<1>3. SubSeq(s, 1, 3) = SubSeq(t, 1, 3)
  BY <1>2, SeqEqual
<1>4. Front(s) = Front(t)
  BY <1>1, <1>3 DEF Front
<1> QED  BY <1>4 DEF s, t

(* DHCP answers on wlan0 alone: the file has one line that names an        *)
(* interface.                                                              *)
LEMMA DhcpReach ==
    ASSUME NEW r, verify_rootfs(r), r[DnsmasqConf].text \in Seq(Range(r[DnsmasqConf].text))
    PROVE  {line[2] : line \in {l \in Range(r[DnsmasqConf].text) : l[1] = "interface"}} \subseteq {"wlan0"}
<1> DEFINE text == r[DnsmasqConf].text
           lines == << <<"interface", "wlan0">> >>
           at == {i \in DOMAIN text : text[i][1] = "interface"}
<1>1. lines \in Range(DnsmasqLines) /\ lines[1][1] = "interface" /\ Len(lines) = 1
      /\ lines[1] = <<"interface", "wlan0">>
  <2>1. DnsmasqLines[1] = lines /\ 1 \in DOMAIN DnsmasqLines
    BY DEF DnsmasqLines
  <2> QED  BY <2>1 DEF Range
<1>2. Cardinality(at) = Len(lines) /\ \A i \in at : text[i] = lines[Cardinality({j \in at : j <= i})]
  <2> HIDE DEF lines
  <2>1. verify_dnsmasq_configuration(r)
    BY DEF verify_rootfs
  <2>2. \A block \in Range(DnsmasqLines) :
            LET own == {i \in DOMAIN text : text[i][1] = block[1][1]} IN
            /\ Cardinality(own) = Len(block)
            /\ \A i \in own : text[i] = block[Cardinality({j \in own : j <= i})]
    BY <2>1 DEF verify_dnsmasq_configuration
  <2>3. {i \in DOMAIN text : text[i][1] = lines[1][1]} = at
    BY <1>1
  <2> HIDE DEF text
  <2> QED  BY <1>1, <2>2, <2>3, Zenon
<1>3. PICK k : at = {k}
  <2>1. DOMAIN text = 1 .. Len(text) /\ Len(text) \in Nat
    OBVIOUS
  <2>2. IsFiniteSet(at)
    <3>1. IsFiniteSet(1 .. Len(text))
      BY <2>1, FS_Interval
    <3>2. at \subseteq 1 .. Len(text)
      BY <2>1
    <3> QED  BY <3>1, <3>2, FS_Subset
  <2> QED  BY <1>1, <1>2, <2>2, FS_Singleton
<1>4. k \in Nat
  BY <1>3
<1>5. text[k] = <<"interface", "wlan0">>
  <2>1. {j \in at : j <= k} = {k}
    BY <1>3, <1>4
  <2>2. Cardinality({j \in at : j <= k}) = 1
    BY <2>1, FS_Singleton
  <2> QED  BY <1>1, <1>2, <1>3, <2>2
<1> QED  BY <1>3, <1>5 DEF Range

(* NetworkManager leaves eth0 alone, and networkd has a file for eth0 only. *)
LEMMA OneManager ==
    ASSUME NEW r, verify_rootfs(r)
    PROVE  /\ Manages(r, "NetworkManager.service") \subseteq {"wlan0"}
           /\ Manages(r, "systemd-networkd.service") \subseteq {"eth0"}
<1> DEFINE conf == NmConf("10-rave-unmanaged-runtime.conf")
<1>1. verify_runtime_ethernet_configuration(r)
  BY DEF verify_rootfs, single_owners
<1>2. HasEntry(r[conf].text, "keyfile", "unmanaged-devices", NameOf["eth0"])
  <2>1. r[conf].text = [keyfile |-> [option \in {"unmanaged-devices"} |-> "interface-name:eth0"]]
    BY <1>1 DEF verify_runtime_ethernet_configuration
  <2> QED  BY <2>1 DEF HasEntry, NameOf, Interfaces
<1>3. conf \in Directly(r, Front(NmConf("")))
  <2>1. conf \in DOMAIN r
    BY <1>1 DEF verify_runtime_ethernet_configuration, IsFile, Is
  <2>2. Front(conf) = Front(NmConf(""))
    BY SameFront DEF NmConf
  <2> QED  BY <2>1, <2>2 DEF Directly
<1>4. "eth0" \in Unmanaged(r)
  BY <1>2, <1>3 DEF Unmanaged, Interfaces
<1>5. \A path \in Directly(r, Networks) : r[path].text.Match.name = "eth0"
  BY <1>1 DEF verify_runtime_ethernet_configuration
<1>6. AddressedBy(r)["wlan0"] = {}
  BY <1>5 DEF AddressedBy, Interfaces
<1> QED  BY <1>4, <1>6 DEF Manages, Interfaces

(* What makes a device itself is not in the image.                         *)
LEMMA Blank ==
    ASSUME NEW r, verify_rootfs(r)
    PROVE  /\ r[MachineId].text = "empty" /\ HostKeys(r) = {}
           /\ Directly(r, Front(SetupProfile)) \ {SetupProfile} = {}
           /\ "net.ipv4.ip_forward=0" \in r[Sysctl].text
  BY DEF verify_rootfs, verify_clone_safety, no_forwarding

-----------------------------------------------------------------------------
(* What a plan made of a verified image is.                                *)

LEMMA PlanIs ==
    ASSUME NEW source \in Sources
    PROVE  Plan[source] = PlanOf(Rootfs[source], Verifies[source], Jobs(Rootfs[source]),
                                 UNION {After(Rootfs[source], u) \X {u} : u \in Units})
  BY DEF Plan

Separate(plan) ==
    /\ plan.listens = {"10.77.0.1:22"}
    /\ \A u \in Units \ {"ssh.socket"} : plan.serves[u] \subseteq
           {<<"wlan0", "web">>, <<"wlan0", "mdns">>, <<"wlan0", "dhcp">>}
    /\ \A u, v \in Units : plan.manages[u] \cap plan.manages[v] # {} => u = v
    /\ plan.manages \in [Units -> SUBSET Interfaces]
    /\ ~plan.forwards
BlankPlan(plan) == plan.machine = "empty" /\ plan.keys = {} /\ plan.networks = {}

LEMMA VerifiedPlan ==
    ASSUME NEW source \in Sources
    PROVE  /\ Plan[source].verified => BlankPlan(Plan[source])
           /\ Plan[source].verified /\ Plan[source].plain => Separate(Plan[source])
<1> DEFINE r == Rootfs[source]
           order == UNION {After(r, u) \X {u} : u \in Units}
           plan == Plan[source]
<1>2. plan = PlanOf(r, Verifies[source], Jobs(r), order)
  BY PlanIs
<1>0. plan.verified = Verifies[source] /\ plan.plain = IsPlain(r)
  BY <1>2 DEF PlanOf
<1> SUFFICES ASSUME Verifies[source] PROVE BlankPlan(plan) /\ (IsPlain(r) => Separate(plan))
  BY <1>0
<1>1. verify_rootfs(r)
  BY VerifiedRootfs
<1>3. IsPlain(r) => \A unit \in Units : Alike(r, unit)
  BY PlainUnits
<1>4. IsFiniteSet(DOMAIN r) /\ r[DnsmasqConf].text \in Seq(Range(r[DnsmasqConf].text))
  <2>1. IsFile(r, DnsmasqConf)
    BY <1>1 DEF verify_rootfs, verify_dnsmasq_configuration
  <2> QED  BY <2>1, RootfsAssumption
<1> HIDE DEF r, order
<1>5. /\ plan.listens = ListensOn(r, "ssh.socket")
      /\ plan.serves = [u \in Units |-> Serves(r, u)] /\ plan.manages = [u \in Units |-> Manages(r, u)]
      /\ plan.forwards = ("net.ipv4.ip_forward=0" \notin r[Sysctl].text)
      /\ plan.machine = r[MachineId].text
      /\ plan.keys = {r[path].text : path \in {p \in Directly(r, EtcSsh) : Last(p) = "ssh_host_ed25519_key"}}
      /\ plan.networks = Directly(r, Front(SetupProfile)) \ {SetupProfile}
  BY <1>2 DEF PlanOf
<1>6. ASSUME IsPlain(r), NEW u \in Units \ {"ssh.socket"}
      PROVE  Serves(r, u) \subseteq {<<"wlan0", "web">>, <<"wlan0", "mdns">>, <<"wlan0", "dhcp">>}
  <2>2. CASE u = "rave-webd.socket"
    BY <1>1, <1>3, <1>6, <2>2, WebReach DEF Serves
  <2>3. CASE u = "avahi-daemon.service"
    BY <1>1, <1>3, <1>4, <1>6, <2>3, AvahiReach DEF Serves
  <2>4. CASE u = "rave-networkd.service"
    <3> DEFINE lines == {line[2] : line \in {l \in Range(r[DnsmasqConf].text) : l[1] = "interface"}}
    <3>1. lines \subseteq {"wlan0"}
      BY <1>1, <1>4, DhcpReach
    <3>2. Serves(r, u) = lines \X {"dhcp"}
      BY <2>4 DEF Serves
    <3> HIDE DEF lines
    <3>3. lines \X {"dhcp"} \subseteq {<<"wlan0", "dhcp">>}
      <4> SUFFICES ASSUME NEW pair \in lines \X {"dhcp"} PROVE pair = <<"wlan0", "dhcp">>
        OBVIOUS
      <4>1. PICK line \in lines, protocol \in {"dhcp"} : pair = <<line, protocol>>
        OBVIOUS
      <4>2. line = "wlan0" /\ protocol = "dhcp"
        BY <3>1
      <4> QED  BY <4>1, <4>2, Zenon
    <3> QED  BY <3>2, <3>3
  <2>5. CASE u \notin {"ssh.socket", "rave-webd.socket", "avahi-daemon.service", "rave-networkd.service"}
    BY <2>5 DEF Serves
  <2> QED  BY <2>2, <2>3, <2>4, <2>5
<1>7. \A u \in Units : Manages(r, u) \subseteq Interfaces
  BY DEF Manages
<1>8. ASSUME NEW u \in Units, NEW v \in Units, u # v PROVE Manages(r, u) \cap Manages(r, v) = {}
  BY <1>1, <1>8, OneManager DEF Manages
<1>9. IsPlain(r) => Separate(plan)
  <2>1. ~plan.forwards
    BY <1>1, <1>5, Blank
  <2>2. plan.manages \in [Units -> SUBSET Interfaces]
    BY <1>5, <1>7
  <2>3. \A u, v \in Units : plan.manages[u] \cap plan.manages[v] # {} => u = v
    BY <1>5, <1>8
  <2>4. \A u \in Units : plan.serves[u] = Serves(r, u)
    BY <1>5
  <2>5. IsPlain(r) => plan.listens = {"10.77.0.1:22"}
    <3>1. "ssh.socket" \in Units
      BY DEF Units, Sockets
    <3> QED  BY <1>1, <1>3, <1>5, <3>1, SshListens
  <2> HIDE DEF plan
  <2> QED  BY <1>6, <2>1, <2>2, <2>3, <2>4, <2>5 DEF Separate
<1>10. BlankPlan(plan)
  BY <1>1, <1>5, Blank DEF BlankPlan, HostKeys
<1> QED  BY <1>9, <1>10

-----------------------------------------------------------------------------
(* The devices.                                                            *)

(* The identity of a device with an image the verifier passed is what a    *)
(* blank image becomes on it; and only a device with a card is on.         *)
OwnIdentity(d, own) == \E machine \in {"empty", d}, keys \in SUBSET {d} : own = [machine |-> machine, keys |-> keys]
CardInv ==
    \A d \in Devices : card[d] # None =>
        /\ \E source \in Sources : card[d] = Plan[source]
        /\ card[d].verified => OwnIdentity(d, identity[d])
OnInv ==
    /\ DOMAIN systemd = Units
    /\ IF on = None THEN \A u \in Units : systemd[u] = "off" ELSE on \in Devices /\ card[on] # None

BootInv ==
    /\ card = [d \in Devices |-> card[d]] /\ identity = [d \in Devices |-> identity[d]]
    /\ CardInv /\ OnInv

LEMMA BootInvInit == BootInit => BootInv
  BY DEF BootInit, BootInv, CardInv, OnInv

LEMMA FlashKeeps ==
    ASSUME ReleaseInv, BootInv, NEW d \in Devices, flash(d)
    PROVE  BootInv'
<1> DEFINE source == <<candidate.xz.tree, candidate.xz.key>>
<1>1. source \in Sources
  <2>1. candidate.xz.tree \in Trees /\ candidate.xz.key \in KeyFiles
    BY DEF flash, Checked, ReleaseInv, ImagesOnly, Image
  <2> QED  BY <2>1 DEF Sources
<1>2. /\ card' = [card EXCEPT ![d] = Plan[source]]
      /\ identity' = [identity EXCEPT ![d] = [machine |-> card'[d].machine, keys |-> card'[d].keys]]
      /\ UNCHANGED <<on, systemd>>
  BY DEF flash
<1> HIDE DEF source
<1>3. card'[d] = Plan[source] /\ identity'[d] = [machine |-> Plan[source].machine, keys |-> Plan[source].keys]
  BY <1>2 DEF BootInv
<1>4. card'[d].verified => OwnIdentity(d, identity'[d])
  <2> SUFFICES ASSUME Plan[source].verified PROVE OwnIdentity(d, identity'[d])
    BY <1>3
  <2>1. identity'[d] = [machine |-> "empty", keys |-> {}]
    BY <1>1, <1>3, VerifiedPlan DEF BlankPlan
  <2> QED  BY <2>1 DEF OwnIdentity
<1>5. \A e \in Devices \ {d} : card'[e] = card[e] /\ identity'[e] = identity[e]
  BY <1>2 DEF BootInv
<1>6. CardInv'
  <2> SUFFICES ASSUME NEW e \in Devices, card'[e] # None
               PROVE  /\ \E s \in Sources : card'[e] = Plan[s]
                      /\ card'[e].verified => OwnIdentity(e, identity'[e])
    BY DEF CardInv
  <2>1. CASE e = d
    BY <1>1, <1>3, <1>4, <2>1
  <2>2. CASE e # d
    BY <1>5, <2>2 DEF BootInv, CardInv
  <2> QED  BY <2>1, <2>2
<1>7. OnInv'
  BY <1>2, <1>5 DEF BootInv, OnInv, flash
<1> QED  BY <1>2, <1>6, <1>7 DEF BootInv

(* A step that changes the identity of one device, to one of its own.      *)
LEMMA OneIdentity ==
    ASSUME CardInv, NEW d \in Devices, UNCHANGED card,
           \A e \in Devices \ {d} : identity'[e] = identity[e],
           card[d] # None /\ card[d].verified => OwnIdentity(d, identity'[d])
    PROVE  CardInv'
<1> SUFFICES ASSUME NEW e \in Devices, card'[e] # None
             PROVE  /\ \E source \in Sources : card'[e] = Plan[source]
                    /\ card'[e].verified => OwnIdentity(e, identity'[e])
  BY DEF CardInv
<1>1. /\ \E source \in Sources : card[e] = Plan[source]
      /\ card[e].verified => OwnIdentity(e, identity[e])
  BY DEF CardInv
<1>2. CASE e = d
  BY <1>1, <1>2
<1>3. CASE e # d
  BY <1>1, <1>3
<1> QED  BY <1>2, <1>3

LEMMA PowerKeeps ==
    ASSUME BootInv, power_on \/ power_off
    PROVE  BootInv'
<1>1. CASE power_on
  <2>1. PICK d \in Devices :
            /\ card[d] # None /\ on' = d
            /\ \E dropped \in card[d].deleted :
                   systemd' = [u \in Units |-> IF u \in card[d].jobs \ dropped THEN "waiting" ELSE "off"]
            /\ identity' = IF identity[d].machine = "empty" THEN [identity EXCEPT ![d].machine = d] ELSE identity
    BY <1>1 DEF power_on
  <2>2. UNCHANGED card
    BY <1>1 DEF power_on
  <2>3. OnInv'
    BY <2>1, <2>2, DeviceAssumption DEF OnInv
  <2>4. \/ identity' = identity
        \/ identity' = [identity EXCEPT ![d] = [identity[d] EXCEPT !.machine = d]]
    BY <2>1
  <2>6. identity' = [e \in Devices |-> identity'[e]] /\ \A e \in Devices \ {d} : identity'[e] = identity[e]
    BY <2>4 DEF BootInv
  <2>7. card[d].verified => OwnIdentity(d, identity'[d])
    <3> SUFFICES ASSUME card[d].verified PROVE OwnIdentity(d, identity'[d])
      OBVIOUS
    <3>1. PICK machine \in {"empty", d}, keys \in SUBSET {d} : identity[d] = [machine |-> machine, keys |-> keys]
      BY <2>1 DEF BootInv, CardInv, OwnIdentity
    <3>2. [identity[d] EXCEPT !.machine = d] = [machine |-> d, keys |-> keys]
      BY <3>1
    <3>3. identity'[d] = [machine |-> machine, keys |-> keys] \/ identity'[d] = [machine |-> d, keys |-> keys]
      BY <2>4, <3>1, <3>2 DEF BootInv
    <3> QED  BY <3>3 DEF OwnIdentity
  <2>8. CardInv'
    BY <2>2, <2>6, <2>7, OneIdentity DEF BootInv
  <2> QED  BY <2>2, <2>3, <2>6, <2>8 DEF BootInv
<1>2. CASE power_off
  BY <1>2 DEF power_off, BootInv, CardInv, OnInv
<1> QED  BY <1>1, <1>2

(* The steps of a running device: only the generator of the host keys      *)
(* changes what it is.                                                     *)
LEMMA RunKeeps ==
    ASSUME BootInv, NEW u \in Units, appear(u) \/ start(u) \/ time_out(u) \/ never_appear(u) \/ hang(u)
    PROVE  BootInv'
<1>1. UNCHANGED <<card, on>> /\ systemd[u] # "off" /\ DOMAIN systemd' = DOMAIN systemd
  BY DEF appear, start, time_out, never_appear, hang, Becomes, Ready
<1>2. on \in Devices /\ card[on] # None
  BY <1>1 DEF BootInv, OnInv
<1>3. OnInv'
  <2>1. on # None
    BY <1>1 DEF BootInv, OnInv
  <2> QED  BY <1>1, <1>2, <2>1 DEF BootInv, OnInv
<1>5. \/ identity' = identity
      \/ identity' = [identity EXCEPT ![on] = [identity[on] EXCEPT !.keys = {on}]]
  BY DEF appear, start, time_out, never_appear, hang
<1>6. identity' = [e \in Devices |-> identity'[e]] /\ \A e \in Devices \ {on} : identity'[e] = identity[e]
  BY <1>5 DEF BootInv
<1>7. card[on].verified => OwnIdentity(on, identity'[on])
  <2> SUFFICES ASSUME card[on].verified PROVE OwnIdentity(on, identity'[on])
    OBVIOUS
  <2>1. PICK machine \in {"empty", on}, keys \in SUBSET {on} : identity[on] = [machine |-> machine, keys |-> keys]
    BY <1>2 DEF BootInv, CardInv, OwnIdentity
  <2>2. [identity[on] EXCEPT !.keys = {on}] = [machine |-> machine, keys |-> {on}]
    BY <2>1
  <2>3. identity'[on] = [machine |-> machine, keys |-> keys] \/ identity'[on] = [machine |-> machine, keys |-> {on}]
    BY <1>2, <1>5, <2>1, <2>2 DEF BootInv
  <2> QED  BY <2>3 DEF OwnIdentity
<1>8. CardInv'
  BY <1>1, <1>2, <1>6, <1>7, OneIdentity DEF BootInv
<1> QED  BY <1>1, <1>3, <1>6, <1>8 DEF BootInv

LEMMA BootInvNext == ReleaseInv /\ BootInv /\ [DeploymentNext]_deployment_vars => BootInv'
<1> SUFFICES ASSUME ReleaseInv, BootInv, [DeploymentNext]_deployment_vars PROVE BootInv'
  OBVIOUS
<1>1. ASSUME UNCHANGED <<card, identity, on>>, DOMAIN systemd' = DOMAIN systemd,
             on = None => systemd' = systemd
      PROVE  BootInv'
  BY <1>1 DEF BootInv, CardInv, OnInv
<1>2. CASE UNCHANGED boot_vars
  BY <1>1, <1>2 DEF boot_vars
<1>3. CASE \E d \in Devices : flash(d)
  BY <1>3, FlashKeeps
<1>4. CASE power_on \/ power_off
  BY <1>4, PowerKeeps
<1>5. CASE ssh_connect
  <2>1. UNCHANGED <<card, identity, on>> /\ DOMAIN systemd' = Units /\ systemd["ssh.socket"] # "off"
    BY <1>5 DEF ssh_connect
  <2>2. "ssh.socket" \in Units
    BY DEF Units, Sockets
  <2>3. on # None
    BY <2>1, <2>2 DEF BootInv, OnInv
  <2> QED  BY <1>1, <2>1, <2>3 DEF BootInv, OnInv
<1>6. CASE \E u \in Units : BootStep(u) \/ never_appear(u) \/ hang(u)
  BY <1>6, RunKeeps DEF BootStep
<1>7. CASE UNCHANGED deployment_vars
  BY <1>2, <1>7 DEF deployment_vars
<1> QED  BY <1>2, <1>3, <1>4, <1>5, <1>6, <1>7 DEF DeploymentNext, BootNext

(* Whatever releases are made, and whatever fails on a device.             *)
LEMMA DeploymentInv == DeploymentSpec => [](ReleaseInv /\ BootInv)
<1>1. DeploymentInit => ReleaseInv /\ BootInv
  BY ReleaseInvInit, BootInvInit DEF DeploymentInit
<1>2. (ReleaseInv /\ BootInv) /\ [DeploymentNext]_deployment_vars => (ReleaseInv /\ BootInv)'
  BY ReleaseInvNext, BootInvNext
<1> QED  BY <1>1, <1>2, PTL DEF DeploymentSpec

(* Whatever is up on a device, and whatever failed: what the verifier      *)
(* requires of the units keeps port 22 at the address of the cable, the    *)
(* rest on wlan0, and nothing with two owners (verify_rave_image.py        *)
(* 453-470, 541-616, 664-713, 781-793, 977); if systemd reads the units as *)
(* the verifier does.                                                      *)
THEOREM InterfacesStaySeparate == DeploymentSpec => []InterfacesAreSeparate
<1>1. BootInv => InterfacesAreSeparate
  <2> SUFFICES ASSUME BootInv, on # None, image.verified, image.plain PROVE InterfacesAreSeparate
    BY DEF InterfacesAreSeparate
  <2>1. Separate(image)
    <3>1. \E source \in Sources : image = Plan[source]
      BY DEF BootInv, CardInv, OnInv, image
    <3> QED  BY <3>1, VerifiedPlan
  <2>2. ASSUME NEW i \in Interfaces
        PROVE  Cardinality({u \in Units : systemd[u] = "up" /\ i \in image.manages[u]}) <= 1
    <3> DEFINE owners == {u \in Units : systemd[u] = "up" /\ i \in image.manages[u]}
    <3>1. \A u, v \in owners : u = v
      BY <2>1 DEF Separate
    <3>2. owners = {} \/ \E u : owners = {u}
      BY <3>1
    <3> HIDE DEF owners
    <3>3. Cardinality({}) = 0 /\ \A x : Cardinality({x}) = 1
      BY FS_EmptySet, FS_Singleton
    <3>4. Cardinality(owners) <= 1
      <4>1. CASE owners = {}
        BY <4>1, <3>3
      <4>2. CASE \E u : owners = {u}
        <5>1. PICK u : owners = {u}
          BY <4>2
        <5>2. Cardinality({u}) = 1
          BY <3>3
        <5>3. Cardinality(owners) = 1
          BY <5>1, <5>2, Zenon
        <5> QED  BY <5>3
      <4> QED  BY <3>2, <4>1, <4>2
    <3> QED  BY <3>4 DEF owners
  <2> QED  BY <2>1, <2>2 DEF Separate, InterfacesAreSeparate
<1> QED  BY <1>1, DeploymentInv, PTL

(* Devices of verified images keep machine ids and host keys of their own  *)
(* (verify_clone_safety, 216-268).                                         *)
THEOREM DevicesStayDifferent == DeploymentSpec => []DevicesDiffer
<1>1. BootInv => DevicesDiffer
  <2> SUFFICES ASSUME BootInv, NEW d \in Devices, card[d] # None, card[d].verified
               PROVE  /\ card[d].networks = {}
                      /\ \A e \in Devices \ {d} : card[e] # None /\ card[e].verified =>
                             /\ identity[d].machine # identity[e].machine \/ identity[d].machine = "empty"
                             /\ identity[d].keys \cap identity[e].keys = {}
    BY DEF DevicesDiffer
  <2>1. card[d].networks = {}
    BY VerifiedPlan DEF BootInv, CardInv, BlankPlan
  <2>2. \A e \in Devices : card[e] # None /\ card[e].verified =>
            identity[e].machine \in {"empty", e} /\ identity[e].keys \subseteq {e}
    BY DEF BootInv, CardInv, OwnIdentity
  <2> QED  BY <2>1, <2>2
<1> QED  BY <1>1, DeploymentInv, PTL

-----------------------------------------------------------------------------
(* The root filesystem on its card, for every slack and any number of      *)
(* faults and power cuts.                                                  *)

(* Between the unlink and the replace there is no record; the two          *)
(* verifications hold from where they are made to where the record is      *)
(* written; and a record, seen or committed, never exceeds what is there.  *)
NoRecordYet ==
    pc \in {"inspect", "growpart", "verify", "resize", "measure", "replace"} =>
        marker = NoRecord

Verified ==
    /\ pc \in {"resize", "measure", "replace"} => device - table <= Slack
    /\ pc = "replace" => table - fs <= Slack

RecordedSync == pc = "sync" => marker # NoRecord

RecordWithin == marker # NoRecord => marker.end <= table /\ marker.fs <= fs

ExpansionInv ==
    /\ TypeOK
    /\ NoRecordYet
    /\ Verified
    /\ RecordedSync
    /\ RecordWithin
    /\ ClaimWithinDisk
    /\ SuccessSurvives
    /\ ClaimIsTrue

USE SizeAssumption, RecordAssumption

LEMMA ExpansionInvInit == Init => ExpansionInv
  BY DEF Init, ExpansionInv, TypeOK, NoRecordYet, Verified, RecordedSync, RecordWithin,
         ClaimWithinDisk, SuccessSurvives, ClaimIsTrue, Fills, Size, Records

(* Every step keeps the types: sizes only grow, in the order card,         *)
(* partition, kernel, filesystem, disk, but for a power cut, which takes   *)
(* the filesystem back to what is on the disk.                             *)
LEMMA ExpansionTypeNext == TypeOK /\ [Next]_vars => TypeOK'
<1> SUFFICES ASSUME TypeOK, [Next]_vars PROVE TypeOK'
  OBVIOUS
<1> USE DEF TypeOK, Size, Records, Steps, Ends, Fault, NoFault, Fails, geometry, files
<1>1. CASE unlink  BY <1>1 DEF unlink
<1>2. CASE inspect  BY <1>2 DEF inspect
<1>3. CASE growpart  BY <1>3 DEF growpart
<1>4. CASE verify  BY <1>4 DEF verify
<1>5. CASE resize  BY <1>5 DEF resize
<1>6. CASE measure  BY <1>6 DEF measure
<1>7. CASE replace  BY <1>7 DEF replace
<1>8. CASE sync  BY <1>8 DEF sync
<1>9. CASE boot  BY <1>9 DEF boot
<1>10. CASE journal_commit  BY <1>10 DEF journal_commit
<1>11. CASE shutdown  BY <1>11 DEF shutdown
<1>12. CASE power_cut  BY <1>12 DEF power_cut
<1>13. CASE move_to_larger_card  BY <1>13 DEF move_to_larger_card
<1>14. CASE UNCHANGED vars  BY <1>14 DEF vars
<1> QED  BY <1>1, <1>2, <1>3, <1>4, <1>5, <1>6, <1>7, <1>8, <1>9, <1>10, <1>11,
            <1>12, <1>13, <1>14 DEF Next, expand_root

LEMMA ExpansionInvNext == ExpansionInv /\ [Next]_vars => ExpansionInv'
<1> SUFFICES ASSUME ExpansionInv, [Next]_vars PROVE ExpansionInv'
  OBVIOUS
<1>0. TypeOK /\ TypeOK'
  BY ExpansionTypeNext DEF ExpansionInv
<1> USE <1>0 DEF ExpansionInv, TypeOK, NoRecordYet, Verified, RecordedSync, RecordWithin,
      ClaimWithinDisk, SuccessSurvives, ClaimIsTrue, Fills, Size, Records,
      Fault, NoFault, Fails, geometry, files
<1>1. CASE unlink  BY <1>1 DEF unlink
<1>2. CASE inspect  BY <1>2 DEF inspect, needs_partition_growth
<1>3. CASE growpart
  <2>1. /\ pc = "growpart" /\ pc' \in {"verify", "failed"}
        /\ table' \in table .. device
        /\ UNCHANGED <<device, fs, marker, disk>>
    BY <1>3 DEF growpart
  <2>2. marker = NoRecord /\ marker' = NoRecord
    BY <2>1
  <2>3. ClaimWithinDisk'
    BY <2>1
  <2> QED  BY <2>1, <2>2, <2>3
<1>4. CASE verify  BY <1>4 DEF verify, verify_expanded_geometry
<1>5. CASE resize  BY <1>5 DEF resize
<1>6. CASE measure  BY <1>6 DEF measure, verify_filesystem_size
<1>7. CASE replace  BY <1>7 DEF replace
<1>8. CASE sync  BY <1>8 DEF sync
<1>9. CASE boot  BY <1>9 DEF boot
<1>10. CASE journal_commit  BY <1>10 DEF journal_commit
<1>11. CASE shutdown  BY <1>11 DEF shutdown
<1>12. CASE power_cut  BY <1>12 DEF power_cut
<1>13. CASE move_to_larger_card  BY <1>13 DEF move_to_larger_card
<1>14. CASE UNCHANGED vars  BY <1>14 DEF vars
<1> QED  BY <1>1, <1>2, <1>3, <1>4, <1>5, <1>6, <1>7, <1>8, <1>9, <1>10, <1>11,
            <1>12, <1>13, <1>14 DEF Next, expand_root

(* The inductive invariant holds throughout. *)
LEMMA ExpansionInvCorrect == Spec => []ExpansionInv
<1>1. ExpansionInv /\ [Next]_vars => ExpansionInv'
  BY ExpansionInvNext
<1> QED  BY ExpansionInvInit, <1>1, PTL DEF Spec

(* A record found after this boot's unlink tells the truth (198, 218-229). *)
THEOREM ClaimsAreTrue == Spec => []ClaimIsTrue
<1>1. ExpansionInv => ClaimIsTrue
  BY DEF ExpansionInv
<1> QED  BY ExpansionInvCorrect, <1>1, PTL

(* A reported success cannot be lost in a power cut (187-194).             *)
THEOREM SuccessIsDurable == Spec => []SuccessSurvives
<1>1. ExpansionInv => SuccessSurvives
  BY DEF ExpansionInv
<1> QED  BY ExpansionInvCorrect, <1>1, PTL

(* No cut leaves a record that claims more than there is (223 before 229). *)
THEOREM ClaimsWithinDisk == Spec => []ClaimWithinDisk
<1>1. ExpansionInv => ClaimWithinDisk
  BY DEF ExpansionInv
<1> QED  BY ExpansionInvCorrect, <1>1, PTL

(* Sizes stay in the order card, partition, kernel, filesystem, disk, and  *)
(* each boot has its steps and its faults.                                 *)
THEOREM ExpansionTypeCorrect == Spec => []TypeOK
<1>1. ExpansionInv => TypeOK
  BY DEF ExpansionInv
<1> QED  BY ExpansionInvCorrect, <1>1, PTL
=============================================================================
