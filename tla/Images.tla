-------------------------------- MODULE Images --------------------------------
(* The images that can be built: of a content of the repository, with one  *)
(* engineering key.                                                        *)
EXTENDS ImageVerifier

CONSTANTS
    Trees,            \* contents of the repository
    KeyFiles,         \* contents of the engineering key file
    Rootfs,           \* what rpi-image-gen builds, by tree and key
    None

Sources == {<<t, key>> : t \in Trees, key \in KeyFiles}

(* A filesystem has finitely many files, and the lines of a file are a sequence. *)
ASSUME RootfsAssumption ==
    \A source \in Sources : LET r == Rootfs[source] IN
        /\ IsFiniteSet(DOMAIN r)
        /\ IsFile(r, DnsmasqConf) => r[DnsmasqConf].text \in Seq(Range(r[DnsmasqConf].text))

(* scripts/verify_rave_image.py main(), for a root filesystem. *)
Verifies == [source \in Sources |-> \A r \in {Rootfs[source]} : verify_rootfs(r)]
Publishable ==
    [source \in Sources |-> \A r \in {Rootfs[source]} : verify_publishable_image_has_no_engineering_ssh(r)]
=============================================================================
