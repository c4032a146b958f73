---------------------------- MODULE ModelStoreProofs ----------------------------
(***************************************************************************)
(* Theorems about ModelStore, for any number of operators, failures, kills *)
(* and power cuts.                                                         *)
(***************************************************************************)
EXTENDS ModelStore, TLAPS

USE NoneAssumption, BoundAssumption

Unlocked == {"idle", "start"}

(* A command past the lock is the one that holds it. *)
LockHeld == \A a \in Admins : pc[a] \notin Unlocked <=> holder = a

(* What is about to be published is whole and synced; so is what was.      *)
Sound ==
    /\ \A a \in Admins : pc[a] \in {"sync", "rename"} => stage[a] = "whole"
    /\ \A a \in Admins : pc[a] = "rename" => stage_bytes[a] = "synced"
    /\ version \in {"absent", "whole"}
    /\ version = "whole" => bytes = "synced"
    /\ disk.version = "whole" => version = "whole"
    /\ disk.version # "damaged"
    /\ disk.version = version \/ disk.version = "absent"

(* A pointer is set only after the version was validated, and stays set.   *)
Validated ==
    /\ disk.current = "selected" => current = "selected"
    /\ disk.known_good = "selected" => known_good = "selected"
    /\ \A a \in Admins : pc[a] = "replace" => version = "whole"
    /\ \A a \in Admins : pc[a] = "sync_store" /\ op[a] \in {"activate", "rollback"} =>
            current = "selected"
    /\ \A a \in Admins : pc[a] \in {"look", "recheck", "copy", "validate", "sync", "rename"} =>
            op[a] = "install"

IInv ==
    /\ TypeOK
    /\ LockHeld
    /\ Sound
    /\ Validated
    /\ PointersNameWholeVersion
    /\ ActivationSurvives

LEMMA TypeInit == Init => TypeOK
  BY DEF Init, TypeOK, Operations, Content, Pointer, OnDisk

LEMMA InitIInv == Init => IInv
  BY TypeInit DEF Init, IInv, LockHeld, Sound, Validated, PointersNameWholeVersion,
     ActivationSurvives, Unlocked

LEMMA TypeNext == TypeOK /\ [Next]_vars => TypeOK'
<1> SUFFICES ASSUME TypeOK, [Next]_vars PROVE TypeOK'
  OBVIOUS
<1> USE DEF TypeOK, Operations, Content, Pointer, OnDisk, store, processes, bounds,
      NoFault, Fault, Goes, Leaves, Fails, Committed
<1>1. ASSUME NEW a \in Admins, Step(a) PROVE TypeOK'
  <2>1. CASE command(a)  BY <2>1 DEF command
  <2>2. CASE _store_lock(a)  BY <2>2 DEF _store_lock, FirstStep
  <2>3. CASE look(a)  BY <2>3 DEF look
  <2>4. CASE recheck(a)  BY <2>4 DEF recheck
  <2>5. CASE copy(a)  BY <2>5 DEF copy
  <2>6. CASE validate(a)  BY <2>6 DEF validate
  <2>7. CASE sync(a)  BY <2>7 DEF sync
  <2>8. CASE rename(a)  BY <2>8 DEF rename
  <2>9. CASE readlink(a)  BY <2>9 DEF readlink
  <2>10. CASE _installed_version(a)  BY <2>10 DEF _installed_version
  <2>11. CASE replace(a)  BY <2>11 DEF replace
  <2>12. CASE _sync_directory(a)  BY <2>12 DEF _sync_directory, Acknowledges
  <2> QED  BY <1>1, <2>1, <2>2, <2>3, <2>4, <2>5, <2>6, <2>7, <2>8, <2>9, <2>10,
               <2>11, <2>12 DEF Step
<1>2. ASSUME NEW a \in Admins, kill(a) PROVE TypeOK'
  BY <1>2 DEF kill
<1>3. CASE commit  BY <1>3 DEF commit
<1>4. CASE power_cut  BY <1>4 DEF power_cut
<1>5. CASE UNCHANGED vars  BY <1>5 DEF vars
<1> QED  BY <1>1, <1>2, <1>3, <1>4, <1>5 DEF Next

LEMMA StepIInv == IInv /\ [Next]_vars => IInv'
<1> SUFFICES ASSUME IInv, [Next]_vars PROVE IInv'
  OBVIOUS
<1>0. TypeOK /\ TypeOK'
  BY TypeNext DEF IInv
<1> USE <1>0 DEF IInv, TypeOK, LockHeld, Sound, Validated, PointersNameWholeVersion,
      ActivationSurvives, Unlocked, Operations, Content, Pointer, OnDisk,
      store, processes, bounds, NoFault, Fault, Goes, Leaves, Fails, Committed
<1>1. ASSUME NEW a \in Admins, Step(a) PROVE IInv'
  <2>1. CASE command(a)  BY <2>1 DEF command
  <2>2. CASE _store_lock(a)  BY <2>2 DEF _store_lock, FirstStep
  <2>3. CASE look(a)  BY <2>3 DEF look
  <2>4. CASE recheck(a)  BY <2>4 DEF recheck
  <2>5. CASE copy(a)  BY <2>5 DEF copy
  <2>6. CASE validate(a)  BY <2>6 DEF validate
  <2>7. CASE sync(a)  BY <2>7 DEF sync
  <2>8. CASE rename(a)  BY <2>8 DEF rename
  <2>9. CASE readlink(a)  BY <2>9 DEF readlink
  <2>10. CASE _installed_version(a)  BY <2>10 DEF _installed_version
  <2>11. CASE replace(a)  BY <2>11 DEF replace
  <2>12. CASE _sync_directory(a)  BY <2>12 DEF _sync_directory, Acknowledges
  <2> QED  BY <1>1, <2>1, <2>2, <2>3, <2>4, <2>5, <2>6, <2>7, <2>8, <2>9, <2>10,
               <2>11, <2>12 DEF Step
<1>2. ASSUME NEW a \in Admins, kill(a) PROVE IInv'
  BY <1>2 DEF kill
<1>3. CASE commit  BY <1>3 DEF commit
<1>4. CASE power_cut  BY <1>4 DEF power_cut
<1>5. CASE UNCHANGED vars  BY <1>5 DEF vars
<1> QED  BY <1>1, <1>2, <1>3, <1>4, <1>5 DEF Next

(* The inductive invariant holds throughout. *)
LEMMA IInvCorrect == Spec => []IInv
  BY InitIInv, StepIInv, PTL DEF Spec

(* A pointer always names a whole version, before and after a cut (111-119, *)
(* 124-129).                                                                *)
THEOREM PointersAreSound == Spec => []PointersNameWholeVersion
<1>1. IInv => PointersNameWholeVersion
  BY DEF IInv
<1> QED  BY IInvCorrect, <1>1, PTL

(* An acknowledged activation survives every cut (126-129).                *)
THEOREM ActivationIsDurable == Spec => []ActivationSurvives
<1>1. IInv => ActivationSurvives
  BY DEF IInv
<1> QED  BY IInvCorrect, <1>1, PTL

(* The lock has one holder, and only an install under way has a stage.     *)
THEOREM TypeCorrect == Spec => []TypeOK
<1>1. IInv => TypeOK
  BY DEF IInv
<1> QED  BY IInvCorrect, <1>1, PTL

(* Only the replacement of a pointer moves known-good to a model: what a   *)
(* cut takes it to was committed, and was known-good before.               *)
LEMMA QualifyNext ==
    ASSUME IInv, [Next]_vars, known_good # "selected", known_good' = "selected"
    PROVE  \E a \in Admins : op[a] = "qualify" /\ holder = a
<1> USE DEF store, vars
<1>1. ASSUME NEW a \in Admins, Step(a) PROVE replace(a)
  BY <1>1 DEF Step, command, _store_lock, look, recheck, copy, validate, sync, rename,
     readlink, _installed_version, _sync_directory
<1>2. ASSUME NEW a \in Admins, kill(a) PROVE FALSE
  BY <1>2 DEF kill
<1>3. ~ commit /\ ~ power_cut /\ ~ UNCHANGED vars
  BY DEF commit, power_cut, IInv, Validated
<1>4. PICK a \in Admins : replace(a)
  BY <1>1, <1>2, <1>3 DEF Next
<1>5. op[a] = "qualify"
  BY <1>4 DEF replace
<1>6. holder = a
  BY <1>4 DEF replace, IInv, LockHeld, Unlocked
<1> QED  BY <1>5, <1>6

(* No activation, installation, rollback, kill or cut makes a model        *)
(* known-good: only the holder of the lock that was asked to qualify (142).*)
THEOREM OnlyQualifiedModels == Spec => OnlyQualified
<1>1. IInv /\ [Next]_vars =>
        [known_good # "selected" /\ known_good' = "selected" =>
            \E a \in Admins : op[a] = "qualify" /\ holder = a]_vars
  BY QualifyNext
<1> QED  BY IInvCorrect, <1>1, PTL DEF Spec, OnlyQualified

(* A published version is replaced by no command, as install looks again   *)
(* under the lock and rename refuses: only a cut takes it away (101-103).  *)
THEOREM VersionsStay == Spec => VersionsAreFinal
<1>1. ASSUME TypeOK, [Next]_vars PROVE [version # "absent" /\ version' # version => cuts' > cuts]_vars
  <2> USE DEF store, bounds, vars
  <2>1. ASSUME NEW a \in Admins, Step(a), version # "absent" PROVE version' = version
    BY <2>1 DEF Step, command, _store_lock, look, recheck, copy, validate, sync, rename,
       readlink, _installed_version, replace, _sync_directory
  <2>2. ASSUME NEW a \in Admins, kill(a) PROVE version' = version
    BY <2>2 DEF kill
  <2>3. commit => version' = version
    BY DEF commit
  <2>4. power_cut => cuts' > cuts
    BY <1>1 DEF power_cut, TypeOK
  <2> QED  BY <1>1, <2>1, <2>2, <2>3, <2>4 DEF Next
<1>2. IInv => TypeOK
  BY DEF IInv
<1> QED  BY IInvCorrect, <1>1, <1>2, PTL DEF Spec, VersionsAreFinal
=============================================================================
