------------------------- MODULE ReleaseInstallerProofs -------------------------
(***************************************************************************)
(* Theorems about ReleaseInstaller, for every set of published manifests,  *)
(* every number of interruptions and every damage done to the files.       *)
(***************************************************************************)
EXTENDS ReleaseInstaller, TLAPS

USE InstallerAssumption

-----------------------------------------------------------------------------
(* Lemmas about manifests and records                                      *)

LEMMA ManifestFields ==
  ASSUME NEW m \in Manifests
  PROVE  /\ m.version \in Versions /\ m.version \in Nat
         /\ m.seq \in Nat /\ m.artifact \in Contents
         /\ Record(m) \in Records /\ Record(m) # None
         /\ Record(m).version = m.version /\ Record(m).seq = m.seq
         /\ Record(m).artifact = m.artifact
<1>1. /\ m.version \in Nat /\ m.seq \in Nat /\ m.artifact \in Contents
  OBVIOUS
<1>2. Record(m) \in [version : Nat, seq : Nat, artifact : Contents]
  BY <1>1 DEF Record
<1>. QED  BY <1>1, <1>2 DEF Versions, Records, Record

LEMMA RecordFields ==
  ASSUME NEW r \in Records
  PROVE  /\ r # None /\ r.version \in Versions /\ r.version \in Nat
         /\ r.seq \in Nat /\ r.artifact \in Contents
         /\ \E m \in Manifests : r = Record(m)
<1>1. PICK m \in Manifests : r = Record(m)
  BY DEF Records
<1>. QED  BY <1>1, ManifestFields

-----------------------------------------------------------------------------
(* Type correctness                                                        *)

LEMMA RolledBackType ==
  ASSUME TypeOK, Restorable
  PROVE  RolledBack \in States
<1>1. saved.previous \in Records
  BY DEF Restorable, TypeOK, States
<1>. QED  BY <1>1, RecordFields DEF RolledBack, TypeOK, States

LEMMA TypeStep == ASSUME TypeOK, [Next]_vars PROVE TypeOK'
<1>. USE DEF disk, history
<1>1. ASSUME NEW m \in Manifests, NEW h \in BOOLEAN, NEW now \in Instants, Begin(m, h, now)
      PROVE  TypeOK'
  BY <1>1 DEF Begin, Goto, TypeOK, PC
<1>2. ASSUME pc # "idle" PROVE op.m \in Manifests /\ op.m.version \in Versions
  BY <1>2, ManifestFields DEF TypeOK
<1>3. CASE Stage
  BY <1>3, <1>2 DEF Stage, Goto, TypeOK, PC, v0
<1>4. ASSUME NEW d \in Contents, Copy(d) PROVE TypeOK'
  BY <1>4, <1>2 DEF Copy, Goto, TypeOK, PC, v0
<1>5. CASE Verify
  BY <1>5, <1>2 DEF Verify, Goto, TypeOK, PC
<1>6. CASE VerifyFails
  BY <1>6 DEF VerifyFails, Return, Goto, NoOp, TypeOK, PC
<1>7. CASE Clear
  BY <1>7, <1>2 DEF Clear, Goto, TypeOK, PC, v0
<1>8. CASE Switch
  BY <1>8, <1>2 DEF Switch, Goto, TypeOK, PC, v0
<1>9. CASE Save
  <2>1. pc # "idle"
    BY <1>9 DEF Save, Goto, Return
  <2>2. Installed(m0) \in States
    BY <2>1, <1>2, ManifestFields DEF Installed, m0, TypeOK, States
  <2>3. saved' \in States /\ UNCHANGED <<disk, history>>
    BY <1>9, <2>2 DEF Save
  <2>4. \/ pc' = "health" /\ op' = op
        \/ pc' = "idle" /\ op' = NoOp
    BY <1>9 DEF Save, Goto, Return
  <2>5. CASE pc' = "health" /\ op' = op
    BY <2>1, <2>3, <2>5 DEF TypeOK, PC
  <2>6. CASE pc' = "idle" /\ op' = NoOp
    BY <2>3, <2>6 DEF NoOp, TypeOK, PC
  <2>. QED  BY <2>4, <2>5, <2>6
<1>10. CASE Healthy
  BY <1>10 DEF Healthy, Return, Goto, NoOp, TypeOK, PC
<1>11. CASE Unhealthy
  BY <1>11, <1>2 DEF Unhealthy, Goto, TypeOK, PC, m0
<1>12. CASE AutoRollback
  BY <1>12, RolledBackType DEF AutoRollback, Goto, TypeOK, PC
<1>13. CASE AutoRollbackFails
  BY <1>13 DEF AutoRollbackFails, Return, Goto, NoOp, TypeOK, PC
<1>14. CASE Quarantine
  BY <1>14, <1>2 DEF Quarantine, Return, Goto, NoOp, TypeOK, PC, States, v0
<1>15. CASE Rollback
  BY <1>15, RolledBackType DEF Rollback, TypeOK
<1>16. CASE Interrupt
  BY <1>16 DEF Interrupt, NoOp, TypeOK, PC, m0
<1>17. ASSUME NEW v \in Versions, NEW d \in Contents \cup {None}, Damage(v, d)
       PROVE  TypeOK'
  BY <1>17 DEF Damage, TypeOK
<1>18. CASE UNCHANGED vars
  BY <1>18 DEF vars, TypeOK
<1>. QED
  BY <1>1, <1>3, <1>4, <1>5, <1>6, <1>7, <1>8, <1>9, <1>10, <1>11, <1>12, <1>13,
     <1>14, <1>15, <1>16, <1>17, <1>18 DEF Next, Install

LEMMA TypeInit == Init => TypeOK
BY DEF Init, TypeOK, NoOp, States, PC

(* Every reachable state of the installer is well typed                    *)
(* (lib.rs:350-498).                                                       *)
THEOREM TypeCorrect == Spec => []TypeOK
<1>. QED  BY TypeInit, TypeStep, PTL DEF Spec

-----------------------------------------------------------------------------
(* The inductive invariant                                                 *)

Recorded == {saved.current, saved.previous} \ {None}

(* Records are of accepted sequences, the previous one below the current.  *)
RecordOrder ==
  /\ \A r \in Recorded : saved.seq # None /\ r.seq <= saved.seq
  /\ saved.previous # None =>
       saved.current # None /\ saved.previous.seq < saved.current.seq

(* What the running installation has established so far.                   *)
Progress ==
  /\ pc \in {"stage", "copy", "verify", "clear", "switch", "save"} =>
       saved.seq = None \/ m0.seq > saved.seq
  /\ pc \in {"clear", "switch"} => Intact(staging[v0], m0)
  /\ pc = "save" => Intact(live[v0], m0) /\ v0 \notin damaged

Inv == TypeOK /\ RecordOrder /\ Progress

(* Only three steps write state.json.                                      *)
LEMMA Writes ==
  ASSUME [Next]_vars
  PROVE  \/ saved' = saved
         \/ Save
         \/ Restorable /\ saved' = RolledBack /\ UNCHANGED <<disk, history>>
         \/ Quarantine
BY DEF Next, Install, Begin, Stage, Copy, Verify, VerifyFails, Clear, Switch,
       Healthy, Unhealthy, AutoRollback, AutoRollbackFails, Rollback, Interrupt,
       Damage, vars

LEMMA Saving ==
  ASSUME TypeOK, Progress, Save
  PROVE  /\ m0 \in Manifests /\ Record(m0) \in Records
         /\ saved' = Installed(m0) /\ UNCHANGED <<disk, history>>
         /\ saved.seq = None \/ m0.seq > saved.seq
         /\ Intact(live[v0], m0) /\ v0 \notin damaged
         /\ saved'.seq = m0.seq /\ saved'.current = Record(m0)
         /\ saved'.previous = saved.current
<1>1. pc = "save"
  BY DEF Save, Goto, Return
<1>2. m0 \in Manifests /\ Record(m0) \in Records
  BY <1>1, ManifestFields DEF TypeOK, m0
<1>3. saved' = Installed(m0) /\ UNCHANGED <<disk, history>>
  BY DEF Save
<1>. QED  BY <1>1, <1>2, <1>3 DEF Progress, Installed, TypeOK, States

LEMMA OrderStep ==
  ASSUME Inv, [Next]_vars
  PROVE  RecordOrder'
<1>. USE DEF Inv, Recorded
<1>1. saved \in States
  BY DEF TypeOK
<1>2. CASE saved' = saved
  BY <1>2 DEF RecordOrder
<1>3. CASE Save
  <2>1. m0.seq \in Nat /\ Record(m0).seq = m0.seq /\ Record(m0) # None
    BY <1>3, Saving, ManifestFields
  <2>2. saved.current # None =>
          saved.seq \in Nat /\ saved.current.seq \in Nat /\ saved.current.seq <= saved.seq
    BY <1>1, RecordFields DEF RecordOrder, States
  <2>. QED  BY <1>3, <2>1, <2>2, Saving DEF RecordOrder
<1>4. CASE Restorable /\ saved' = RolledBack
  BY <1>1, <1>4 DEF Restorable, RolledBack, RecordOrder, States
<1>5. CASE Quarantine
  BY <1>1, <1>5 DEF Quarantine, RecordOrder, States
<1>. QED  BY <1>2, <1>3, <1>4, <1>5, Writes

LEMMA ProgressStep ==
  ASSUME Inv, [Next]_vars
  PROVE  Progress'
<1>. USE DEF Inv, Progress, disk, history, m0, v0
<1>1. ASSUME pc # "idle" PROVE op.m \in Manifests /\ op.m.version \in Versions
  BY <1>1, ManifestFields DEF TypeOK
<1>2. live \in [Versions -> Contents \cup {None}] /\ staging \in [Versions -> Contents \cup {None}]
  BY DEF TypeOK
<1>3. ASSUME NEW m \in Manifests, NEW h \in BOOLEAN, NEW now \in Instants, Begin(m, h, now)
      PROVE  Progress'
  BY <1>3 DEF Begin, Goto, Accepts
<1>4. CASE Stage
  BY <1>4 DEF Stage, Goto
<1>5. ASSUME NEW d \in Contents, Copy(d) PROVE Progress'
  BY <1>5 DEF Copy, Goto
<1>6. CASE Verify
  BY <1>6 DEF Verify, Goto
<1>7. CASE Clear
  BY <1>7 DEF Clear, Goto
<1>8. CASE Switch
  BY <1>8, <1>1, <1>2 DEF Switch, Goto
<1>9. CASE Save
  BY <1>9 DEF Save, Goto, Return
<1>10. CASE VerifyFails \/ Healthy \/ AutoRollbackFails \/ Quarantine
  BY <1>10 DEF VerifyFails, Healthy, AutoRollbackFails, Quarantine, Return, Goto
<1>11. CASE Unhealthy \/ AutoRollback
  BY <1>11 DEF Unhealthy, AutoRollback, Goto
<1>12. CASE Rollback \/ Interrupt
  BY <1>12 DEF Rollback, Interrupt
<1>13. ASSUME NEW v \in Versions, NEW d \in Contents \cup {None}, Damage(v, d)
       PROVE  Progress'
  BY <1>13 DEF Damage
<1>14. CASE UNCHANGED vars
  BY <1>14 DEF vars
<1>. QED
  BY <1>3, <1>4, <1>5, <1>6, <1>7, <1>8, <1>9, <1>10, <1>11, <1>12, <1>13, <1>14
  DEF Next, Install

LEMMA InvStep == ASSUME Inv, [Next]_vars PROVE Inv'
BY TypeStep, OrderStep, ProgressStep DEF Inv

LEMMA InvInit == Init => Inv
BY TypeInit DEF Init, Inv, RecordOrder, Recorded, Progress

LEMMA Invariance == Spec => []Inv
<1>. QED  BY InvInit, InvStep, PTL DEF Spec

-----------------------------------------------------------------------------
(* The files on disk                                                       *)

(* Only three steps touch installed files.                                 *)
LEMMA Touches ==
  ASSUME TypeOK, [Next]_vars
  PROVE  \/ live' = live /\ damaged' = damaged
         \/ Clear \/ Switch
         \/ \E v \in Versions, d \in Contents \cup {None} : Damage(v, d)
BY DEF Next, Install, Begin, Stage, Copy, Verify, VerifyFails, Save, Healthy,
       Unhealthy, AutoRollback, AutoRollbackFails, Quarantine, Rollback,
       Interrupt, vars, disk, history

LEMMA Switching ==
  ASSUME Inv, Clear \/ Switch
  PROVE  /\ pc # "idle" /\ m0 \in Manifests /\ v0 \in Versions
         /\ saved.seq = None \/ m0.seq > saved.seq
         /\ Intact(staging[v0], m0) /\ saved' = saved
         /\ \A v \in Versions \ {v0} :
              live'[v] = live[v] /\ (v \in damaged' <=> v \in damaged)
<1>1. pc \in {"clear", "switch"} /\ saved' = saved
  BY DEF Clear, Switch, Goto
<1>2. m0 \in Manifests /\ v0 \in Versions
  BY <1>1, ManifestFields DEF Inv, TypeOK, m0, v0
<1>3. \A v \in Versions \ {v0} : live'[v] = live[v] /\ (v \in damaged' <=> v \in damaged)
  BY DEF Clear, Switch, Inv, TypeOK, history
<1>. QED  BY <1>1, <1>2, <1>3 DEF Inv, Progress

(* Files that are installed are touched only once a verified replacement   *)
(* is staged, whatever the process meets (lib.rs:410-411, 437-442).        *)
THEOREM ReplacedTheorem == Spec => ReplacedWhenVerified
<1>1. Inv /\ [Next]_vars =>
        \A v \in Versions :
          live[v] # None /\ live'[v] # live[v] /\ v \notin damaged' =>
            pc # "idle" /\ v = v0 /\ Intact(staging[v], m0)
  <2>. SUFFICES ASSUME Inv, [Next]_vars, NEW v \in Versions,
                       live[v] # None, live'[v] # live[v], v \notin damaged'
                PROVE  pc # "idle" /\ v = v0 /\ Intact(staging[v], m0)
    OBVIOUS
  <2>1. CASE Clear \/ Switch
    BY <2>1, Switching
  <2>2. ASSUME NEW w \in Versions, NEW d \in Contents \cup {None}, Damage(w, d)
        PROVE  FALSE
    BY <2>2 DEF Damage, Inv, TypeOK
  <2>. QED  BY <2>1, <2>2, Touches DEF Inv
<1>. QED  BY <1>1, Invariance, PTL DEF Spec, ReplacedWhenVerified

(* The accepted sequence only grows, and only when the version it belongs  *)
(* to is on disk and current (lib.rs:223-224, 482-484).                    *)
THEOREM SequenceTheorem == Spec => SequenceNeverReused
<1>1. Inv /\ [Next]_vars =>
        (saved'.seq # saved.seq =>
           /\ saved.seq = None \/ saved'.seq > saved.seq
           /\ saved'.current # None /\ saved'.current.seq = saved'.seq
           /\ Intact(live[saved'.current.version], saved'.current))
  <2>. SUFFICES ASSUME Inv, [Next]_vars, saved'.seq # saved.seq
                PROVE  /\ saved.seq = None \/ saved'.seq > saved.seq
                       /\ saved'.current # None /\ saved'.current.seq = saved'.seq
                       /\ Intact(live[saved'.current.version], saved'.current)
    OBVIOUS
  <2>1. Save
    BY Writes DEF RolledBack, Quarantine, Inv, TypeOK, States
  <2>2. m0 \in Manifests /\ saved'.current = Record(m0) /\ saved'.seq = m0.seq
    BY <2>1, Saving DEF Inv
  <2>3. (saved.seq = None \/ m0.seq > saved.seq) /\ Intact(live[v0], m0)
    BY <2>1, Saving DEF Inv
  <2>. QED  BY <2>2, <2>3, ManifestFields DEF Intact, m0, v0
<1>. QED  BY <1>1, Invariance, PTL DEF Spec, SequenceNeverReused

(* A rollback makes current an older record whose file is intact at that   *)
(* moment (lib.rs:482-488).                                                *)
THEOREM RollbackTheorem == Spec => RollbackVerified
<1>1. Inv /\ [Next]_vars =>
        (saved'.current # saved.current /\ saved'.seq = saved.seq =>
           /\ saved'.current = saved.previous /\ saved.previous # None
           /\ saved'.current.seq < saved.current.seq
           /\ Intact(live[saved'.current.version], saved'.current))
  <2>. SUFFICES ASSUME Inv, [Next]_vars,
                       saved'.current # saved.current, saved'.seq = saved.seq
                PROVE  /\ saved'.current = saved.previous /\ saved.previous # None
                       /\ saved'.current.seq < saved.current.seq
                       /\ Intact(live[saved'.current.version], saved'.current)
    OBVIOUS
  <2>1. ~Save
    BY Saving, ManifestFields DEF Inv
  <2>2. Restorable /\ saved' = RolledBack
    BY <2>1, Writes DEF Quarantine, Inv, TypeOK, States
  <2>3. saved'.current = saved.previous
    BY <2>2 DEF RolledBack, Inv, TypeOK, States
  <2>. QED  BY <2>2, <2>3 DEF Restorable, Inv, RecordOrder
<1>. QED  BY <1>1, Invariance, PTL DEF Spec, RollbackVerified

-----------------------------------------------------------------------------
(* Crash safety                                                            *)

(* A manifest that may be installed is of no recorded version.             *)
LEMMA FreshVersion ==
  ASSUME VersionsUnique, Inv, NEW m \in Manifests,
         saved.seq = None \/ m.seq > saved.seq,
         NEW r \in Recorded
  PROVE  r.version # m.version
<1>1. r \in Records
  BY DEF Inv, TypeOK, States, Recorded
<1>2. PICK n \in Manifests : r = Record(n)
  BY <1>1, RecordFields
<1>3. saved.seq \in Nat /\ r.seq <= saved.seq
  BY DEF Inv, RecordOrder, TypeOK, States
<1>4. r.seq = n.seq /\ r.version = n.version /\ n.seq \in Nat /\ m.seq \in Nat
  BY <1>2, ManifestFields
<1>. QED  BY <1>3, <1>4 DEF VersionsUnique

LEMMA IntactStep ==
  ASSUME VersionsUnique, Inv, IntactRecords, [Next]_vars
  PROVE  IntactRecords'
<1>. USE DEF Inv
<1>1. ASSUME live' = live, damaged' = damaged PROVE IntactRecords'
  <2>1. CASE Save
    <3>1. saved'.current = Record(m0) /\ saved'.previous = saved.current
      BY <2>1, Saving
    <3>2. m0 \in Manifests /\ Intact(live[v0], m0)
      BY <2>1, Saving
    <3>. QED  BY <1>1, <3>1, <3>2, ManifestFields DEF IntactRecords, Intact, v0, m0
  <2>2. CASE saved' = saved
    BY <1>1, <2>2 DEF IntactRecords, Intact
  <2>3. CASE Restorable /\ saved' = RolledBack
    BY <1>1, <2>3 DEF IntactRecords, Intact, RolledBack, TypeOK, States
  <2>4. CASE Quarantine
    BY <1>1, <2>4 DEF IntactRecords, Intact, Quarantine, TypeOK, States
  <2>. QED  BY <2>1, <2>2, <2>3, <2>4, Writes
<1>2. CASE Clear \/ Switch
  <2>1. ASSUME NEW r \in Recorded
        PROVE  r.version \in Versions \ {v0}
    BY <1>2, <2>1, Switching, FreshVersion, RecordFields
       DEF Recorded, TypeOK, States, v0, m0
  <2>. QED  BY <1>2, <2>1, Switching DEF IntactRecords, Intact, Recorded
<1>3. ASSUME NEW v \in Versions, NEW d \in Contents \cup {None}, Damage(v, d)
      PROVE  IntactRecords'
  BY <1>3 DEF Damage, IntactRecords, Intact, TypeOK
<1>. QED  BY <1>1, <1>2, <1>3, Touches

(* Wherever the process stops, and however often, the recorded versions    *)
(* are on disk with the artifact of their manifest, provided no version is *)
(* published twice (lib.rs:409-411, 442-456).                              *)
THEOREM IntactTheorem ==
  ASSUME VersionsUnique
  PROVE  Spec => []IntactRecords
<1>1. Init => IntactRecords
  BY DEF Init, IntactRecords
<1>2. Inv /\ IntactRecords /\ [Next]_vars => IntactRecords'
  BY IntactStep
<1>. QED  BY <1>1, <1>2, Invariance, PTL DEF Spec

-----------------------------------------------------------------------------
(* Health                                                                  *)

Done(m) == saved.seq # None /\ m.seq <= saved.seq

Retired(m) == m.version \in saved.quarantined /\ Record(m) \notin Recorded

(* The running operation is about to go back from m, or to quarantine it.  *)
Retiring(m) ==
  /\ m = m0
  /\ \/ pc = "rollback" /\ saved.previous \notin {None, Record(m)}
     \/ pc = "quarantine" /\ Record(m) \notin Recorded

(* A version that was altered and that no manifest brings back.            *)
BeyondRepair == \E n \in Manifests : n.version \in damaged /\ Done(n)

HealthInv ==
  /\ pc = "health" => Done(m0) /\ saved.previous # Record(m0)
  /\ \A m \in sick : Done(m)
  /\ BeyondRepair \/ \A m \in sick : Retired(m) \/ Retiring(m)

LEMMA DoneStays ==
  ASSUME Inv, [Next]_vars, NEW m \in Manifests, Done(m) PROVE Done(m)'
<1>1. saved.seq \in Nat /\ m.seq \in Nat
  BY ManifestFields DEF Done, Inv, TypeOK, States
<1>2. CASE saved'.seq = saved.seq
  BY <1>2 DEF Done
<1>3. CASE Save
  <2>1. m0 \in Manifests /\ saved'.seq = m0.seq /\ m0.seq > saved.seq
    BY <1>1, <1>3, Saving DEF Inv
  <2>2. m0.seq \in Nat /\ m0.seq # None
    BY <2>1, ManifestFields
  <2>. QED  BY <1>1, <2>1, <2>2 DEF Done
<1>. QED  BY <1>2, <1>3, Writes DEF RolledBack, Quarantine, Inv, TypeOK, States

(* Only the installation of a manifest clears the mark of its version.     *)
LEMMA BeyondRepairStays ==
  ASSUME VersionsUnique, Inv, [Next]_vars, BeyondRepair PROVE BeyondRepair'
<1>1. PICK n \in Manifests : n.version \in damaged /\ Done(n)
  BY DEF BeyondRepair
<1>2. Done(n)'
  BY <1>1, DoneStays
<1>3. n.version \in damaged'
  <2>1. CASE Clear \/ Switch
    <3>1. m0 \in Manifests /\ (saved.seq = None \/ m0.seq > saved.seq)
      BY <2>1, Switching
    <3>2. n # m0
      <4>1. n.seq \in Nat /\ m0.seq \in Nat /\ saved.seq \in Nat
        BY <1>1, <3>1, ManifestFields DEF Done, Inv, TypeOK, States
      <4>. QED  BY <1>1, <3>1, <4>1 DEF Done
    <3>3. n.version \in Versions \ {v0}
      BY <3>1, <3>2, ManifestFields DEF VersionsUnique, v0, m0
    <3>. QED  BY <1>1, <2>1, <3>3, Switching
  <2>2. ASSUME NEW v \in Versions, NEW d \in Contents \cup {None}, Damage(v, d)
        PROVE  n.version \in damaged'
    BY <1>1, <2>2 DEF Damage
  <2>. QED  BY <1>1, <2>1, <2>2, Touches DEF Inv
<1>. QED  BY <1>2, <1>3 DEF BeyondRepair

(* What was done is not installed again.                                   *)
LEMMA RetiredStays ==
  ASSUME Inv, NEW m \in Manifests, Done(m), Retired(m),
         \/ saved' = saved \/ Save \/ Quarantine
         \/ Restorable /\ saved' = RolledBack
  PROVE  Retired(m)'
<1>. USE DEF Inv, Recorded
<1>1. CASE saved' = saved
  BY <1>1 DEF Retired
<1>2. CASE Save
  <2>1. /\ m0 \in Manifests /\ saved'.current = Record(m0)
        /\ saved'.previous = saved.current /\ saved' = Installed(m0)
        /\ saved.seq = None \/ m0.seq > saved.seq
    BY <1>2, Saving
  <2>2. Record(m0) # Record(m)
    <3>1. Record(m0).seq = m0.seq /\ Record(m).seq = m.seq /\ m.seq \in Nat /\ m0.seq \in Nat
      BY <2>1, ManifestFields
    <3>2. saved.seq \in Nat
      BY DEF Done, TypeOK, States
    <3>. QED  BY <2>1, <3>1, <3>2 DEF Done
  <2>3. saved'.quarantined = saved.quarantined
    BY <2>1 DEF Installed, TypeOK, States
  <2>. QED  BY <2>1, <2>2, <2>3 DEF Retired
<1>3. CASE Restorable /\ saved' = RolledBack
  <2>1. /\ saved'.current = saved.previous /\ saved'.previous = None
        /\ saved'.quarantined = saved.quarantined
    BY <1>3 DEF RolledBack, TypeOK, States
  <2>. QED  BY <2>1 DEF Retired
<1>4. CASE Quarantine
  <2>1. /\ saved'.current = saved.current /\ saved'.previous = saved.previous
        /\ saved.quarantined \subseteq saved'.quarantined
    BY <1>4 DEF Quarantine, TypeOK, States
  <2>. QED  BY <2>1 DEF Retired
<1>. QED  BY <1>1, <1>2, <1>3, <1>4

LEMMA SickType == Inv => sick \subseteq Manifests
BY DEF Inv, TypeOK

(* A step after which the same manifests are sick, outside of a retreat.   *)
LEMMA HealthKept ==
  ASSUME VersionsUnique, Inv, HealthInv, [Next]_vars, sick' \subseteq sick,
         pc \notin {"rollback", "quarantine"}, pc' # "health"
  PROVE  HealthInv'
<1>1. \A m \in sick : Done(m)'
  BY SickType, DoneStays DEF HealthInv
<1>2. CASE BeyondRepair
  BY <1>1, <1>2, BeyondRepairStays DEF HealthInv
<1>3. CASE \A m \in sick : Retired(m)
  <2>1. ASSUME NEW m \in sick PROVE Retired(m)'
    <3>1. m \in Manifests /\ Done(m) /\ Retired(m)
      BY <1>3, SickType DEF HealthInv
    <3>2. saved' = saved \/ Save \/ (Restorable /\ saved' = RolledBack) \/ Quarantine
      BY Writes
    <3>. QED  BY <3>1, <3>2, RetiredStays
  <2>. QED  BY <1>1, <2>1 DEF HealthInv
<1>. QED  BY <1>2, <1>3 DEF HealthInv, Retiring

LEMMA SaveHealth ==
  ASSUME VersionsUnique, Inv, HealthInv, [Next]_vars, Save PROVE HealthInv'
<1>1. /\ m0 \in Manifests /\ saved'.seq = m0.seq /\ saved'.previous = saved.current
      /\ saved.seq = None \/ m0.seq > saved.seq
  BY Saving DEF Inv
<1>2. /\ pc = "save" /\ sick' = sick
      /\ pc' = "health" => m0' = m0
  BY DEF Save, Goto, Return, history, m0
<1>3. m0.seq \in Nat /\ m0.seq # None /\ Record(m0).seq = m0.seq /\ Record(m0) # None
  BY <1>1, ManifestFields
<1>4. saved.current # Record(m0)
  <2>1. ASSUME saved.current = Record(m0) PROVE FALSE
    <3>1. saved.seq \in Nat /\ m0.seq <= saved.seq
      BY <1>3, <2>1 DEF Inv, RecordOrder, Recorded, TypeOK, States
    <3>. QED  BY <1>1, <1>3, <3>1
  <2>. QED  BY <2>1
<1>5. pc' = "health" => Done(m0)' /\ saved'.previous # Record(m0)'
  BY <1>1, <1>2, <1>3, <1>4 DEF Done, Record
<1>6. \A m \in sick : Done(m)'
  BY SickType, DoneStays DEF HealthInv
<1>7. CASE BeyondRepair
  BY <1>2, <1>5, <1>6, <1>7, BeyondRepairStays DEF HealthInv
<1>8. CASE \A m \in sick : Retired(m)
  <2>1. ASSUME NEW m \in sick PROVE Retired(m)'
    <3>1. m \in Manifests /\ Done(m) /\ Retired(m)
      BY <1>8, SickType DEF HealthInv
    <3>. QED  BY <3>1, RetiredStays
  <2>. QED  BY <1>2, <1>5, <1>6, <2>1 DEF HealthInv
<1>. QED  BY <1>2, <1>7, <1>8 DEF HealthInv, Retiring

LEMMA UnhealthyHealth ==
  ASSUME VersionsUnique, Inv, HealthInv, [Next]_vars, Unhealthy PROVE HealthInv'
<1>1. /\ pc = "health" /\ pc' = "rollback" /\ m0' = m0
      /\ UNCHANGED <<saved, damaged>>
      /\ sick' = IF saved.previous = None THEN sick ELSE sick \cup {m0}
  BY DEF Unhealthy, Goto, m0
<1>2. Done(m0) /\ saved.previous # Record(m0)
  BY <1>1 DEF HealthInv
<1>3. \A m \in sick' : Done(m)'
  BY <1>1, <1>2 DEF HealthInv, Done
<1>4. CASE BeyondRepair
  BY <1>1, <1>3, <1>4, BeyondRepairStays DEF HealthInv
<1>5. CASE \A m \in sick : Retired(m)
  <2>1. \A m \in sick : Retired(m)'
    BY <1>1, <1>5 DEF Retired, Recorded
  <2>2. saved.previous # None => Retiring(m0)'
    BY <1>1, <1>2 DEF Retiring
  <2>3. \A m \in sick' : Retired(m)' \/ Retiring(m)'
    BY <1>1, <2>1, <2>2
  <2>. QED  BY <1>1, <1>3, <2>3 DEF HealthInv
<1>. QED  BY <1>1, <1>4, <1>5 DEF HealthInv, Retiring

LEMMA RetreatHealth ==
  ASSUME VersionsUnique, Inv, IntactRecords, HealthInv, [Next]_vars,
         AutoRollback \/ AutoRollbackFails \/ Quarantine
  PROVE  HealthInv'
<1>. USE DEF Inv, Recorded
<1>1. sick' = sick /\ damaged' = damaged /\ pc' # "health" /\ (pc' = "quarantine" => m0' = m0)
  BY DEF AutoRollback, AutoRollbackFails, Quarantine, Goto, Return, history, m0
<1>2. \A m \in sick : Done(m)'
  BY SickType, DoneStays DEF HealthInv
<1>3. SUFFICES ASSUME ~BeyondRepair, NEW m \in sick
               PROVE  BeyondRepair' \/ Retired(m)' \/ Retiring(m)'
  BY <1>1, <1>2, BeyondRepairStays DEF HealthInv
<1>4. m \in Manifests /\ Done(m)
  BY SickType DEF HealthInv
<1>5. CASE Retired(m)
  <2>1. saved' = saved \/ (Restorable /\ saved' = RolledBack) \/ Quarantine
    BY DEF AutoRollback, AutoRollbackFails
  <2>. QED  BY <1>4, <1>5, <2>1, RetiredStays
<1>6. CASE Retiring(m) /\ AutoRollback
  <2>1. /\ m = m0 /\ saved.previous \notin {None, Record(m)}
        /\ saved' = RolledBack /\ pc' = "quarantine"
    BY <1>6 DEF Retiring, AutoRollback, Goto
  <2>2. saved'.current = saved.previous /\ saved'.previous = None
    BY <2>1 DEF RolledBack, TypeOK, States
  <2>3. Retiring(m)'
    BY <1>1, <1>4, <2>1, <2>2 DEF Retiring
  <2>. QED  BY <2>3
<1>7. CASE Retiring(m) /\ AutoRollbackFails
  <2>1. saved.previous # None /\ ~Intact(live[saved.previous.version], saved.previous)
        /\ saved' = saved
    BY <1>7 DEF Retiring, AutoRollbackFails, Return, Goto, Restorable
  <2>2. saved.previous.version \in damaged /\ saved.previous \in Records
    BY <2>1 DEF IntactRecords, TypeOK, States
  <2>3. PICK n \in Manifests : saved.previous = Record(n)
    BY <2>2, RecordFields
  <2>4. n.version \in damaged /\ Done(n)
    BY <2>1, <2>2, <2>3, ManifestFields DEF RecordOrder, Done
  <2>. QED  BY <1>1, <2>1, <2>4 DEF BeyondRepair, Done
<1>8. CASE Retiring(m) /\ Quarantine
  <2>1. m = m0 /\ Record(m) \notin Recorded
        /\ saved' = [saved EXCEPT !.quarantined = @ \cup {v0}]
    BY <1>8 DEF Retiring, Quarantine, Return, Goto
  <2>2. /\ saved'.current = saved.current /\ saved'.previous = saved.previous
        /\ m.version \in saved'.quarantined
    BY <2>1 DEF TypeOK, States, v0, m0
  <2>3. Retired(m)'
    BY <2>1, <2>2 DEF Retired
  <2>. QED  BY <2>3
<1>. QED  BY <1>3, <1>5, <1>6, <1>7, <1>8 DEF HealthInv

LEMMA HealthStep ==
  ASSUME VersionsUnique, Inv, IntactRecords, HealthInv, [Next]_vars PROVE HealthInv'
<1>. USE DEF Goto, Return, history
<1>1. CASE \E m \in Manifests, health \in BOOLEAN, now \in Instants : Begin(m, health, now)
  BY <1>1, HealthKept DEF Begin
<1>2. CASE Stage \/ (\E d \in Contents : Copy(d)) \/ Verify \/ VerifyFails
  BY <1>2, HealthKept DEF Stage, Copy, Verify, VerifyFails
<1>3. CASE Clear \/ Switch \/ Healthy
  BY <1>3, HealthKept DEF Clear, Switch, Healthy
<1>4. CASE Rollback \/ \E v \in Versions, d \in Contents \cup {None} : Damage(v, d)
  BY <1>4, HealthKept DEF Rollback, Damage
<1>5. CASE Interrupt
  <2>1. /\ sick' = sick \ {m0} /\ pc' = "idle" /\ saved' = saved /\ damaged' = damaged
    BY <1>5 DEF Interrupt
  <2>2. \A m \in sick' : Done(m)'
    BY <2>1 DEF HealthInv, Done
  <2>3. BeyondRepair => BeyondRepair'
    BY BeyondRepairStays
  <2>4. \A m \in sick' : Retired(m) => Retired(m)'
    BY <2>1 DEF Retired, Recorded
  <2>. QED  BY <2>1, <2>2, <2>3, <2>4 DEF HealthInv, Retiring
<1>6. CASE UNCHANGED vars
  BY <1>6 DEF vars, disk, HealthInv, Done, Retired, Retiring, BeyondRepair, Recorded, m0
<1>. QED
  BY <1>1, <1>2, <1>3, <1>4, <1>5, <1>6, SaveHealth, UnhealthyHealth, RetreatHealth
  DEF Next, Install

(* A version that failed its health check, where there was one to go back  *)
(* to, is quarantined and no longer current when the operation returns and *)
(* ever after, provided no version is published twice and nobody altered   *)
(* the installed files (lib.rs:363-364, 460-461).                          *)
THEOREM UnhealthyTheorem ==
  ASSUME VersionsUnique PROVE Spec => []UnhealthyRetired
<1>1. Init => Inv /\ IntactRecords /\ HealthInv
  BY InvInit DEF Init, IntactRecords, HealthInv
<1>2. Inv /\ IntactRecords /\ HealthInv /\ [Next]_vars =>
        (Inv /\ IntactRecords /\ HealthInv)'
  BY InvStep, IntactStep, HealthStep
<1>3. Inv /\ HealthInv => UnhealthyRetired
  <2>1. ASSUME Inv, NEW m \in sick, Retired(m)
        PROVE  m.version \in saved.quarantined /\ saved.current # Record(m)
    BY <2>1, ManifestFields, SickType DEF Retired, Recorded
  <2>. QED  BY <2>1 DEF HealthInv, UnhealthyRetired, BeyondRepair, Retiring
<1>. QED  BY <1>1, <1>2, <1>3, PTL DEF Spec
=============================================================================
