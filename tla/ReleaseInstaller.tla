---------------------------- MODULE ReleaseInstaller ----------------------------
(***************************************************************************)
(* The installer of signed releases (spike-release/src/lib.rs): one        *)
(* process that checks a manifest and a downloaded artifact, stages the    *)
(* artifact, switches the version's directory, records the installation in *)
(* state.json, runs a health check and rolls back when it fails.           *)
(*                                                                         *)
(* A step is one change of the file system.  The process may stop between  *)
(* any two of them (a crash, or an I/O error that install returns with     *)
(* `?`); what it had written stays.  state.json is replaced by a rename,   *)
(* so saving it is a single step.                                          *)
(***************************************************************************)
EXTENDS Integers, FiniteSets

CONSTANTS
  Manifests,  (* manifests signed by a trusted key for this target            *)
  Contents,   (* what a file can hold, as told apart by size and SHA-256      *)
  Instants,   (* values of now_unix                                           *)
  Skew,       (* CLOCK_SKEW_SECS                                              *)
  MaxFaults,  (* interruptions and damages in a behaviour (bounds the model)  *)
  None        (* no file, no record, no sequence yet                          *)

ASSUME InstallerAssumption ==
  /\ Manifests \subseteq [version : Nat, seq : Nat, artifact : Contents,
                          issued : Int, expires : Int]
  /\ Instants \subseteq Int /\ Skew \in Nat /\ MaxFaults \in Nat
  /\ None \notin Contents /\ None \notin Nat
  /\ None \notin [version : Nat, seq : Nat, artifact : Contents]

Versions == {m.version : m \in Manifests}

VARIABLES
  live,     (* versions/<v>/: the artifact it holds                           *)
  staging,  (* versions/.staging-<v>/: the artifact it holds                  *)
  saved,    (* state.json                                                     *)
  pc,       (* next step of the running operation                             *)
  op,       (* its manifest, and whether it runs a health check               *)
  faults,   (* interruptions and damages so far                               *)
  damaged,  (* history: versions whose files were altered behind its back     *)
  sick      (* history: manifests whose health check failed while there was   *)
            (* a previous version, and whose operation was not interrupted    *)

disk == <<live, staging>>
history == <<faults, damaged, sick>>
vars == <<disk, saved, pc, op, history>>

(* InstalledRecord and InstallerState for the one target.                  *)
Record(m) == [version |-> m.version, seq |-> m.seq, artifact |-> m.artifact]
Records == {Record(m) : m \in Manifests}
States == [seq : Nat \cup {None}, installed : Versions \cup {None},
           current : Records \cup {None}, previous : Records \cup {None},
           quarantined : SUBSET Versions]

PC == {"idle", "stage", "copy", "verify", "clear", "switch", "save",
       "health", "rollback", "quarantine"}

TypeOK ==
  /\ live \in [Versions -> Contents \cup {None}]
  /\ staging \in [Versions -> Contents \cup {None}]
  /\ saved \in States
  /\ pc \in PC
  /\ op \in [m : Manifests \cup {None}, health : BOOLEAN]
  /\ pc # "idle" => op.m \in Manifests
  /\ faults \in Nat /\ damaged \subseteq Versions /\ sick \subseteq Manifests

NoOp == [m |-> None, health |-> FALSE]

Init ==
  /\ live = [v \in Versions |-> None]
  /\ staging = [v \in Versions |-> None]
  /\ saved = [seq |-> None, installed |-> None, current |-> None,
              previous |-> None, quarantined |-> {}]
  /\ pc = "idle" /\ op = NoOp
  /\ faults = 0 /\ damaged = {} /\ sick = {}

-----------------------------------------------------------------------------
m0 == op.m
v0 == op.m.version

Goto(from, to) == pc = from /\ pc' = to

(* The operation returns.                                                  *)
Return(from) == Goto(from, "idle") /\ op' = NoOp

(* Mutant of Accepts: a manifest may be installed again.                   *)
AcceptsAgain(m, now) ==
  /\ m.issued <= now + Skew /\ now < m.expires
  /\ saved.seq # None => m.seq >= saved.seq
  /\ saved.installed # None => m.version >= saved.installed

(* verify_manifest for a manifest whose key, signature, target and content *)
(* are right: validity window, strictly increasing sequence, no downgrade. *)
Accepts(m, now) ==
  /\ m.issued <= now + Skew /\ now < m.expires
  /\ saved.seq # None => m.seq > saved.seq
  /\ saved.installed # None => m.version >= saved.installed

(* install and install_with_health_check, once the manifest and the        *)
(* downloaded artifact are verified.  A refusal changes nothing.           *)
Begin(m, health, now) ==
  /\ Goto("idle", "stage")
  /\ Accepts(m, now)
  /\ op' = [m |-> m, health |-> health]
  /\ UNCHANGED <<disk, saved, history>>

(* Mutant of Stage: the version's directory is cleared as well.            *)
StageClears ==
  /\ Goto("stage", "copy")
  /\ staging' = [staging EXCEPT ![v0] = None]
  /\ live' = [live EXCEPT ![v0] = None]
  /\ UNCHANGED <<saved, op, history>>

(* A staging directory that an interrupted install left is removed first.  *)
Stage ==
  /\ Goto("stage", "copy")
  /\ staging' = [staging EXCEPT ![v0] = None]
  /\ UNCHANGED <<live, saved, op, history>>

(* fs::copy: the downloaded file may have changed since it was verified.   *)
Copy(d) ==
  /\ Goto("copy", "verify")
  /\ staging' = [staging EXCEPT ![v0] = d]
  /\ UNCHANGED <<live, saved, op, history>>

(* verify_artifact against a manifest or a record.                         *)
Intact(content, r) == content = r.artifact

(* Mutant of Verify: the copy is trusted.                                  *)
VerifyTrusting ==
  /\ Goto("verify", "clear") /\ UNCHANGED op
  /\ UNCHANGED <<disk, saved, history>>

Verify ==
  /\ Goto("verify", "clear") /\ UNCHANGED op
  /\ Intact(staging[v0], m0)
  /\ UNCHANGED <<disk, saved, history>>

VerifyFails ==
  /\ Return("verify")
  /\ ~Intact(staging[v0], m0)
  /\ UNCHANGED <<disk, saved, history>>

Clear ==
  /\ Goto("clear", "switch")
  /\ live' = [live EXCEPT ![v0] = None]
  /\ UNCHANGED <<staging, saved, op, history>>

Switch ==
  /\ Goto("switch", "save")
  /\ live' = [live EXCEPT ![v0] = staging[v0]]
  /\ staging' = [staging EXCEPT ![v0] = None]
  /\ damaged' = damaged \ {v0}
  /\ UNCHANGED <<saved, op, faults, sick>>

(* Mutant of Installed: the manifest is stored in place of the record.     *)
InstalledManifest(m) ==
  [saved EXCEPT !.seq = m.seq, !.installed = m.version,
                !.previous = saved.current, !.current = m]

(* The state after the installation of a manifest, and after a rollback.   *)
Installed(m) ==
  [saved EXCEPT !.seq = m.seq, !.installed = m.version,
                !.previous = saved.current, !.current = Record(m)]

(* Mutant of RolledBack: the sequence goes back with the version.          *)
RolledBackSequence ==
  [saved EXCEPT !.seq = saved.previous.seq, !.installed = saved.previous.version,
                !.current = saved.previous, !.previous = None]

RolledBack ==
  [saved EXCEPT !.installed = saved.previous.version,
                !.current = saved.previous, !.previous = None]

Save ==
  /\ \/ op.health /\ Goto("save", "health") /\ UNCHANGED op
     \/ ~op.health /\ Return("save")
  /\ saved' = Installed(m0)
  /\ UNCHANGED <<disk, history>>

Healthy ==
  /\ op.health /\ Return("health")
  /\ UNCHANGED <<disk, saved, history>>

Unhealthy ==
  /\ Goto("health", "rollback")
  /\ sick' = IF saved.previous = None THEN sick ELSE sick \cup {m0}
  /\ UNCHANGED <<disk, saved, op, faults, damaged>>

(* Mutant of Restorable: the files of the previous version are trusted.    *)
RestorableBlindly == saved.previous # None

(* There is a previous version and its file is still the recorded one.     *)
Restorable ==
  /\ saved.previous # None
  /\ Intact(live[saved.previous.version], saved.previous)

(* The rollback of install_with_health_check, whose error returns at once. *)
AutoRollback ==
  /\ Goto("rollback", "quarantine")
  /\ Restorable
  /\ saved' = RolledBack
  /\ UNCHANGED <<disk, op, history>>

AutoRollbackFails ==
  /\ Return("rollback")
  /\ ~Restorable
  /\ UNCHANGED <<disk, saved, history>>

(* Mutant of Quarantine: the second save is forgotten.                     *)
QuarantineUnsaved ==
  /\ Return("quarantine")
  /\ UNCHANGED <<disk, saved, history>>

Quarantine ==
  /\ Return("quarantine")
  /\ saved' = [saved EXCEPT !.quarantined = @ \cup {v0}]
  /\ UNCHANGED <<disk, history>>

(* rollback called by itself.                                              *)
Rollback ==
  /\ pc = "idle" /\ Restorable
  /\ saved' = RolledBack
  /\ UNCHANGED <<disk, pc, op, history>>

(* The process is killed, or a file operation fails.                       *)
Interrupt ==
  /\ pc # "idle" /\ faults < MaxFaults
  /\ pc' = "idle" /\ op' = NoOp
  /\ faults' = faults + 1
  /\ sick' = sick \ {m0}
  /\ UNCHANGED <<disk, saved, damaged>>

(* The installed file of a version is altered between two operations.      *)
Damage(v, d) ==
  /\ pc = "idle" /\ faults < MaxFaults
  /\ live[v] # None /\ d # live[v]
  /\ live' = [live EXCEPT ![v] = d]
  /\ faults' = faults + 1
  /\ damaged' = damaged \cup {v}
  /\ UNCHANGED <<staging, saved, pc, op, sick>>

Install ==
  \/ \E m \in Manifests, health \in BOOLEAN, now \in Instants : Begin(m, health, now)
  \/ Stage \/ (\E d \in Contents : Copy(d)) \/ Verify \/ VerifyFails
  \/ Clear \/ Switch \/ Save
  \/ Healthy \/ Unhealthy \/ AutoRollback \/ AutoRollbackFails \/ Quarantine

Next ==
  \/ Install \/ Rollback \/ Interrupt
  \/ \E v \in Versions, d \in Contents \cup {None} : Damage(v, d)

Spec == Init /\ [][Next]_vars

-----------------------------------------------------------------------------
(* Properties                                                              *)

(* No two manifests are published for one version.  The publisher's duty:  *)
(* the installer does not check it (lib.rs:303-311).                       *)
VersionsUnique == \A m, n \in Manifests : m.version = n.version => m = n

(* Wherever the process stops, the versions recorded as current and as     *)
(* previous are on disk with the very artifact of their manifest, unless   *)
(* someone else altered them (lib.rs:409-411, 442-456).  It takes          *)
(* VersionsUnique.                                                         *)
IntactRecords ==
  \A r \in {saved.current, saved.previous} \ {None} :
    r.version \notin damaged => Intact(live[r.version], r)

(* Files that are installed are touched only once a verified replacement   *)
(* is staged: a verification that fails has changed nothing                *)
(* (lib.rs:410-411, 437-442).                                              *)
ReplacedWhenVerified ==
  [][\A v \in Versions :
       live[v] # None /\ live'[v] # live[v] /\ v \notin damaged' =>
         pc # "idle" /\ v = v0 /\ Intact(staging[v], m0)]_vars

(* The accepted sequence only grows, and only when the version it belongs  *)
(* to is on disk and current: an interrupted installation may be tried     *)
(* again and a completed one may not (lib.rs:223-224, 482-484).            *)
SequenceNeverReused ==
  [][saved'.seq # saved.seq =>
       /\ saved.seq = None \/ saved'.seq > saved.seq
       /\ saved'.current # None /\ saved'.current.seq = saved'.seq
       /\ Intact(live[saved'.current.version], saved'.current)]_vars

(* A rollback makes current an older record, whose file is intact at that  *)
(* moment even if somebody altered files meanwhile (lib.rs:482-488).       *)
RollbackVerified ==
  [][saved'.current # saved.current /\ saved'.seq = saved.seq =>
       /\ saved'.current = saved.previous /\ saved.previous # None
       /\ saved'.current.seq < saved.current.seq
       /\ Intact(live[saved'.current.version], saved'.current)]_vars

(* A version that failed its health check, where there was one to go back  *)
(* to, is quarantined and no longer current when the operation returns     *)
(* (lib.rs:363-364, 460-461).                                              *)
UnhealthyRetired ==
  pc = "idle" /\ damaged = {} => \A m \in sick :
    m.version \in saved.quarantined /\ saved.current # Record(m)
=============================================================================
