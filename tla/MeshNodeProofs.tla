----------------------------- MODULE MeshNodeProofs -----------------------------
(***************************************************************************)
(* Theorems about MeshNode, for any set of nodes, window and heartbeat     *)
(* period.                                                                 *)
(***************************************************************************)
EXTENDS MeshNode, TLAPS

USE IdentityAssumption, RegistryAssumption, MeshAssumption

-----------------------------------------------------------------------------
(* The inductive invariant.                                                *)

(* A node and the time that passed since it ran.                           *)
Alive(n) ==
  /\ Running(n) => deadAge[n] = 0
  /\ Beats(n) => pc[n] \in {"endpoint", "up"}
  /\ beatAge[n] < Window => deadAge[n] <= beatAge[n]

(* The latest beat and the timer of the next one.                          *)
OnTime(n) ==
  fresh[n] => timer[n] \in 0 .. Period /\ beatAge[n] = Period - timer[n]

(* The record of an announced node and its key.                            *)
Dialable(n) ==
  /\ pending[n] # {} => pc[n] = "up"
  /\ announced[n] =>
       /\ pc[n] \in {"endpoint", "up"} /\ caps[n] # NoCaps
       /\ caps[n].endpoint \/ pc[n] = "endpoint" => caps[n].key = key[n]

MeshInv ==
  /\ MeshTypeOK
  /\ \A n \in Node : Alive(n) /\ OnTime(n) /\ Dialable(n)

-----------------------------------------------------------------------------
(* Types                                                                   *)

LEMMA IdentityType ==
  ASSUME IdTypeOK, NEW n \in Node, NEW k \in Key,
         LoadIdentity(n, k) \/ RotateFile(n, k)
  PROVE  IdTypeOK'
<1>. k \in 0 .. MaxKey  BY DEF Key
<1>1. CASE LoadKeyring(n, k) \/ LoadFile(n, k)
  BY <1>1 DEF LoadKeyring, LoadFile, idVars, IdTypeOK
<1>2. CASE GenerateBoth(n, k)
  BY <1>2 DEF GenerateBoth, Generate, IdTypeOK
<1>3. CASE GenerateFile(n, k) \/ RotateFile(n, k)
  BY <1>3 DEF GenerateFile, RotateFile, Generate, IdTypeOK
<1>. QED  BY <1>1, <1>2, <1>3 DEF LoadIdentity

LEMMA TearType == ASSUME IdTypeOK, NEW n \in Node, TearFile(n) PROVE IdTypeOK'
BY DEF TearFile, IdTypeOK

LEMMA AnnounceType ==
  ASSUME RegTypeOK, NEW n \in Node, NEW k \in PubKey, NEW e \in BOOLEAN,
         caps' = [caps EXCEPT ![n] = [key |-> k, endpoint |-> e]]
  PROVE  /\ caps' \in [Agent -> Record \cup {NoCaps}]
         /\ caps'[n] = [key |-> k, endpoint |-> e] /\ caps'[n] # NoCaps
         /\ \A m \in Node \ {n} : caps'[m] = caps[m]
<1>1. [key |-> k, endpoint |-> e] \in Record /\ [key |-> k, endpoint |-> e] # NoCaps
  BY DEF Record
<1>. QED  BY <1>1 DEF RegTypeOK

(* An announcement that lists no model.                                    *)
LEMMA QuietAnnounce ==
  ASSUME RegTypeOK, NEW n \in Node, NEW k, Announce(n, k, FALSE, FALSE)
  PROVE  /\ RegTypeOK' /\ beatAge' = beatAge
         /\ caps'[n] = [key |-> k, endpoint |-> FALSE] /\ caps'[n] # NoCaps
         /\ \A m \in Node \ {n} : caps'[m] = caps[m]
<1>1. k \in PubKey /\ caps' = [caps EXCEPT ![n] = [key |-> k, endpoint |-> FALSE]]
  BY DEF Announce
<1>2. links' = links /\ beatAge' = beatAge
  <2>1. links' = [links EXCEPT ![n] = links[n]]
    BY DEF Announce
  <2>. QED  BY <2>1 DEF Announce, RegTypeOK
<1>3. FALSE \in BOOLEAN
  OBVIOUS
<1>4. /\ caps' \in [Agent -> Record \cup {NoCaps}]
      /\ caps'[n] = [key |-> k, endpoint |-> FALSE] /\ caps'[n] # NoCaps
      /\ \A m \in Node \ {n} : caps'[m] = caps[m]
  BY <1>1, <1>3, AnnounceType
<1>. QED  BY <1>2, <1>4 DEF RegTypeOK

LEMMA HeartbeatType == ASSUME RegTypeOK, NEW n \in Node, Heartbeat(n) PROVE RegTypeOK'
BY DEF Heartbeat, RegTypeOK

LEMMA EndpointType ==
  ASSUME RegTypeOK, NEW n \in Node, UpdateQuicEndpoint(n)
  PROVE  /\ RegTypeOK'
         /\ caps[n] # NoCaps /\ caps'[n] # NoCaps
         /\ caps'[n].key = caps[n].key
         /\ \A m \in Node \ {n} : caps'[m] = caps[m]
         /\ beatAge' = beatAge
<1>1. caps[n] \in Record
  BY DEF UpdateQuicEndpoint, RegTypeOK
<1>2. [caps[n] EXCEPT !.endpoint = TRUE] \in Record
  BY <1>1 DEF Record
<1>3. caps' = [caps EXCEPT ![n] = [caps[n] EXCEPT !.endpoint = TRUE]]
  BY DEF UpdateQuicEndpoint
<1>4. caps' \in [Agent -> Record \cup {NoCaps}]
  BY <1>2, <1>3 DEF RegTypeOK
<1>5. caps'[n] = [caps[n] EXCEPT !.endpoint = TRUE]
  BY <1>3 DEF RegTypeOK
<1>6. caps'[n].key = caps[n].key
  BY <1>1, <1>5 DEF Record
<1>. QED  BY <1>2, <1>3, <1>4, <1>5, <1>6 DEF UpdateQuicEndpoint, RegTypeOK, Record

-----------------------------------------------------------------------------
(* One lemma for each step.                                                *)

LEMMA InitInv == MeshInit => MeshInv
<1>1. MeshInit => MeshTypeOK
  BY DEF MeshInit, IdInit, RegInit, MeshTypeOK, IdTypeOK, RegTypeOK, PC, Off
<1>2. ASSUME MeshInit, NEW n \in Node PROVE Alive(n) /\ OnTime(n) /\ Dialable(n)
  <2>1. Alive(n)
    BY <1>2 DEF MeshInit, RegInit, Alive, Running, Beats
  <2>2. ~fresh[n] /\ ~announced[n]
    BY <1>2, Zenon DEF MeshInit
  <2>3. pending[n] = {}
    BY <1>2 DEF MeshInit
  <2>. QED  BY <2>1, <2>2, <2>3 DEF OnTime, Dialable
<1>. QED  BY <1>1, <1>2 DEF MeshInv

LEMMA StartInv == ASSUME MeshInv, NEW n \in Node, StartDaemon(n) PROVE MeshInv'
<1>1. IdTypeOK' /\ key' \in [Node -> Key \cup {NoKey}]
  BY IdentityType DEF StartDaemon, MeshInv, MeshTypeOK
<1>2. MeshTypeOK'
  BY <1>1 DEF StartDaemon, Goto, MeshInv, MeshTypeOK, RegTypeOK, regVars, PC
<1>3. ASSUME NEW m \in Node PROVE Alive(m)' /\ OnTime(m)' /\ Dialable(m)'
  BY <1>3 DEF StartDaemon, Goto, MeshInv, MeshTypeOK, RegTypeOK, Alive, OnTime,
              Dialable, Running, Beats, regVars, PC, Off
<1>. QED  BY <1>2, <1>3 DEF MeshInv

LEMMA AnnounceOwnInv ==
  ASSUME MeshInv, NEW n \in Node, NEW applied \in BOOLEAN, NEW acked \in BOOLEAN,
         AnnounceOwn(n, applied, acked)
  PROVE  MeshInv'
<1>1. /\ RegTypeOK' /\ beatAge' = beatAge
      /\ \A m \in Node \ {n} : caps'[m] = caps[m]
      /\ acked => caps'[n] = [key |-> key[n], endpoint |-> FALSE] /\ caps'[n] # NoCaps
  <2>1. CASE applied
    BY <2>1, QuietAnnounce DEF AnnounceOwn, MeshInv, MeshTypeOK
  <2>2. CASE ~applied
    BY <2>2 DEF AnnounceOwn, MeshInv, MeshTypeOK, RegTypeOK, regVars
  <2>. QED  BY <2>1, <2>2
<1>2. MeshTypeOK'
  BY <1>1 DEF AnnounceOwn, Goto, MeshInv, MeshTypeOK, IdTypeOK, idVars, PC, Off
<1>3. ASSUME NEW m \in Node PROVE Alive(m)' /\ Dialable(m)'
  BY <1>1, <1>3 DEF AnnounceOwn, Goto, MeshInv, MeshTypeOK, RegTypeOK, Alive,
                    Dialable, Running, Beats, PC, Off
<1>4. ASSUME NEW m \in Node PROVE OnTime(m)'
  <2>1. fresh[n] => FALSE
    BY DEF AnnounceOwn, Goto, MeshInv, OnTime, Alive, Off, Beats
  <2>. QED  BY <1>1, <2>1 DEF AnnounceOwn, MeshInv, MeshTypeOK, OnTime
<1>. QED  BY <1>2, <1>3, <1>4 DEF MeshInv

LEMMA PublishInv ==
  ASSUME MeshInv, NEW n \in Node, NEW applied \in BOOLEAN, PublishEndpoint(n, applied)
  PROVE  MeshInv'
<1>1. /\ RegTypeOK' /\ beatAge' = beatAge
      /\ \A m \in Node \ {n} : caps'[m] = caps[m]
      /\ caps[n] # NoCaps => caps'[n] # NoCaps /\ caps'[n].key = caps[n].key
  <2>1. CASE applied
    BY <2>1, EndpointType DEF PublishEndpoint, MeshInv, MeshTypeOK
  <2>2. CASE ~applied
    BY <2>2 DEF PublishEndpoint, MeshInv, MeshTypeOK, RegTypeOK, regVars
  <2>. QED  BY <2>1, <2>2
<1>2. MeshTypeOK'
  BY <1>1 DEF PublishEndpoint, Goto, MeshInv, MeshTypeOK, IdTypeOK, idVars, PC
<1>3. ASSUME NEW m \in Node PROVE Alive(m)' /\ OnTime(m)' /\ Dialable(m)'
  BY <1>1, <1>3 DEF PublishEndpoint, Goto, MeshInv, MeshTypeOK, Alive, OnTime,
                    Dialable, Running, Beats, PC
<1>. QED  BY <1>2, <1>3 DEF MeshInv

LEMMA BeatInv ==
  ASSUME MeshInv, NEW n \in Node, NEW ok \in BOOLEAN, Beat(n, ok)
  PROVE  MeshInv'
<1>1. RegTypeOK' /\ caps' = caps /\ beatAge' = IF ok THEN [beatAge EXCEPT ![n] = 0] ELSE beatAge
  <2>1. CASE ok
    BY <2>1, HeartbeatType DEF Beat, Heartbeat, MeshInv, MeshTypeOK
  <2>2. CASE ~ok
    BY <2>2 DEF Beat, MeshInv, MeshTypeOK, RegTypeOK, regVars
  <2>. QED  BY <2>1, <2>2
<1>2. MeshTypeOK'
  BY <1>1 DEF Beat, MeshInv, MeshTypeOK, IdTypeOK, idVars, Off
<1>3. deadAge[n] = 0 /\ Running(n)
  BY DEF Beat, MeshInv, MeshTypeOK, Alive, Beats, Running, Off
<1>4. ASSUME NEW m \in Node PROVE Alive(m)' /\ Dialable(m)'
  BY <1>1, <1>3, <1>4 DEF Beat, MeshInv, MeshTypeOK, RegTypeOK, Alive, Dialable,
                          Running, Beats, Off
<1>5. ASSUME NEW m \in Node PROVE OnTime(m)'
  BY <1>1, <1>5 DEF Beat, MeshInv, MeshTypeOK, RegTypeOK, OnTime, Off
<1>. QED  BY <1>2, <1>4, <1>5 DEF MeshInv

LEMMA ListInv == ASSUME MeshInv, NEW n \in Node, ListModel(n) PROVE MeshInv'
<1>1. caps[n] \in Record /\ caps[n].endpoint \in BOOLEAN
  BY DEF ListModel, MeshInv, MeshTypeOK, RegTypeOK, Record
<1>2. /\ RegTypeOK' /\ beatAge' = beatAge
      /\ caps'[n] = [key |-> key[n], endpoint |-> caps[n].endpoint] /\ caps'[n] # NoCaps
      /\ \A m \in Node \ {n} : caps'[m] = caps[m]
  <2>1. /\ key[n] \in PubKey
        /\ caps' = [caps EXCEPT ![n] = [key |-> key[n], endpoint |-> caps[n].endpoint]]
    BY DEF ListModel, Announce
  <2>2. links' = [links EXCEPT ![n] = links[n] + 1] /\ beatAge' = beatAge
    BY DEF ListModel, Announce
  <2>3. links' \in [Agent -> 0 .. MaxLinks]
    BY <2>2 DEF ListModel, MeshInv, MeshTypeOK, RegTypeOK
  <2>. QED  BY <1>1, <2>1, <2>2, <2>3, AnnounceType DEF MeshInv, MeshTypeOK, RegTypeOK
<1>3. MeshTypeOK'
  BY <1>2 DEF ListModel, MeshInv, MeshTypeOK, IdTypeOK, idVars,
              nodeVars
<1>4. ASSUME NEW m \in Node PROVE Alive(m)' /\ OnTime(m)' /\ Dialable(m)'
  BY <1>2, <1>4 DEF ListModel, MeshInv, MeshTypeOK, RegTypeOK, Alive, OnTime, Dialable,
                    Running, Beats, nodeVars
<1>. QED  BY <1>3, <1>4 DEF MeshInv

LEMMA RotateInv == ASSUME MeshInv, NEW n \in Node, Rotate(n) PROVE MeshInv'
<1>1. IdTypeOK' /\ pending' \in [Node -> SUBSET Key]
  BY IdentityType DEF Rotate, MeshInv, MeshTypeOK
<1>2. MeshTypeOK'
  BY <1>1 DEF Rotate, MeshInv, MeshTypeOK, RegTypeOK, regVars
<1>3. ASSUME NEW m \in Node PROVE Alive(m)' /\ OnTime(m)' /\ Dialable(m)'
  BY <1>3 DEF Rotate, MeshInv, MeshTypeOK, Alive, OnTime, Dialable, Running, Beats,
              regVars
<1>. QED  BY <1>2, <1>3 DEF MeshInv

LEMMA ReannounceInv ==
  ASSUME MeshInv, NEW n \in Node, NEW k \in Key, NEW applied \in BOOLEAN,
         Reannounce(n, k, applied)
  PROVE  MeshInv'
<1>1. /\ RegTypeOK' /\ beatAge' = beatAge
      /\ \A m \in Node \ {n} : caps'[m] = caps[m]
      /\ caps[n] # NoCaps => caps'[n] # NoCaps
      /\ caps'[n] = caps[n] \/ caps'[n] = [key |-> k, endpoint |-> FALSE]
  <2>1. CASE applied
    BY <2>1, QuietAnnounce DEF Reannounce, MeshInv, MeshTypeOK
  <2>2. CASE ~applied
    BY <2>2 DEF Reannounce, MeshInv, MeshTypeOK, RegTypeOK, regVars
  <2>. QED  BY <2>1, <2>2
<1>2. MeshTypeOK'
  BY <1>1 DEF Reannounce, MeshInv, MeshTypeOK, IdTypeOK, idVars
<1>3. ASSUME NEW m \in Node PROVE Alive(m)' /\ OnTime(m)' /\ Dialable(m)'
  <2>1. pc[n] = "up"
    BY DEF Reannounce, MeshInv, Dialable
  <2>. QED  BY <1>1, <1>3, <2>1 DEF Reannounce, MeshInv, MeshTypeOK, Alive, OnTime,
                                    Dialable, Running, Beats
<1>. QED  BY <1>2, <1>3 DEF MeshInv

LEMMA DownInv ==
  ASSUME MeshInv, NEW n \in Node, Down(n), IdTypeOK', UNCHANGED regVars
  PROVE  MeshInv'
<1>1. MeshTypeOK'
  BY DEF Down, MeshInv, MeshTypeOK, RegTypeOK, regVars, PC, Off
<1>2. ASSUME NEW m \in Node PROVE Alive(m)' /\ OnTime(m)' /\ Dialable(m)'
  BY <1>2 DEF Down, MeshInv, MeshTypeOK, Alive, OnTime, Dialable, Running, Beats,
              regVars, Off
<1>. QED  BY <1>1, <1>2 DEF MeshInv

LEMMA TickInv == ASSUME MeshInv, Tick PROVE MeshInv'
<1>1. deadAge' \in [Node -> 0 .. Window]
  BY DEF Tick, Older, MeshInv, MeshTypeOK
<1>2. RegTypeOK' /\ caps' = caps
  BY DEF Tick, AgeBeats, Older, MeshInv, MeshTypeOK, RegTypeOK
<1>3. timer' \in [Node -> 0 .. Off]
  BY DEF Tick, Beats, MeshInv, MeshTypeOK, Off
<1>4. MeshTypeOK'
  BY <1>1, <1>2, <1>3 DEF Tick, MeshInv, MeshTypeOK, IdTypeOK, idVars
<1>5. ASSUME NEW n \in Node PROVE Alive(n)' /\ OnTime(n)' /\ Dialable(n)'
  <2>1. Alive(n)'
    BY <1>5 DEF Tick, AgeBeats, Older, MeshInv, MeshTypeOK, RegTypeOK, Alive, Running,
                Beats, Off
  <2>2. OnTime(n)'
    BY <1>5 DEF Tick, AgeBeats, Older, MeshInv, MeshTypeOK, RegTypeOK, OnTime, Beats, Off
  <2>3. Dialable(n)'
    BY <1>5 DEF Tick, MeshInv, Dialable
  <2>. QED  BY <2>1, <2>2, <2>3
<1>. QED  BY <1>4, <1>5 DEF MeshInv

LEMMA StepInv == ASSUME MeshInv, [MeshNext]_meshVars PROVE MeshInv'
<1>1. ASSUME NEW n \in Node, NodeStep(n) PROVE MeshInv'
  <2>1. CASE StartDaemon(n)
    BY <2>1, StartInv
  <2>2. CASE \E applied, acked \in BOOLEAN : AnnounceOwn(n, applied, acked)
    BY <2>2, AnnounceOwnInv
  <2>3. CASE \E applied \in BOOLEAN : PublishEndpoint(n, applied)
    BY <2>3, PublishInv
  <2>4. CASE \E ok \in BOOLEAN : Beat(n, ok)
    BY <2>4, BeatInv
  <2>5. CASE ListModel(n) \/ Rotate(n)
    BY <2>5, ListInv, RotateInv
  <2>6. CASE \E k \in Key, applied \in BOOLEAN : Reannounce(n, k, applied)
    BY <2>6, ReannounceInv
  <2>7. CASE Stop(n)
    BY <2>7, DownInv DEF Stop, MeshInv, MeshTypeOK, IdTypeOK, idVars
  <2>8. CASE CrashInWrite(n)
    BY <2>8, DownInv, TearType DEF CrashInWrite, MeshInv, MeshTypeOK
  <2>. QED  BY <1>1, <2>1, <2>2, <2>3, <2>4, <2>5, <2>6, <2>7, <2>8 DEF NodeStep
<1>2. CASE UNCHANGED meshVars
  BY <1>2 DEF meshVars, nodeVars, idVars, regVars, MeshInv, MeshTypeOK, IdTypeOK,
             RegTypeOK, Alive, OnTime, Dialable, Running, Beats
<1>. QED  BY <1>1, <1>2, TickInv DEF MeshNext

(* MeshInv is an invariant of every behaviour, fair or not.                *)
THEOREM MeshInvariant == MeshSafety => []MeshInv
<1>. QED  BY InitInv, StepInv, PTL DEF MeshSafety

-----------------------------------------------------------------------------
(* What follows from it.                                                   *)

(* The state of identity store, registry and daemons stays typed.          *)
THEOREM MeshTypeCorrect == MeshSpec => []MeshTypeOK
<1>1. MeshInv => MeshTypeOK
  BY DEF MeshInv
<1>. QED  BY <1>1, MeshInvariant, PTL DEF MeshSpec

(* An announced node's record with an endpoint has the endpoint's key.     *)
THEOREM RecordIsConnectable == MeshSpec => []RecordConnectable
<1>1. MeshInv => RecordConnectable
  BY DEF MeshInv, Dialable, RecordConnectable
<1>. QED  BY <1>1, MeshInvariant, PTL DEF MeshSpec

(* A node leaves get_available_nodes within the window of its last run.    *)
THEOREM DeadNodeIsDropped == MeshSpec => []DeadNodeLeaves
<1>1. ASSUME MeshInv, NEW n \in Node, Available(n) PROVE deadAge[n] < Window
  <2>1. deadAge[n] \in Nat /\ beatAge[n] \in Nat /\ deadAge[n] <= beatAge[n]
    BY <1>1 DEF Available, RecentBeat, MeshInv, MeshTypeOK, RegTypeOK, Alive
  <2>. QED  BY <1>1, <2>1 DEF Available, RecentBeat
<1>2. MeshInv => DeadNodeLeaves
  BY <1>1 DEF DeadNodeLeaves
<1>. QED  BY <1>2, MeshInvariant, PTL DEF MeshSpec

(* A node whose latest beat arrived is recent until it misses one.         *)
THEOREM BeatHolds == MeshSpec => []BeatKeepsNode
<1>1. MeshInv => BeatKeepsNode
  BY DEF MeshInv, MeshTypeOK, RegTypeOK, OnTime, BeatKeepsNode, RecentBeat
<1>. QED  BY <1>1, MeshInvariant, PTL DEF MeshSpec
=============================================================================
