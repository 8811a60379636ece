-------------------------------- MODULE MeshNode --------------------------------
(***************************************************************************)
(* The life of a daemon in the mesh: main.rs loads the identity, announces *)
(* the node, starts the heartbeat task, publishes the QUIC endpoint and    *)
(* serves the REST plane, where the identity can be rotated.  Peers see    *)
(* what get_available_nodes makes of it.                                   *)
(*                                                                         *)
(* Composes NodeIdentity (keys on disk) and AgentRegistry (the DHT).  A    *)
(* tick is 30 s, the heartbeat period; a beat that is due goes out, or is  *)
(* lost, before time passes.  A zome call is one step: it may fail before  *)
(* the conductor applied it or after (`applied` without `acked`).          *)
(***************************************************************************)
EXTENDS NodeIdentity, AgentRegistry

CONSTANTS Period   (* ticks between two heartbeats                          *)

ASSUME MeshAssumption ==
  /\ Agent = Node /\ PubKey = Key
  /\ Period \in 1 .. Window - 1

VARIABLES
  pc,         (* where main() is                                            *)
  key,        (* key[n]: the key of the running endpoint, NoKey when down   *)
  pending,    (* pending[n]: rotated keys whose announcement is under way   *)
  timer,      (* timer[n]: ticks to the next beat, Off without the task     *)
  announced,  (* history: the announcement of this run was acknowledged     *)
  fresh,      (* history: the latest beat of this run reached the DHT       *)
  deadAge     (* history: ticks since the daemon last ran, up to Window     *)

nodeVars == <<pc, key, pending, timer, announced, fresh, deadAge>>
meshVars == <<idVars, regVars, nodeVars>>

PC == {"down", "announce", "endpoint", "up"}
Off == Period + 1

MeshTypeOK ==
  /\ IdTypeOK /\ RegTypeOK
  /\ pc \in [Node -> PC]
  /\ key \in [Node -> Key \cup {NoKey}]
  /\ pending \in [Node -> SUBSET Key]
  /\ timer \in [Node -> 0 .. Off]
  /\ announced \in [Node -> BOOLEAN] /\ fresh \in [Node -> BOOLEAN]
  /\ deadAge \in [Node -> 0 .. Window]

MeshInit ==
  /\ IdInit /\ RegInit
  /\ pc = [n \in Node |-> "down"]
  /\ key = [n \in Node |-> NoKey]
  /\ pending = [n \in Node |-> {}]
  /\ timer = [n \in Node |-> Off]
  /\ announced = [n \in Node |-> FALSE]
  /\ fresh = [n \in Node |-> FALSE]
  /\ deadAge = [n \in Node |-> Window]

Goto(n, from, to) == pc[n] = from /\ pc' = [pc EXCEPT ![n] = to]

Running(n) == pc[n] # "down"
Beats(n) == timer[n] # Off

-----------------------------------------------------------------------------
(* main: a torn seed file ends it here.                                    *)
StartDaemon(n) ==
  /\ Goto(n, "down", "announce")
  /\ \E k \in Key : LoadIdentity(n, k) /\ key' = [key EXCEPT ![n] = k]
  /\ deadAge' = [deadAge EXCEPT ![n] = 0]
  /\ UNCHANGED <<regVars, pending, timer, announced, fresh>>

(* announce_capabilities lists no model and no endpoint.  An error is only *)
(* logged.  Then the heartbeat task starts; its first tick is immediate.   *)
AnnounceOwn(n, applied, acked) ==
  /\ acked => applied
  /\ Goto(n, "announce", "endpoint")
  /\ IF applied THEN Announce(n, key[n], FALSE, FALSE) ELSE UNCHANGED regVars
  /\ announced' = [announced EXCEPT ![n] = acked]
  /\ timer' = [timer EXCEPT ![n] = 0]
  /\ UNCHANGED <<idVars, key, pending, fresh, deadAge>>

(* update_quic_endpoint, whose error is only logged too.                   *)
PublishEndpoint(n, applied) ==
  /\ Goto(n, "endpoint", "up")
  /\ IF applied THEN UpdateQuicEndpoint(n) ELSE UNCHANGED regVars
  /\ UNCHANGED <<idVars, key, pending, timer, announced, fresh, deadAge>>

(* Mutant of Beat: the task ends at the first beat that is lost.           *)
BeatUntilError(n, ok) ==
  /\ timer[n] = 0
  /\ timer' = [timer EXCEPT ![n] = IF ok THEN Period ELSE Off]
  /\ IF ok THEN Heartbeat(n) ELSE UNCHANGED regVars
  /\ fresh' = [fresh EXCEPT ![n] = ok]
  /\ UNCHANGED <<idVars, pc, key, pending, announced, deadAge>>

(* run_heartbeat: an error is logged and the next tick tries again.        *)
Beat(n, ok) ==
  /\ timer[n] = 0
  /\ timer' = [timer EXCEPT ![n] = Period]
  /\ IF ok THEN Heartbeat(n) ELSE UNCHANGED regVars
  /\ fresh' = [fresh EXCEPT ![n] = ok]
  /\ UNCHANGED <<idVars, pc, key, pending, announced, deadAge>>

(* The daemon's own announcements list no model; a client of the zome-call *)
(* route publishes the node's record again with the model it serves.       *)
ListModel(n) ==
  /\ pc[n] = "up" /\ caps[n] # NoCaps
  /\ links[n] < MaxLinks
  /\ Announce(n, key[n], caps[n].endpoint, TRUE)
  /\ UNCHANGED <<idVars, nodeVars>>

-----------------------------------------------------------------------------
(* Mutant of Reannounce: the announcement keeps the published endpoint.    *)
ReannounceKeepingEndpoint(n, k, applied) ==
  /\ k \in pending[n]
  /\ pending' = [pending EXCEPT ![n] = @ \ {k}]
  /\ IF applied /\ caps[n] # NoCaps
     THEN Announce(n, k, caps[n].endpoint, FALSE) ELSE UNCHANGED regVars
  /\ UNCHANGED <<idVars, pc, key, timer, announced, fresh, deadAge>>

(* rotate_identity: the file first, the announcement afterwards.  Handlers *)
(* run concurrently, so several announcements may be under way.            *)
Rotate(n) ==
  /\ pc[n] = "up"
  /\ \E k \in Key :
       RotateFile(n, k) /\ pending' = [pending EXCEPT ![n] = @ \cup {k}]
  /\ UNCHANGED <<regVars, pc, key, timer, announced, fresh, deadAge>>

(* reannounce_pubkey announces detect_local_capabilities again: the record *)
(* has the new key and no endpoint.                                        *)
Reannounce(n, k, applied) ==
  /\ k \in pending[n]
  /\ pending' = [pending EXCEPT ![n] = @ \ {k}]
  /\ IF applied THEN Announce(n, k, FALSE, FALSE) ELSE UNCHANGED regVars
  /\ UNCHANGED <<idVars, pc, key, timer, announced, fresh, deadAge>>

-----------------------------------------------------------------------------
(* The process ends: a shutdown, a fatal error or a crash.                 *)
Down(n) ==
  /\ Running(n)
  /\ pc' = [pc EXCEPT ![n] = "down"]
  /\ key' = [key EXCEPT ![n] = NoKey]
  /\ pending' = [pending EXCEPT ![n] = {}]
  /\ timer' = [timer EXCEPT ![n] = Off]
  /\ announced' = [announced EXCEPT ![n] = FALSE]
  /\ fresh' = [fresh EXCEPT ![n] = FALSE]
  /\ UNCHANGED deadAge

Stop(n) == Down(n) /\ UNCHANGED <<idVars, regVars>>

(* ... inside fs::write of a rotation.                                     *)
CrashInWrite(n) ==
  /\ pc[n] = "up"
  /\ Down(n) /\ TearFile(n)
  /\ UNCHANGED <<regVars>>

(* 30 s pass.                                                              *)
Tick ==
  /\ \A n \in Node : timer[n] > 0
  /\ AgeBeats
  /\ timer' = [n \in Node |-> IF Beats(n) THEN timer[n] - 1 ELSE Off]
  /\ deadAge' = [n \in Node |->
                   IF Running(n) THEN 0 ELSE Older(deadAge[n], Window)]
  /\ UNCHANGED <<idVars, caps, links, pc, key, pending, announced, fresh>>

NodeStep(n) ==
  \/ StartDaemon(n)
  \/ \E applied, acked \in BOOLEAN : AnnounceOwn(n, applied, acked)
  \/ \E applied \in BOOLEAN : PublishEndpoint(n, applied)
  \/ \E ok \in BOOLEAN : Beat(n, ok)
  \/ ListModel(n)
  \/ Rotate(n)
  \/ \E k \in Key, applied \in BOOLEAN : Reannounce(n, k, applied)
  \/ Stop(n)
  \/ CrashInWrite(n)

MeshNext ==
  \/ \E n \in Node : NodeStep(n)
  \/ Tick

MeshSafety == MeshInit /\ [][MeshNext]_meshVars

(* Time goes on, however many restarts there are (strong fairness: a beat  *)
(* that is due holds Tick back for a moment), the heartbeat task runs when *)
(* its tick is due, and a conductor that is asked again and again accepts  *)
(* a heartbeat again and again.                                            *)
MeshFairness ==
  /\ SF_meshVars(Tick)
  /\ \A n \in Node :
       /\ WF_meshVars(\E ok \in BOOLEAN : Beat(n, ok))
       /\ SF_meshVars(Beat(n, TRUE))

MeshSpec == MeshSafety /\ MeshFairness

-----------------------------------------------------------------------------
(* A record a peer can dial carries the key the running endpoint presents, *)
(* whatever rotations, restarts and key stores did: a rotated key is       *)
(* published without an endpoint until the restart.  Only once this run's  *)
(* announcement was acknowledged: update_quic_endpoint otherwise puts the  *)
(* address into the record of an earlier run.                              *)
RecordConnectable ==
  \A n \in Node : announced[n] /\ caps[n].endpoint => caps[n].key = key[n]

(* A daemon that stopped leaves get_available_nodes within the window.     *)
DeadNodeLeaves == \A n \in Node : Available(n) => deadAge[n] < Window

(* A daemon whose latest beat arrived counts as recent until after the     *)
(* next one is due: it disappears only when a beat is lost.                *)
BeatKeepsNode == \A n \in Node : fresh[n] => RecentBeat(n)

(* However many heartbeats are lost, a daemon that stays up and serves the *)
(* model comes back to the list again and again.                           *)
BeatingNodeReturns ==
  \A n \in Node :
    <>[](pc[n] = "up" /\ links[n] > 0) => []<>Available(n)
=============================================================================
