----------------------------- MODULE AgentRegistry -----------------------------
(***************************************************************************)
(* The agent-registry zome (coordinator and integrity): what a node has    *)
(* published of itself in the DHT and what get_available_nodes makes of    *)
(* it.  Links are appended and the one with the latest timestamp counts,   *)
(* so the state keeps the latest capability record and the age of the      *)
(* latest heartbeat; links from the model's anchor add up.                 *)
(*                                                                         *)
(* Time is counted in ticks.  Ages stop growing at the value from which    *)
(* on they make no difference.                                             *)
(***************************************************************************)
EXTENDS Integers

CONSTANTS
  Agent,     (* agents of the DHT                                           *)
  PubKey,    (* transport keys a record may carry                           *)
  NoCaps,    (* no capability record                                        *)
  Window,    (* a heartbeat counts while it is younger: 60 s                *)
  MaxLinks   (* links of one model and agent (bounds the model)             *)

Record == [key : PubKey, endpoint : BOOLEAN]

ASSUME RegistryAssumption ==
  /\ Window \in Nat \ {0} /\ MaxLinks \in Nat
  /\ NoCaps \notin [key : PubKey, endpoint : BOOLEAN]

VARIABLES
  caps,     (* caps[a]: the latest capability record of a                   *)
  links,    (* links[a]: ModelToAgents links from the model's anchor to a   *)
  beatAge   (* beatAge[a]: age of its latest heartbeat; Window: too old or  *)
            (* none                                                         *)

regVars == <<caps, links, beatAge>>

RegTypeOK ==
  /\ caps \in [Agent -> Record \cup {NoCaps}]
  /\ links \in [Agent -> 0 .. MaxLinks]
  /\ beatAge \in [Agent -> 0 .. Window]

RegInit ==
  /\ caps = [a \in Agent |-> NoCaps]
  /\ links = [a \in Agent |-> 0]
  /\ beatAge = [a \in Agent |-> Window]

(* announce_capabilities: a new record, and one more link for each model   *)
(* the input lists, whether or not the anchor already points to the agent. *)
(* The integrity zome lets an agent publish only records and links of its  *)
(* own, and only with a well-formed key.                                   *)
Announce(a, k, hasEndpoint, listsModel) ==
  /\ k \in PubKey
  /\ caps' = [caps EXCEPT ![a] = [key |-> k, endpoint |-> hasEndpoint]]
  /\ links' = [links EXCEPT ![a] = IF listsModel THEN @ + 1 ELSE @]
  /\ UNCHANGED beatAge

(* heartbeat                                                               *)
Heartbeat(a) ==
  /\ beatAge' = [beatAge EXCEPT ![a] = 0]
  /\ UNCHANGED <<caps, links>>

(* update_quic_endpoint: updates the latest record, an error without one.  *)
UpdateQuicEndpoint(a) ==
  /\ caps[a] # NoCaps
  /\ caps' = [caps EXCEPT ![a].endpoint = TRUE]
  /\ UNCHANGED <<links, beatAge>>

(* Mutants of RecentBeat: no limit on the age, and one tick too strict.    *)
AnyBeat(a) == beatAge[a] <= Window
StrictBeat(a) == beatAge[a] + 1 < Window

RecentBeat(a) == beatAge[a] < Window

(* get_available_nodes: one summary for each link, so the agent occurs     *)
(* links[a] times when it is available at all.                             *)
Available(a) == links[a] > 0 /\ RecentBeat(a) /\ caps[a] # NoCaps

AvailableNodes == {a \in Agent : Available(a)}

Older(age, limit) == IF age < limit THEN age + 1 ELSE age

AgeBeats == beatAge' = [a \in Agent |-> Older(beatAge[a], Window)]
=============================================================================
