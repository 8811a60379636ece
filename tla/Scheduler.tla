-------------------------------- MODULE Scheduler --------------------------------
(***************************************************************************)
(* The locality-aware scheduler of hybridnode-core (scheduler.rs,          *)
(* topology.rs): which peer gets a piece of inference work, from a         *)
(* snapshot of the peers and the links between sites.  Peers are held in a *)
(* HashMap: wherever the code takes the first of several, any of them may  *)
(* come first.                                                             *)
(***************************************************************************)
EXTENDS Integers

CONSTANTS
  Peer,      (* peer ids, numbers in their alphabetical order               *)
  Site, Local,
  Links,     (* links from the local site: to, latency (ms), bandwidth      *)
             (* (Mbps)                                                      *)
  Size,      (* activation_size_mb                                          *)
  Budgets,   (* values of latency_budget_ms                                 *)
  NoPeer     (* None                                                        *)

ASSUME SchedulerAssumption ==
  /\ Peer \subseteq Nat /\ Local \in Site
  /\ Links \subseteq [to : Site, latency : Nat, bandwidth : Nat \ {0}]
  /\ Size \in Nat /\ Budgets \subseteq Nat
  /\ NoPeer \notin [peer : Peer, latency : Nat, local : BOOLEAN]

Strategies == {"local_first", "round_robin", "lowest_latency", "highest_bandwidth"}
Capabilities == [site : Site, holds : BOOLEAN, warranted : BOOLEAN,
                 reputation : 0 .. 1]

VARIABLES
  peers,      (* NodeTopology.peers                                         *)
  links,      (* NodeTopology.links                                         *)
  budget, strategy,
  decision    (* the result of schedule                                     *)

schedVars == <<peers, links, budget, strategy, decision>>

SchedTypeOK ==
  /\ peers \in [Peer -> Capabilities]
  /\ links \in SUBSET Links
  /\ budget \in Budgets /\ strategy \in Strategies
  /\ decision \in [peer : Peer, latency : Nat, local : BOOLEAN] \cup {NoPeer}

SchedInit ==
  /\ peers \in [Peer -> Capabilities]
  /\ links \in SUBSET Links
  /\ budget \in Budgets /\ strategy \in Strategies
  /\ decision = NoPeer

-----------------------------------------------------------------------------
(* Mutant of Eligible: warrants are not looked at.                         *)
Holding == {p \in Peer : peers[p].holds}

(* Peers that hold the model and have no active warrant.                   *)
Eligible == {p \in Peer : peers[p].holds /\ ~peers[p].warranted}

IsLocal(p) == peers[p].site = Local
LocalPeers == {p \in Eligible : IsLocal(p)}

(* best_link_to: the lowest latency, whatever the bandwidth.               *)
LinksTo(site) == {l \in links : l.to = site}
BestLinks(site) ==
  {l \in LinksTo(site) : \A m \in LinksTo(site) : l.latency <= m.latency}

(* can_transfer_within: size / bandwidth * 8000 + latency < budget         *)
CanTransfer(l) == 8000 * Size < (budget - l.latency) * l.bandwidth

Choice(p, latency) == [peer |-> p, latency |-> latency, local |-> IsLocal(p)]

(* The routes a strategy compares: the loopback of the site counts as 1 ms *)
(* and 25 Gbps.                                                            *)
Routes(p) ==
  IF IsLocal(p) THEN {[latency |-> 1, bandwidth |-> 25000]}
  ELSE {[latency |-> l.latency, bandwidth |-> l.bandwidth] :
          l \in BestLinks(peers[p].site)}

InBudget == {c \in [peer : Eligible, route : UNION {Routes(p) : p \in Eligible}] :
               c.route \in Routes(c.peer) /\ c.route.latency < budget}

(* schedule_local_first: the local peer with the best reputation, without  *)
(* a look at the budget, else any remote peer that fits.                   *)
LocalFirst ==
  IF LocalPeers # {}
  THEN {Choice(p, 1) : p \in {q \in LocalPeers :
          \A r \in LocalPeers : peers[r].reputation <= peers[q].reputation}}
  ELSE UNION {{Choice(p, l.latency) : l \in {k \in BestLinks(peers[p].site) :
                                               CanTransfer(k)}} : p \in Eligible}

LowestLatency ==
  {Choice(c.peer, c.route.latency) :
     c \in {d \in InBudget : \A e \in InBudget : d.route.latency <= e.route.latency}}

HighestBandwidth ==
  {Choice(c.peer, c.route.latency) :
     c \in {d \in InBudget : \A e \in InBudget : d.route.bandwidth >= e.route.bandwidth}}

(* schedule_round_robin: the first in the alphabet, without a look at the  *)
(* budget; 50 ms when there is no link.                                    *)
RoundRobin ==
  UNION {IF IsLocal(p) THEN {Choice(p, 1)}
         ELSE IF LinksTo(peers[p].site) = {} THEN {Choice(p, 50)}
         ELSE {Choice(p, l.latency) : l \in BestLinks(peers[p].site)} :
           p \in {q \in Eligible : \A r \in Eligible : q <= r}}

Candidates ==
  CASE strategy = "local_first" -> LocalFirst
    [] strategy = "lowest_latency" -> LowestLatency
    [] strategy = "highest_bandwidth" -> HighestBandwidth
    [] strategy = "round_robin" -> RoundRobin

(* schedule                                                                *)
Schedule ==
  /\ IF Candidates = {} THEN decision' = NoPeer ELSE decision' \in Candidates
  /\ UNCHANGED <<peers, links, budget, strategy>>

SchedSpec == SchedInit /\ [][Schedule]_schedVars

-----------------------------------------------------------------------------
(* A chosen peer holds the model and is under no warrant, whichever        *)
(* strategy chose it and in whatever order the map yields the peers.  Work *)
(* leaves the site under local-first only when nobody on the site can take *)
(* it, and a remote peer then, or under the measuring strategies, answers  *)
(* within the budget.                                                      *)
ScheduledPeerEligible ==
  decision # NoPeer =>
    LET p == peers[decision.peer]
    IN  /\ p.holds /\ ~p.warranted
        /\ decision.local <=> p.site = Local
        /\ strategy = "local_first" /\ ~decision.local =>
             \A q \in Peer : peers[q].holds /\ ~peers[q].warranted
                               => peers[q].site # Local
        /\ (strategy \in {"lowest_latency", "highest_bandwidth"}
             \/ (strategy = "local_first" /\ ~decision.local))
             => decision.latency < budget
=============================================================================
