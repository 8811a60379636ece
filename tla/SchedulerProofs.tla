----------------------------- MODULE SchedulerProofs -----------------------------
(***************************************************************************)
(* Theorem about Scheduler, for any peers, sites, links and budgets.       *)
(***************************************************************************)
EXTENDS Scheduler, TLAPS

USE SchedulerAssumption

(* What a decision promises.                                               *)
Sound(d) ==
  /\ d.peer \in Eligible
  /\ d.local <=> IsLocal(d.peer)
  /\ strategy = "local_first" /\ ~d.local => LocalPeers = {}
  /\ (strategy \in {"lowest_latency", "highest_bandwidth"}
       \/ (strategy = "local_first" /\ ~d.local)) => d.latency < budget

SchedInv ==
  /\ peers \in [Peer -> Capabilities] /\ links \in SUBSET Links
  /\ budget \in Budgets /\ strategy \in Strategies
  /\ decision # NoPeer => Sound(decision)

-----------------------------------------------------------------------------
(* Each strategy keeps the promise.                                        *)

LEMMA LocalFirstSound ==
  ASSUME SchedInv, strategy = "local_first", NEW d \in LocalFirst
  PROVE  Sound(d)
<1>1. CASE LocalPeers # {}
  <2>1. PICK p \in LocalPeers : d = Choice(p, 1)
    BY <1>1 DEF LocalFirst
  <2>2. p \in Eligible /\ IsLocal(p)
    BY DEF LocalPeers
  <2>. QED  BY <2>1, <2>2 DEF Choice, Sound
<1>2. CASE LocalPeers = {}
  <2>1. PICK p \in Eligible : \E l \in BestLinks(peers[p].site) :
          CanTransfer(l) /\ d = Choice(p, l.latency)
    BY <1>2 DEF LocalFirst
  <2>2. PICK l \in BestLinks(peers[p].site) : CanTransfer(l) /\ d = Choice(p, l.latency)
    BY <2>1
  <2>3. l \in Links /\ l.latency \in Nat /\ l.bandwidth \in Nat \ {0} /\ budget \in Nat
    BY <2>2 DEF BestLinks, LinksTo, SchedInv
  <2>4. l.latency < budget
    <3>1. 0 < (budget - l.latency) * l.bandwidth
      BY <2>2, <2>3 DEF CanTransfer
    <3>. QED  BY <2>3, <3>1
  <2>. QED  BY <1>2, <2>2, <2>4 DEF Choice, Sound
<1>. QED  BY <1>1, <1>2

LEMMA MeasuredSound ==
  ASSUME SchedInv, strategy \in {"lowest_latency", "highest_bandwidth"},
         NEW d \in LowestLatency \cup HighestBandwidth
  PROVE  Sound(d)
<1>1. PICK c \in InBudget : d = Choice(c.peer, c.route.latency)
  BY DEF LowestLatency, HighestBandwidth
<1>2. c.peer \in Eligible /\ c.route.latency < budget
  BY DEF InBudget
<1>. QED  BY <1>1, <1>2 DEF Choice, Sound

LEMMA RoundRobinSound ==
  ASSUME SchedInv, strategy = "round_robin", NEW d \in RoundRobin
  PROVE  Sound(d)
<1>1. PICK p \in Eligible : \E n : d = Choice(p, n)
  BY DEF RoundRobin
<1>. QED  BY <1>1 DEF Choice, Sound

LEMMA ScheduleSound == ASSUME SchedInv, Schedule PROVE SchedInv'
<1>1. ASSUME NEW d \in Candidates PROVE Sound(d)
  <2>1. strategy \in Strategies
    BY DEF SchedInv
  <2>. QED  BY <1>1, <2>1, LocalFirstSound, MeasuredSound, RoundRobinSound
            DEF Candidates, Strategies
<1>2. decision' = NoPeer \/ Sound(decision')
  BY <1>1 DEF Schedule
<1>. QED  BY <1>2 DEF Schedule, SchedInv, Sound, Eligible, IsLocal, LocalPeers

(* The chosen peer is eligible, whichever strategy chose it and in         *)
(* whatever order the peers are looked at.                                 *)
THEOREM ScheduledPeerIsEligible == SchedSpec => []ScheduledPeerEligible
<1>1. SchedInit => SchedInv
  BY DEF SchedInit, SchedInv
<1>2. SchedInv /\ [Schedule]_schedVars => SchedInv'
  <2>1. SchedInv /\ UNCHANGED schedVars => SchedInv'
    BY DEF SchedInv, schedVars, Sound, Eligible, IsLocal, LocalPeers
  <2>. QED  BY <2>1, ScheduleSound
<1>3. SchedInv => ScheduledPeerEligible
  BY DEF SchedInv, Sound, ScheduledPeerEligible, Eligible, IsLocal, LocalPeers
<1>. QED  BY <1>1, <1>2, <1>3, PTL DEF SchedSpec
=============================================================================
