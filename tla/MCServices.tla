------------------------------- MODULE MCServices -------------------------------
(* Instance for TLC of the components that share no state: a behaviour       *)
(* exercises one of them (`part`) and leaves the others at rest, so that the *)
(* states add up instead of multiplying.                                     *)
EXTENDS ChatProxy, Blackboard, TrustZome, HybridNode, Scheduler

CONSTANTS
  net1, net2, admin   (* values of Network and Signer                        *)

VARIABLE part   (* the component this behaviour exercises                    *)

allVars == <<serveVars, boardVars, netVars, trustVars, nodeVars, schedVars, part>>

-----------------------------------------------------------------------------
(* A model that fits, one that is reduced twice, and the same with -1.       *)
MCSetups ==
  {[size |-> 5, ctx |-> 4096, vram |-> 8, layers |-> 32, gpu |-> TRUE],
   [size |-> 13, ctx |-> 8192, vram |-> 12, layers |-> 40, gpu |-> TRUE],
   [size |-> 13, ctx |-> 8192, vram |-> 12, layers |-> -1, gpu |-> TRUE]}

Stage(node, first, last, isLast) ==
  [node |-> node, first |-> first, last |-> last, isLast |-> isLast]

(* No pipeline; a pipeline of two; one whose second peer has no endpoint.    *)
MCConfigs ==
  LET two == <<Stage(1, 0, 15, FALSE), Stage(2, 16, 31, TRUE)>>
  IN  {[stages |-> <<>>, reachable |-> {}],
       [stages |-> two, reachable |-> {1, 2}],
       [stages |-> two, reachable |-> {1}]}

(* A public network, a private one, and a private one without its admin.     *)
MCDnas ==
  {[private |-> FALSE, network |-> None, admin |-> None],
   [private |-> TRUE, network |-> net1, admin |-> admin],
   [private |-> TRUE, network |-> net1, admin |-> None]}

(* Every mixture of the settings that depend on one another, and one with a  *)
(* wrong value of each kind of the others.                                   *)
MCNodeConfigs ==
  LET Valid == [mode |-> "hybridnode", private |-> TRUE, bootstrap |-> TRUE,
                url |-> TRUE, holochain |-> TRUE, strict |-> TRUE, provider |-> "mock"]
  IN  [mode : {"hybridnode", "holochain_only", "sdwan_only"}, private : BOOLEAN,
       bootstrap : BOOLEAN, url : BOOLEAN, holochain : {TRUE}, strict : {TRUE},
       provider : {"mock", "other"}]
      \cup {[Valid EXCEPT !.holochain = FALSE], [Valid EXCEPT !.strict = FALSE]}

(* To the remote site: a fast narrow link and a slow wide one.               *)
MCLinks ==
  {[to |-> "far", latency |-> 5, bandwidth |-> 10000],
   [to |-> "far", latency |-> 30, bandwidth |-> 40000]}

-----------------------------------------------------------------------------
A(S) == CHOOSE x \in S : TRUE

(* What is chosen once: only for the component that is exercised.            *)
Setting ==
  /\ setup \in (IF part = "serve" THEN Setups ELSE {A(Setups)})
  /\ cfg \in (IF part = "serve" THEN Configs ELSE {A(Configs)})
  /\ dna \in (IF part \in {"trust", "node"} THEN Dnas ELSE {A(Dnas)})
  /\ config \in (IF part = "node" THEN NodeConfigs ELSE {A(NodeConfigs)})
  /\ peers \in (IF part = "sched" THEN [Peer -> Capabilities]
                 ELSE {[p \in Peer |-> A(Capabilities)]})
  /\ links \in (IF part = "sched" THEN SUBSET Links ELSE {{}})
  /\ budget \in (IF part = "sched" THEN Budgets ELSE {A(Budgets)})
  /\ strategy \in (IF part = "sched" THEN Strategies ELSE {A(Strategies)})

Init ==
  /\ part \in {"serve", "board", "trust", "node", "sched"} /\ Setting
  /\ ServeInit /\ BoardInit /\ TrustInit /\ NodeInit /\ SchedInit

Next ==
  \/ /\ part = "serve" /\ ServeNext
     /\ UNCHANGED <<boardVars, netVars, trustVars, nodeVars, schedVars, part>>
  \/ /\ part = "board" /\ BoardNext
     /\ UNCHANGED <<serveVars, netVars, trustVars, nodeVars, schedVars, part>>
  \/ /\ part = "trust" /\ TrustNext
     /\ UNCHANGED <<serveVars, boardVars, nodeVars, schedVars, part>>
  \/ /\ part = "node" /\ NodeNext
     /\ UNCHANGED <<serveVars, boardVars, trustVars, schedVars, part>>
  \/ /\ part = "sched" /\ Schedule
     /\ UNCHANGED <<serveVars, boardVars, netVars, trustVars, nodeVars, part>>

Spec ==
  Init /\ [][Next]_allVars /\ WF_serveVars(TimesOut) /\ WF_serveVars(Close)
=============================================================================
