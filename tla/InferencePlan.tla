----------------------------- MODULE InferencePlan -----------------------------
(***************************************************************************)
(* Execution plans: compute_execution_plan of the inference-mesh zome      *)
(* splits the layers, or the experts, of a model over the available nodes; *)
(* static_plan_from_config of the daemon turns its configuration into one. *)
(* A node is its position in the answer of get_available_nodes.            *)
(***************************************************************************)
EXTENDS Integers, Sequences

CONSTANTS
  NoPlan,     (* no plan: an error, or None                                 *)
  MaxStages,  (* nodes of a pipeline: 4                                     *)
  Experts     (* experts of a mixture model: 64                             *)

ASSUME PlanAssumption == MaxStages \in Nat \ {0} /\ Experts \in Nat

Solo == [mode |-> "solo"]

(* Mutant of StageEnd: the last stage gets no remainder.                   *)
StageEndEven(i, n, total) == i * (total \div n) - 1

StageEnd(i, n, total) ==
  IF i = n THEN total - 1 ELSE i * (total \div n) - 1

(* build_pipeline_split_plan: equal shares, the rest to the last stage.    *)
PipelineSplit(nodes, total) ==
  LET n == IF nodes < MaxStages THEN nodes ELSE MaxStages
  IN  [mode |-> "split",
       stages |-> [i \in 1 .. n |->
         [first |-> (i - 1) * (total \div n), last |-> StageEnd(i, n, total),
          isLast |-> i = n]]]

(* build_expert_shard_plan: expert e to the node e modulo the nodes.       *)
ExpertShard(nodes) ==
  [mode |-> "expert",
   shards |-> [i \in 1 .. nodes |->
                 {e \in 0 .. Experts - 1 : e % nodes = i - 1}]]

(* compute_execution_plan, once get_available_nodes has answered.          *)
ComputePlan(nodes, total, moe, forceSolo) ==
  CASE nodes = 0 -> NoPlan
    [] nodes = 1 \/ (nodes > 0 /\ forceSolo) -> Solo
    [] nodes > 1 /\ ~forceSolo /\ moe -> ExpertShard(nodes)
    [] OTHER -> PipelineSplit(nodes, total)

(* HolochainClient::get_execution_plan decodes the zome's answer as the    *)
(* ExecutionPlan of ainonymous-types, which is tagged `mode` in snake case *)
(* where the zome tags `type` in Pascal case: no plan decodes.             *)
DecodePlan(plan) == NoPlan

(* static_plan_from_config: solo without stages, nothing when a stage has  *)
(* no peer with an endpoint.                                               *)
StaticPlan(cfg) ==
  IF cfg.stages = <<>> THEN Solo
  ELSE IF \E i \in DOMAIN cfg.stages : cfg.stages[i].node \notin cfg.reachable
       THEN NoPlan
       ELSE [mode |-> "split", stages |-> cfg.stages]

(* A pipeline covers the layers 0 .. total - 1 in order, without gap or    *)
(* overlap, and only its last stage is marked so.                          *)
PartitionsLayers(stages, total) ==
  /\ stages[1].first = 0
  /\ stages[Len(stages)].last = total - 1
  /\ \A i \in DOMAIN stages :
       /\ stages[i].first <= stages[i].last
       /\ stages[i].isLast <=> i = Len(stages)
       /\ i < Len(stages) => stages[i + 1].first = stages[i].last + 1

PartitionsExperts(shards) ==
  \A e \in 0 .. Experts - 1 :
    \E i \in DOMAIN shards :
      /\ e \in shards[i]
      /\ \A j \in DOMAIN shards : e \in shards[j] => j = i
=============================================================================
