-------------------------------- MODULE ChatProxy --------------------------------
(***************************************************************************)
(* POST /v1/chat/completions of the OpenAI proxy (ainonymous-proxy) with   *)
(* the services it calls: the daemon, for the plan and for a distributed   *)
(* inference, and the llama-server on this machine (LlamaManager).         *)
(*                                                                         *)
(* One request at a time: handlers share nothing but a counter.  The       *)
(* upstream stream is the tokens 1, 2, ..., each the JSON of a line; the    *)
(* network cuts it into chunks anywhere, and the handler parses every      *)
(* chunk by itself.                                                        *)
(* What a pipeline does inside the daemon is PipelineChain's subject: here *)
(* it succeeds or fails.                                                   *)
(***************************************************************************)
EXTENDS LlamaManager, InferencePlan

CONSTANTS
  Configs,    (* stages and reachable peers of the daemon's configuration   *)
  MaxTokens,  (* tokens of an upstream stream (bounds the model)            *)
  MaxChunks,  (* chunks it arrives in (bounds the model)                    *)
  MaxNodes,   (* nodes available to the zome (bounds the model)             *)
  Totals      (* values of model_total_layers                               *)

ASSUME ProxyAssumption ==
  /\ MaxTokens \in Nat /\ MaxChunks \in Nat /\ MaxNodes \in Nat
  /\ Totals \subseteq {t \in Nat : t >= MaxStages}

VARIABLES
  cfg,      (* the daemon's configuration                                   *)
  zome,     (* the plan the zome computed for the request, and its layers   *)
  phase,    (* where the handler is                                         *)
  stream,   (* the request's stream flag                                    *)
  answer,   (* status and execution_mode of the latest answer               *)
  relayed,  (* tokens sent on to the client                                 *)
  sent,     (* upstream lines that have ended                               *)
  begun,    (* what has arrived of the line after them                      *)
  chunks    (* history: chunks of the upstream stream so far                *)

proxyVars == <<cfg, zome, phase, stream, answer, relayed, sent, begun, chunks>>
requestVars == <<phase, stream, answer, relayed, sent, begun, chunks>>
streamVars == <<relayed, sent, begun, chunks>>
serveVars == <<llamaVars, proxyVars>>

Phases == {"idle", "plan", "mesh", "llama", "relay", "closing"}
(* Nothing, a part that is not yet JSON, or all but the newline.           *)
Cuts == {"nothing", "inside", "newline"}
Outcomes == {"none", "solo", "pipeline_split", "error", "done"}

NotAsked == [plan |-> NoPlan, total |-> 0]

ServeTypeOK ==
  /\ LlamaTypeOK
  /\ cfg \in Configs
  /\ phase \in Phases /\ stream \in BOOLEAN /\ answer \in Outcomes
  /\ relayed \in Seq(1 .. MaxTokens)
  /\ sent \in 0 .. MaxTokens /\ begun \in Cuts /\ chunks \in 0 .. MaxChunks

ServeInit ==
  /\ LlamaInit
  /\ cfg \in Configs
  /\ zome = NotAsked
  /\ phase = "idle" /\ stream = FALSE /\ answer = "none"
  /\ relayed = <<>> /\ sent = 0 /\ begun = "nothing" /\ chunks = 0

-----------------------------------------------------------------------------
Step(from, to) == phase = from /\ phase' = to

(* The handler returns its response, and its locals are gone.              *)
Reply(result) ==
  /\ phase' = "idle" /\ answer' = result
  /\ stream' = FALSE /\ zome' = NotAsked
  /\ relayed' = <<>> /\ sent' = 0 /\ begun' = "nothing" /\ chunks' = 0

Request(s) ==
  /\ Step("idle", "plan")
  /\ stream' = s /\ answer' = "none"
  /\ UNCHANGED <<llamaVars, cfg, zome, streamVars>>

IsSplit(plan) == plan # NoPlan /\ plan.mode = "split"

(* get_execution_plan of the proxy: PipelineSplit goes to the mesh,        *)
(* everything else, an error included, to the local server.                *)
Follow(plan) == phase' = IF IsSplit(plan) THEN "mesh" ELSE "llama"

(* mesh_plan: the static plan has priority; the zome is asked when there   *)
(* is none, over the nodes it finds.                                       *)
PlanArrives ==
  /\ phase = "plan" /\ daemon = "serving"
  /\ \/ StaticPlan(cfg) # NoPlan /\ Follow(StaticPlan(cfg)) /\ UNCHANGED zome
     \/ /\ StaticPlan(cfg) = NoPlan
        /\ \E nodes \in 0 .. MaxNodes, total \in Totals, moe, solo \in BOOLEAN :
             LET plan == ComputePlan(nodes, total, moe, solo)
             IN  /\ zome' = [plan |-> plan, total |-> total]
                 /\ Follow(DecodePlan(plan))
  /\ UNCHANGED <<llamaVars, cfg, stream, answer, streamVars>>

(* The daemon is down, not yet serving, or does not answer in 120 s.       *)
PlanFails ==
  /\ Step("plan", "llama")
  /\ UNCHANGED <<llamaVars, cfg, zome, stream, answer, streamVars>>

(* A failed or finished call to the mesh: a response for a blocking        *)
(* request, the final events for a streaming one, which hides the error.   *)
AfterMesh(result) ==
  /\ phase = "mesh"
  /\ IF stream
     THEN phase' = "closing" /\ UNCHANGED <<zome, stream, answer, streamVars>>
     ELSE Reply(result)
  /\ UNCHANGED <<llamaVars, cfg>>

(* mesh_infer makes its own plan: the configuration may be another one by  *)
(* now, and a plan of the zome does not decode here either.  A solo plan   *)
(* runs on the local server; the proxy calls whatever succeeds a pipeline  *)
(* split.                                                                  *)
MeshInfers ==
  /\ daemon = "serving" /\ StaticPlan(cfg) # NoPlan
  /\ StaticPlan(cfg) = Solo => IsRunning
  /\ AfterMesh("pipeline_split")

(* ... or the plan, the pipeline or the call fails, or 120 s pass.         *)
MeshFails == AfterMesh("error")

-----------------------------------------------------------------------------
(* The local server, blocking.                                             *)
LlamaAnswers ==
  /\ phase = "llama" /\ ~stream /\ IsRunning
  /\ Reply("solo")
  /\ UNCHANGED <<llamaVars, cfg>>

LlamaFails ==
  /\ phase = "llama" /\ ~stream
  /\ Reply("error")
  /\ UNCHANGED <<llamaVars, cfg>>

(* The local server, streaming: a client without a timeout.                *)
Connects ==
  /\ stream /\ IsRunning
  /\ Step("llama", "relay")
  /\ zome' = NotAsked
  /\ UNCHANGED <<llamaVars, cfg, stream, answer, streamVars>>

ConnectRefused ==
  /\ stream
  /\ Step("llama", "closing")
  /\ UNCHANGED <<llamaVars, cfg, zome, stream, answer, streamVars>>

Upto(first, last) == [i \in 1 .. last - first + 1 |-> first + i - 1]

(* Mutant of ParsedLines: the loop ends after the first line.              *)
FirstLine(first, last) == Upto(first, IF last < first THEN last ELSE first)

(* text.lines() of a chunk: of the lines that begin in it, all whose JSON  *)
(* is complete, with or without the newline, parse.                        *)
ParsedLines(first, last) == Upto(first, last)

(* A chunk in which k lines end, and what arrives of the next one.  The    *)
(* rest of a line that began earlier has no prefix "data: ", or is empty:  *)
(* that line is lost, or was relayed already.                              *)
Chunk(k, end) ==
  /\ phase = "relay" /\ chunks < MaxChunks
  /\ k = 0 => begun # "newline" /\ end # "nothing"
  /\ sent + k + (IF end = "nothing" THEN 0 ELSE 1) <= MaxTokens
  /\ relayed' = relayed \o
       ParsedLines(sent + (IF begun = "nothing" THEN 1 ELSE 2),
                   sent + k + (IF end = "newline" THEN 1 ELSE 0))
  /\ sent' = sent + k /\ begun' = end
  /\ chunks' = chunks + 1
  /\ UNCHANGED <<llamaVars, cfg, zome, phase, stream, answer>>

(* The upstream ends its stream, or breaks it.                             *)
UpstreamEnds ==
  /\ Step("relay", "closing")
  /\ UNCHANGED <<llamaVars, cfg, zome, stream, answer, streamVars>>

(* The final chunk and [DONE].                                             *)
Close ==
  /\ phase = "closing"
  /\ Reply("done")
  /\ UNCHANGED <<llamaVars, cfg>>

(* The client disconnects: the handler is dropped.                         *)
ClientLeaves ==
  /\ phase # "idle"
  /\ Reply("none")
  /\ UNCHANGED <<llamaVars, cfg>>

Reconfigure ==
  /\ daemon = "down"
  /\ cfg' \in Configs
  /\ UNCHANGED <<llamaVars, zome, requestVars>>

(* Mutant of TimesOut: no timeout on the call to the daemon.               *)
NoMeshTimeout == PlanFails \/ LlamaFails

(* The client of the proxy gives up after 120 s.                           *)
TimesOut == PlanFails \/ MeshFails \/ LlamaFails

ServeNext ==
  \/ LlamaNext /\ UNCHANGED proxyVars
  \/ \E s \in BOOLEAN : Request(s)
  \/ PlanArrives \/ MeshInfers
  \/ TimesOut
  \/ LlamaAnswers \/ Connects \/ ConnectRefused
  \/ \E k \in 0 .. MaxTokens, end \in Cuts : Chunk(k, end)
  \/ UpstreamEnds \/ Close \/ ClientLeaves \/ Reconfigure

ServeSafety == ServeInit /\ [][ServeNext]_serveVars

(* The timers of the HTTP client fire; the handler's own steps are taken.  *)
ServeSpec == ServeSafety /\ WF_serveVars(TimesOut) /\ WF_serveVars(Close)

-----------------------------------------------------------------------------
(* Tokens whose JSON has arrived.                                          *)
Arrived == sent + (IF begun = "newline" THEN 1 ELSE 0)

(* A token whose JSON is cut between two chunks is lost, though the loop   *)
(* means to re-emit what it parses (chat.rs:227-252).  However the stream  *)
(* is cut, the client gets tokens of it only, in order and none twice, and *)
(* a cut costs it one token at the most: n chunks lose n - 1 or fewer.     *)
StreamRelayed ==
  /\ \A i, j \in DOMAIN relayed : i < j => relayed[i] < relayed[j]
  /\ \A i \in DOMAIN relayed : relayed[i] \in 1 .. Arrived
  /\ Arrived = 0 \/ Len(relayed) + chunks > Arrived

(* Every pipeline the zome plans covers each layer exactly once, every     *)
(* expert plan each expert exactly once.                                   *)
PlanCoversModel ==
  /\ IsSplit(zome.plan) => PartitionsLayers(zome.plan.stages, zome.total)
  /\ (zome.plan # NoPlan /\ zome.plan.mode = "expert")
       => PartitionsExperts(zome.plan.shards)

(* Every request ends, however the daemon and the server behave, unless it *)
(* is streaming from the local server, which may hang.                     *)
RequestEnds ==
  phase # "idle" ~> phase = "idle" \/ (stream /\ phase \in {"llama", "relay"})
=============================================================================
