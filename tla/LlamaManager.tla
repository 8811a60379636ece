------------------------------ MODULE LlamaManager ------------------------------
(***************************************************************************)
(* The llama-server child of a daemon (ainonymous-daemon/src/llama.rs) and *)
(* the life of the daemon around it (main.rs): start probes the port,      *)
(* spawns a server with as many layers on the GPU as its estimate allows,  *)
(* waits for it, connects the conductor and serves.  LlamaManager::drop    *)
(* kills the child it holds, whenever main returns; a signal that ends the *)
(* process without unwinding runs no drop.                                 *)
(*                                                                         *)
(* Servers are processes of the machine and outlive the daemon.  One of    *)
(* them owns the port; it answers /health with success once it has loaded. *)
(***************************************************************************)
EXTENDS Integers, FiniteSets

CONSTANTS
  Server,    (* process ids of llama-servers                                *)
  NoServer,  (* no process                                                  *)
  Setups     (* size: GB of the model; ctx: context; vram: GB; layers: the  *)
             (* n_gpu_layers of the config, -1 to detect; gpu: one is there *)

ASSUME LlamaAssumption ==
  /\ NoServer \notin Server
  /\ Setups \subseteq [size : Nat, ctx : Nat, vram : Nat,
                       layers : Nat \cup {-1}, gpu : BOOLEAN]

VARIABLES
  daemon,   (* main(): down, wait (for the spawned server), connect, serving *)
  held,     (* LlamaManager.process                                         *)
  servers,  (* live llama-servers                                           *)
  port,     (* the one bound to llama_server_port                           *)
  ready,    (* it answers /health with success                              *)
  setup,    (* machine and configuration                                    *)
  offload,  (* n_gpu_layers of the last spawn                               *)
  killed    (* history: a daemon ended without unwinding                    *)

llamaVars == <<daemon, held, servers, port, ready, setup, offload, killed>>

LlamaTypeOK ==
  /\ daemon \in {"down", "wait", "connect", "serving"}
  /\ held \in Server \cup {NoServer}
  /\ servers \subseteq Server
  /\ port \in Server \cup {NoServer}
  /\ ready \in BOOLEAN /\ killed \in BOOLEAN
  /\ setup \in Setups
  /\ offload \in Int

LlamaInit ==
  /\ daemon = "down" /\ held = NoServer
  /\ servers = {} /\ port = NoServer /\ ready = FALSE
  /\ setup \in Setups /\ offload = 0
  /\ killed = FALSE

-----------------------------------------------------------------------------
(* detect_gpu_layers                                                       *)
DetectGpuLayers(s) ==
  IF s.layers # -1 THEN s.layers ELSE IF s.gpu THEN -1 ELSE 0

(* estimate_vram_simple in MB: 32 layers, hidden size 4096, f16, one slot. *)
Estimate(s, ngl) ==
  LET layers == IF ngl < 0 THEN 32 ELSE ngl
  IN  s.size * 32 * layers + s.ctx \div 2 + 640

Available(s) == 1024 * (IF s.vram < 4 THEN 4 ELSE s.vram)

Fits(s, ngl) == 100 * Estimate(s, ngl) <= 85 * Available(s)

(* Mutant of Reduced: one reduction instead of a loop.                     *)
ReducedOnce(s) ==
  LET n == DetectGpuLayers(s)
  IN  IF n <= 0 \/ Fits(s, n) THEN n ELSE (3 * n) \div 4

(* The loop of start: less by a quarter while the estimate is over 85 % of *)
(* the memory.  -1, all layers, is never reduced.                          *)
Reduced(s) ==
  LET n == DetectGpuLayers(s)
      loop[k \in 0 .. (IF n > 0 THEN n ELSE 0)] ==
        IF k = 0 \/ Fits(s, k) THEN k ELSE loop[(3 * k) \div 4]
  IN  IF n < 0 THEN n ELSE loop[n]

-----------------------------------------------------------------------------
IsRunning == port # NoServer /\ ready

(* The port already answers: no child is started.                          *)
StartAdopts ==
  /\ daemon = "down" /\ IsRunning
  /\ daemon' = "connect"
  /\ UNCHANGED <<held, servers, port, ready, setup, offload, killed>>

(* start: spawn, and the handle is kept.  A server that is still loading,  *)
(* or hangs, does not answer and is not noticed.                           *)
StartSpawns(p) ==
  /\ daemon = "down" /\ ~IsRunning
  /\ p \notin servers
  /\ daemon' = "wait"
  /\ held' = p /\ servers' = servers \cup {p}
  /\ offload' = Reduced(setup)
  /\ UNCHANGED <<port, ready, setup, killed>>

(* spawn fails: the daemon goes on without a server.                       *)
SpawnFails ==
  /\ daemon = "down" /\ ~IsRunning
  /\ daemon' = "connect"
  /\ UNCHANGED <<held, servers, port, ready, setup, offload, killed>>

(* The wait ends when the port answers, whoever owns it, or after 30 s.    *)
WaitEnds ==
  /\ daemon = "wait"
  /\ daemon' = "connect"
  /\ UNCHANGED <<held, servers, port, ready, setup, offload, killed>>

Connected ==
  /\ daemon = "connect"
  /\ daemon' = "serving"
  /\ UNCHANGED <<held, servers, port, ready, setup, offload, killed>>

(* The process p is gone.                                                  *)
Gone(p) ==
  /\ servers' = servers \ {p}
  /\ port' = (IF port = p THEN NoServer ELSE port)
  /\ ready' = (ready /\ port # p)

(* Mutant of Unwind: drop without the kill.                                *)
UnwindKeepingChild ==
  /\ daemon' = "down" /\ held' = NoServer
  /\ UNCHANGED <<servers, port, ready, setup, offload, killed>>

(* main returns, by an error or after the graceful shutdown: drop kills    *)
(* the child it holds.                                                     *)
Unwind ==
  /\ daemon' = "down" /\ held' = NoServer
  /\ Gone(held)
  /\ UNCHANGED <<setup, offload, killed>>

ConnectFails == daemon = "connect" /\ Unwind
Shutdown == daemon = "serving" /\ Unwind

(* SIGKILL, or SIGTERM before axum::serve has installed the handler.       *)
Kill ==
  /\ daemon # "down"
  /\ daemon' = "down" /\ held' = NoServer /\ killed' = TRUE
  /\ UNCHANGED <<servers, port, ready, setup, offload>>

-----------------------------------------------------------------------------
(* What the servers do: bind the port, or exit when it is taken; load;     *)
(* crash.                                                                  *)
Bind(p) ==
  /\ p \in servers /\ port = NoServer
  /\ port' = p /\ ready' = FALSE
  /\ UNCHANGED <<daemon, held, servers, setup, offload, killed>>

Loads ==
  /\ port # NoServer /\ ~ready
  /\ ready' = TRUE
  /\ UNCHANGED <<daemon, held, servers, port, setup, offload, killed>>

Exits(p) ==
  /\ p \in servers
  /\ Gone(p)
  /\ UNCHANGED <<daemon, held, setup, offload, killed>>

DaemonStep ==
  \/ StartAdopts \/ SpawnFails \/ WaitEnds
  \/ \E p \in Server : StartSpawns(p)
  \/ Connected \/ ConnectFails \/ Shutdown \/ Kill

LlamaNext == DaemonStep \/ Loads \/ \E p \in Server : Bind(p) \/ Exits(p)

LlamaSpec == LlamaInit /\ [][LlamaNext]_llamaVars

-----------------------------------------------------------------------------
(* A server without a daemon that will kill it is left behind only by a    *)
(* daemon that was killed: every other end, an error of the start-up       *)
(* included, takes its child along (the comment on the shutdown in main).  *)
OrphanOnlyAfterKill == servers \subseteq {held} \/ killed

(* The GPU gets no more layers than the estimate allows, unless the config *)
(* leaves the number to detect_gpu_layers (-1).                            *)
OffloadFits == offload > 0 => Fits(setup, offload)
=============================================================================
