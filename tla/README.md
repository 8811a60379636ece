# AInonymous: a TLA+ verification project

AInonymous lets nodes that know each other through a Holochain DHT serve large
language models together. A coordinator splits the layers of a model over
several nodes, opens mutually authenticated QUIC connections to them and pushes
the activations of each token through the chain. This directory holds TLA+
models of that program, the TLC configurations that check them on small
instances, and theorems checked by TLAPS. Paths below are relative to the
repository (`crates/...`, `dnas/...`); `PROJECT.json` gives the lines each
definition stands for, the mutant that shows each property can fail, and the
hazards the properties are aimed at.

- [1. The system](#1-the-system)
- [2. The plan](#2-the-plan)
- [3. The modules](#3-the-modules)
- [4. What the runs show](#4-what-the-runs-show)
- [5. What is proved](#5-what-is-proved)
- [6. Disagreements between the code and its text](#6-disagreements-between-the-code-and-its-text)
- [7. What is not modelled, and why](#7-what-is-not-modelled-and-why)

## 1. The system

    client --HTTP--> proxy --HTTP--> daemon (coordinator)
                                       |  zome calls, signals
                                       v
                                  Holochain conductor <--DHT--> other agents
                                       |
             QUIC link 1               v              QUIC link 2
    coordinator ------------> worker, stage 1 ------------> worker, stage 2 ...
                                |                              |
                          pipeline_server.py             pipeline_server.py
                          (layers, KV-cache)             (layers, KV-cache)

| component | state | operations | hard because of | what makes it correct |
|---|---|---|---|---|
| QUIC session listener (`ainonymous-quic/listener.rs`, `session.rs`) | map token -> offer, under a mutex shared by all tasks | register, accept (look-up, check of the certificate, consumption), purge | one task per connection, lock released between look-up and consumption; expiry; registrations from two control planes | one session per offer; only for the agreed key; a refusal never uses up somebody else's offer |
| Session negotiation (`router.rs`, `conductor_client.rs`, `holochain.rs`, inference-mesh zome) | offers on their way: reply to the requester, signal to the worker's daemon | `POST /mesh/session/negotiate`, zome `negotiate_quic_session`, `on_signal` | reply and signal race; the TTL starts at three different moments | an offer in a client's hands is known to the listener |
| Pipeline inference (`conductor.rs`) | coordinator: output, current pass; worker: session task with an upstream and a downstream connection | prefill, decode and speculative passes; forward; close | a chain of tasks over ordered streams, of which a link holds a limited number; errors at any point; closing spreads from link to link | the output is the greedy text of the whole model; every request ends, below the limit of the links; its end clears every cache |
| Activation transfer (`transfer.rs`) | one stream per activation and per token | send, receive one, receive many | sender and receiver count streams differently | a pass leaves nothing on the links |
| Pipeline server (`scripts/pipeline_server.py`, `pipeline_client.rs`) | KV-cache per request | `/prefill`, `/decode`, `/clear` | state on another process, which nobody rolls back | each cache holds exactly the prompt and the accepted output |
| Identity (`mtls.rs`, `main.rs`, `router.rs`) | key in the OS keyring, in a file and in memory; key published in the directory | load or create, rotate, restart | four copies, written one after the other; a keyring that may be unusable at any call | an address in the directory never comes with a key that does not answer there |
| Discovery, directory, heartbeat (`holochain.rs`, `heartbeat.rs`, agent-registry zomes) | capability records and heartbeat links on the DHT | announce, update endpoint, heartbeat, list the available nodes | lost calls, periods against windows, restarts | a live node stays discoverable, a dead one disappears |
| llama-server manager (`llama.rs`, `main.rs`) | the child process, the port, the layers on the GPU | start, wait, reduce layers, drop | the child outlives a daemon that is killed; it may load, hang or die meanwhile | no server is left behind by a daemon that could have killed it |
| Execution plans (inference-mesh zome, `conductor.rs`) | none | build a plan over the available nodes, or from the configuration | integer shares and a remainder; two serialisations of a plan | every layer, or every expert, is computed once |
| Proxy (`ainonymous-proxy`) | the stream it relays | chat completion, blocking and streaming | chunks that do not respect line ends; services that never answer | what is relayed is in order, with nothing doubled or invented, and a cut costs one token at the most; every request ends |
| Blackboard zomes | posts and links on the DHT | post, five ways of reading | a redaction that is not one; a time to live against pages of links | no sensitive content and nothing expired is shown |
| HybridNode zomes, admission tool | DNA properties, proofs, attestations, claims, warrants | sign, join, publish, accuse, refute, verify | proofs that travel; records that name other agents; checks that run on the joiner, or on created entries, only | a verdict that rests on agents running the packaged app is about an admitted agent, on what that agent and admitted accusers said |
| HybridNode runtime (`hybridnode-core`) | configuration, identity, topology snapshot | start, choose a placement | settings that contradict each other; peers in any order, filters repeated in each strategy | a private node has an admitted identity; a chosen peer is eligible |
| CLI, MCP bridge | none | translate commands into HTTP calls | - | - |
| Signed releases (`spike-release/lib.rs`) | `versions/`, `state.json` | install, install with health check, rollback | a crash between any two file operations; files that change after they were verified | the recorded versions are on disk; accepted sequences are never reused; an unhealthy version is retired |

**How they interact.** The daemon's REST route and its conductor callback write
the registry that the listener's tasks read. A worker accepts a connection
only through the listener (`Accept`/`Refuse` of `PipelineChain` stand for what
`SessionListener` does in detail). Each stage dials the next one as a client of
that one's listener. The pipeline servers are local HTTP services and learn of
a request's end by `/clear` only. The directory feeds the planner, which gives
the coordinator its chain; keys published there are the ones offers name. The
proxy asks the daemon for a plan and then either the daemon for a pipeline or
the llama-server the daemon started. The blackboard, the HybridNode network and
the installer share nothing with the rest.

## 2. The plan

Modules, most important behaviour first. All are written.

| # | module | models | composes with | properties and theorems |
|---|---|---|---|---|
| 1 | `SessionListener` | registry, both control planes, accept path, clients | - | single use, agreed key, harmless refusals, resolution (TLC and TLAPS) |
| 2 | `GreedyDecode` | what an inference promises | - | abstract specification |
| 3 | `PipelineChain` | coordinator, stages, links, KV-caches | refines `GreedyDecode`; its `Accept`/`Refuse` abstract module 1 | refinement, context agreement, budget, causes of failure, room on the links (TLC and TLAPS), closing cascade, termination (TLC) |
| 4 | `ReleaseInstaller` | installer with crashes | - | crash safety, anti-replay, rollback (TLC and TLAPS) |
| 5 | `NodeIdentity`, `AgentRegistry` | keys on disk; the DHT's directory | - | - |
| 6 | `MeshNode` | the life of a daemon in the mesh | composes the two of 5 | dialable records, a dead node leaves, a recent one stays (TLC and TLAPS), a live one returns (TLC) |
| 7 | `LlamaManager`, `InferencePlan` | the child process and the daemon's life; execution plans as functions | - | no orphans, layers that fit, plans that cover the model (TLC and TLAPS) |
| 8 | `ChatProxy` | a chat request through proxy, daemon and llama-server | composes the two of 7; the inside of a pipeline is module 3 | relayed stream (TLC and TLAPS), every request ends (TLC) |
| 9 | `Blackboard` | posts, redaction, validation, reads | - | what is shown is clean and live (TLC and TLAPS) |
| 10 | `PrivateNetwork`, `TrustZome`, `HybridNode` | admission; trust records; start-up of the runtime | admission is shared by the other two | verdicts and private nodes (TLC and TLAPS) |
| 11 | `Scheduler` | the four strategies over a topology | - | eligible choices (TLC and TLAPS) |

The theorems are in a module per group, which extends the modules it is about:
`SessionListenerProofs` (1), `PipelineChainProofs` (2, 3),
`ReleaseInstallerProofs` (4), `MeshNodeProofs` (5, 6), `ServeProofs` (7, 8),
`TrustProofs` (9, 10), `SchedulerProofs` (11); `LeastNumber` has the lemmas on
induction some of them share. What is left of the plan is the remark on
chains of three and more stages at the end of section 5.

## 3. The modules

### SessionListener

A step is one critical section of the registry's mutex together with the
task-local code after it, because the runtime is multi-threaded and another
task may run at every release of the mutex.

| state | code |
|---|---|
| `pending` | `SessionRegistry`, token -> `SessionOffer`. `id` tells two registrations of a token apart; the code has no such field |
| `signals`, `replies` | `QuicListenerSignal` and the `call_remote` result in flight |
| `granted` | the offers the clients hold, with their own expiry |
| `pc`, `cert`, `token`, `taken` | where each `accept_connection` task stands, what its client presents, the offer given to the handler |
| `drawn`, `agreed`, `nextId` | tokens generated so far; history |

| action | code |
|---|---|
| `NegotiateRest` | router.rs `session_negotiate`: draw, register, answer |
| `NegotiateZome`, `HandleSignal`, `ReceiveReply` | the zome's negotiation, the daemon's `on_signal`, the requester's daemon |
| `RegisterSession` | `QuicListener::register_session`, for a program that embeds the crate |
| `Connect` | `QuicSession::connect`, with any certificate and any unexpired offer in hand |
| `OpenAuth`, `TokenArrives`, `ClientGone` | what the client does then: open the authentication stream, send the last of the 32 bytes, or end the stream or the connection before |
| `AuthTimeout` | the 5 s timer, which covers `accept_uni` and not the loop that reads the bytes |
| `Lookup`, `PurgeExpired`, `Consume` | the critical sections of `accept_connection`: look-up and check of the certificate, purge, consumption and second check |
| `Tick` | the wall clock, against which `is_expired` compares strictly |

Tokens are 256-bit random values: `NegotiateRest` and `NegotiateZome` draw one
never drawn before. A certificate is reduced to its key; that the client owns
it is TLS's business. A client may reconnect with an offer it used, or with one
that somebody else was given: `Connect` asks only that the offer was granted.

### GreedyDecode and PipelineChain

`GreedyDecode` is the promise: each token is the model's prediction after the
prompt and the tokens before it, until the end-of-sequence token or the budget,
or the request fails. `PipelineChain` is the code: the coordinator
(`run_pipeline_inference`), the session task of every stage
(`handle_pipeline_session`) and the KV-cache of every stage's server.

The hidden state of a token is represented by the token. That every stage
computed it after the same context is not assumed but checked
(`NextInContext`): a stage's cache is a sequence of tokens, `/prefill` replaces
it, `/decode` appends *every* position of its input, and the last stage predicts
from its own cache. The model's arithmetic is the constant `Predict`.

| state | code |
|---|---|
| `cpc`, `pass`, `out` | coordinator: position in the loop, header and tokens of the pass, `out_ids` |
| `conn`, `fwd`, `bwd` | link i: the QUIC connection, activation streams and token streams not yet accepted, in order, at most `MaxStreams` of each |
| `pc`, `work`, `todo` | stage i's task, the pass it has, tokens it still has to send |
| `kv` | the server's cache for the request |

Actions of the coordinator: `Start`, `StartFails`, `SendPass`, `ReceiveToken`
(`send_pass_and_recv`), `ReceiveVerified` (`send_speculative_and_recv_many` with
the acceptance of the draft), `Close`, `CoordinatorFails`. Of a stage: `Accept`,
`Refuse`, `Receive`, `Layers`, `LayersFail`, `Dial`, `DialFails`, `Forward`,
`Await`, `NextLost`, `Reply`, `ReplyFails`, `Leave`, `Clear`. Of the
environment: `ConnectionLost`. Every failure that no other state explains
(a server's error, a refused dial, a lost connection) counts against `MaxFaults`.
`open_uni` waits while the peer has not accepted `MaxStreams` earlier streams
(`Room`, a guard of `SendPass`, `Forward` and `Reply`): `create_endpoint` leaves
the transport's default, 100.

### ReleaseInstaller

One installer process; a step is one change of the file system.

| state | code |
|---|---|
| `live[v]`, `staging[v]` | the artifact below `versions/<v>/` and `versions/.staging-<v>/` |
| `saved` | `state.json`: accepted sequence, installed version, current and previous record, quarantined versions |
| `pc`, `op` | the next step of the running `install`, `install_with_health_check`, its manifest |
| `damaged`, `sick`, `faults` | history: altered versions, manifests whose health check failed; the bound |

`Begin` is `verify_manifest` and the first `verify_artifact`; `Stage`, `Copy`,
`Verify`/`VerifyFails`, `Clear`, `Switch`, `Save` are the following lines of
`install`; `Healthy`, `Unhealthy`, `AutoRollback`, `AutoRollbackFails`,
`Quarantine` those of `install_with_health_check`; `Rollback` is `rollback`
called by itself. `Interrupt` stops the process before any of these steps, be
it a kill or an I/O error that `?` returns. `Damage` is another program that
alters an installed file.

`Manifests` are those signed by a trusted key for this target, with the artifact
to be installed: what fails the signature, target or content checks is refused
before anything is written. A file's content is told apart only as its size and
SHA-256 tell it apart. `state.json` is written to a temporary file, synced and
renamed: one step. A power loss that undoes a rename is not modelled (the code
does not sync directories); a partly removed or partly copied directory is one
that holds no artifact, or a different one.

### MeshNode, with NodeIdentity and AgentRegistry

Two small modules hold one piece of state each and define the operations on
it; `MeshNode` is the daemon that calls them in the order of `main.rs`.

| state | code |
|---|---|
| `file`, `keyring`, `minted` | the seed file, the seed in the keyring of the OS, keys generated (`NodeIdentity`) |
| `caps`, `links`, `beatAge` | the latest capability record, `ModelToAgents` links, age of the latest heartbeat (`AgentRegistry`) |
| `pc`, `key`, `timer`, `pending` | where `main` is, the key of the running endpoint, the heartbeat's interval, rotations whose announcement is under way |
| `announced`, `fresh`, `deadAge` | history: what this run achieved, how long ago the node last ran |

`StartDaemon` loads the identity in any way the keyring allows at that moment
(`LoadKeyring`, `GenerateBoth`, `LoadFile`, `GenerateFile`); `AnnounceOwn`,
`PublishEndpoint` and `Beat` are the three zome calls of a daemon, each of which
may be lost (`applied`, `acked`); `Rotate` and `Reannounce` are the two halves of
`rotate_identity`, between which other handlers run; `Stop` and `CrashInWrite`
end the process, the latter inside `std::fs::write`; `Tick` is 30 s. The latest
record and the latest heartbeat count, as in the zome.

### LlamaManager, InferencePlan and ChatProxy

`LlamaManager` follows the llama-server processes of the machine, which outlive
the daemon that spawned them: `servers` are alive, one may own the `port`, and
`held` is the child that `drop` will kill. `daemon` walks through `main`:
`StartAdopts`, `StartSpawns` or `SpawnFails`, `WaitEnds`, `Connected` or
`ConnectFails`, `Shutdown`, and `Kill`, which runs no destructor. `Bind`,
`Loads` and `Exits` are what servers do by themselves. `Reduced` is the loop
that takes layers off the GPU; `Estimate` is the program's formula in integers.

`InferencePlan` has no state: `PipelineSplit` and `ExpertShard` are the zome's
two plans, `StaticPlan` the daemon's, and `DecodePlan` what the daemon makes of
a zome's answer, which is nothing (section 6).

`ChatProxy` is one chat request: `Request`, `PlanArrives` or `PlanFails`, then
the mesh (`MeshInfers`, `MeshFails`) or the local server (`LlamaAnswers`,
`LlamaFails`; streaming: `Connects`, `ConnectRefused`, `Chunk`, `UpstreamEnds`),
and `Close`. Tokens are numbered, each the JSON of a line. A chunk ends `k` lines
and brings, of the next one, nothing, a part of its JSON, or all but its newline
(`begun`); the handler keeps nothing of a chunk when it parses the next.
Handlers share only a metrics counter, so one request at a time shows what each
of many does.

### Blackboard

A post's content is how often it holds each sensitive pattern: that is all the
redaction and the validation look at. `Post` is the coordinator's function with
`Stripped` (the first occurrence of a pattern, replaced by a text that for most
patterns still holds it) and the integrity zome's `ValidPost`, which sees created
entries, as the coordinator commits them, and looks for no pattern in the tags;
the five reads write their answer to `shown`; `PassTime` is an hour. A filter
keeps the members of a set of posts, in the order of the links (`Where`).

### PrivateNetwork, TrustZome and HybridNode

`PrivateNetwork` has the administrator's tool (`MakeProof`, which anybody may run
with a key of their own) and `genesis_self_check` (`SelfCheck`, in `Join`). An
agent may present any proof that was signed, for whomever and wherever, one with
altered bytes, or none. The self-check runs on the agent that joins, and
`validate` looks at created entries only: `Packaged` are the agents that run the
app as it is packaged, the others join and commit what they like. `TrustZome` adds
the entries members commit (`MayCommit`), with their *author* apart from the
agents they name, and the links an author may delete again (`DeleteLinks`).
`HybridNode` adds one node's runtime: `ValidConfig`, `StartNode`,
`LoadIdentityFromConductor`, `ConnectSdwan`, `StopNode`.

### Scheduler

`Schedule` evaluates one decision on any topology. The peers are a `HashMap`
in the code, so a strategy's result is a set: everything some iteration order
makes the first, the minimum or the maximum.

## 4. What the runs show

`tlc -config X.cfg M` in this directory, with the module and the configuration
of each run as in `PROJECT.json`. Deadlock is not checked: requests end,
registrations and manifests run out, and the models then stop as the program
does. No run uses a state constraint; the bounds are guards, named in the
modules' `CONSTANTS`.

| run | instance | shows | states |
|---|---|---|---|
| `listener_embedded` | one token, two keys, two connections, three registrations, clock of two ticks with a TTL of one; a program that registers tokens again, and the signal plane | `TypeOK`, `SingleUse`, `ServedAsAgreed`, `RegistryInv` | 312 423 |
| `listener_daemon` | two tokens, two keys, two connections, both control planes of the daemon, two registrations, one tick, which is longer than the TTL | `DaemonInv`, `RefusalKeepsOffers`, `RegisterKeepsOffers`, `RestTokenAccepted`, `ConnectionsResolve`, `VerifiedIsServed` | 520 634 |
| `listener_signal_race` | both planes, one connection | `KnownTokenAccepted` fails | violation |
| `chain_greedy` | two stages, budget 6, no speculation, room for one stream, two failures | `TypeOK`, `NextInContext`, `QuietBetweenPasses`, `NeverBlocked`, `ImplementsGreedy`, `Completes`, `CascadeClose`, `PurgedAfterSuccess` | 1 515 |
| `chain_speculative_bounds` | two stages, K = 2, budget 5, room for two streams, one failure | `WithinBudget`, `CascadeClose` | 697 |
| `chain_blocked` | two stages, K = 2, a text of eight tokens, room for one stream, no failure | `Completes` fails | violation |
| `chain_speculative` | two stages, K = 2, budget 5, no failure | `OutputIsGreedy` fails | violation |
| `chain_purge` | the same without failures | `PurgedAfterSuccess` fails | violation |
| `installer` | five manifests of distinct versions (upgrades, a downgrade, one not yet and one no longer valid), three contents, two faults | `TypeOK`, `IntactRecords`, `UnhealthyRetired`, `ReplacedWhenVerified`, `SequenceNeverReused`, `RollbackVerified` | 164 617 |
| `installer_republished` | one version published twice, no fault | `UnhealthyRetired` fails | violation |
| `mesh` | one node, three keys; window of two ticks (60 s), period of one (30 s) | `RecordConnectable`, `DeadNodeLeaves`, `BeatKeepsNode`, `BeatingNodeReturns` | 12 877 |
| `services` | one component in each behaviour: two servers, three machines, three configurations, up to five nodes and streams of three tokens in up to three chunks; three posts; two packaged agents and a third, two networks, one signer, two proofs, two records at a time; 26 configurations of a node; two peers on two sites | `OrphanOnlyAfterKill`, `OffloadFits`, `StreamRelayed`, `PlanCoversModel`, `ShownPostsCleanAndLive`, `VerdictsFromAdmitted`, `PrivateNodeAdmitted`, `ScheduledPeerEligible`, `RequestEnds` | 653 805 |

**Why the bounds are enough.** *Listener:* every property is about one token, the
tasks that presented it and the registrations of it. Two connections and three
registrations of one token contain every way in which a look-up, a replacement and
a consumption interleave; the second token is there for what a registration or a
refusal does to a bystander. The clock must pass from valid through the last valid
instant to expired: with TTL 0 one tick does that, with TTL 1 two do. Symmetry
over keys, tokens and connections is used in `listener_embedded` only, where no
liveness is checked. *Chain:* two stages are the longest chain the code can
complete. `MCPredict` depends on the value and the position of every context token
and ends the text after six, so a cache that misses, repeats or swaps a token
changes the output. Budget 6 allows a prefill and several decode passes; with K =
2, budget 5 allows a speculative pass and the switch back to single tokens. The
limit on streams is the constant `MaxStreams`. `chain_greedy` has the smallest,
one. `chain_speculative_bounds` stays below it, as the code does on short texts,
while in `chain_blocked` eight tokens reach a limit of one as some 400 reach a
hundred: only there does the limit matter. Two failures let one hit the clean-up
after another. *Installer:* a fault of each kind, two operations and a rollback
after an interrupted one all fit in five manifests and two faults. *Mesh:* nodes
share no state and each property is about one of them, so one node is enough for
TLC and the theorems cover any number. Three keys let a rotated key, the running
one and one of an earlier run differ. The ticks are the code's own 30 s: window
and period have their real proportions. *Services:* `part` is chosen once, so that
components without common state add their states up. Two servers are the child and
one left behind. Five nodes exceed the four stages of a plan, and the layer counts
18 and 30 leave a remainder for three and four. Three tokens in three chunks
contain a line that is whole, one cut inside its JSON, one cut before its newline,
and each before and after the others. A page of one post and three posts let the
limits of the reads bite. Two networks are a proof's destination and another one;
two packaged agents and a third are an agent, its accuser and a member outside the
promise, and two records at a time are an attestation with a warrant, or a record
next to one that replaces it. Two peers on two sites with a fast narrow and a slow
wide link separate the four strategies.

**Fairness.** `SessionListener` assumes weak fairness of each accept task: tokio
polls a ready task, and the 5 s timer goes off. The timer covers `accept_uni`
only; what happens in the loop that reads the 32 bytes is the client's doing
(`TokenArrives`, `ClientGone`), and nothing is asked of clients: keep-alives hold
the connection of a live one open, so the task may read for ever, which
`ConnectionsResolve` names as its exception. Nothing is assumed of the control
plane or the handler. `PipelineChain` assumes weak fairness of the coordinator
and of each stage's task: the wait for the local server ends within the 120 s
timeout of the HTTP client (pipeline_client.rs:88-96). The waits on a peer (for a
stream, or for room to open one) end with what the peer does or with the
connection, and nothing else ends them. No fairness is assumed of failures, so a
request that ends does so without the help of one. The installer has no liveness
property: nothing makes an interrupted installation resume. `MeshNode` assumes
that time passes, however many restarts there are (strong, since a beat that is
due holds the tick back for a moment), that the heartbeat task runs when its
tick is due (weak), and that among heartbeats attempted for ever some arrive
(strong, of `Beat(n, TRUE)` only): the conductor is local, the task never gives
up, and nothing else is assumed of lost calls, restarts or rotations.
`ChatProxy` assumes that the 120 s timer of its HTTP client fires and that the
handler takes its own last step; nothing of the daemon, the llama-server or the
network.

**The properties.** Each is stated in words above its definition. Those that
took most care:

- `ServedAsAgreed` looks at the offer a task *consumed*, not at the one it
  checked: between the two the token may be registered again for another key.
- `VerifiedIsServed` says that losing the race has a winner. It is stated for
  offers of the REST plane, where client and listener hold the same expiry.
- `RefusalKeepsOffers` holds in the daemon because a token is drawn and
  registered once (`DaemonInv`). A program that registers a token again while
  connections present it can lose the new offer to a refused connection
  (`PurgeExpired` removes whatever it finds, `Consume` removes before it checks
  the key the second time); that is why the run and the theorems about it take
  `Direct = FALSE`. `RegisterKeepsOffers` is about `register` for the same reason:
  `register_session`, which such a program calls, has another test and drops an
  offer in its last millisecond.
- `NeverBlocked` is why the limit on open streams does no harm without
  speculation, were it one. With speculation both ends of a link may wait for one
  another (`chain_blocked`), so `Completes` is not claimed there, and
  `CascadeClose` only below the limit.
- `ImplementsGreedy` is a refinement: no token is ever out of place at any
  moment, even in requests that end in an error.
- `UnhealthyRetired` leaves out operations that were interrupted (there is no
  recovery) and installations with no previous version to return to.
- `RecordConnectable` relates four copies of a key. It is stated from the moment
  this run's announcement was acknowledged: if it fails, `update_quic_endpoint`
  puts the new address into the record of an earlier run (section 6).
- `BeatingNodeReturns` is about a node whose record lists the model. A daemon's
  own announcements list none (section 6).
- `OrphanOnlyAfterKill` holds at every moment, including a start-up that fails
  after the spawn; its exception is the one the comment in `main.rs` names.
- `StreamRelayed` is what remains of the intention to re-emit the events (section
  6): order, no token twice, none invented, and a cut costs one token at the
  most.
- `RequestEnds` excludes the streaming call to the local server, whose client has
  no timeout.
- `VerdictsFromAdmitted` combines the self-check with the author checks of the
  entries: dropping either breaks it. It is about verdicts that rest on records
  of packaged agents; nothing of the kind holds of the others (section 6).

## 5. What is proved

TLAPS checks about 4 600 obligations in eight modules. The assumptions are those
of the models' own `ASSUME`s (types of the constants, and that `None`, `NoKey` and
`NoOffer` are not values of what they stand in for), which TLC evaluates on the
instances; what a theorem needs beyond is its own hypothesis.

**SessionListenerProofs**, for any sets of keys, tokens and connections:

- `TypeCorrect`: `Spec => []TypeOK`.
- `SingleUseTheorem`, `ServedAsAgreedTheorem`. `SingleUse` is not inductive: a
  registered offer must never share its id with one already handed out, or
  its consumption would break it. `RegistryInv` adds that, that all ids are
  below `nextId`, and that everything registered or signalled was agreed on. The
  inductive invariant is `TypeOK /\ RegistryInv /\ ServedAsAgreed /\ SingleUse`;
  `RegistryTheorem` states its second part for itself.
  There is one lemma per way of writing the registry (a registration, a
  removal, a consumption that serves) and one for steps that write nothing.
- `RefusalTheorem`, `RegisterTheorem`, under `Direct = FALSE`. The invariant is
  `TypeOK /\ DaemonInv`: the token of a task that has looked it up is drawn, no
  signal for it is left, so what it finds the second time is its own offer
  or nothing. `DaemonTheorem` states that part for itself.
- `RestTheorem`, under the same hypothesis. `RestInv` adds that an offer of the
  REST plane is registered with the expiry the client has, or expired, or its
  token was handed to a connection, and that no signal for its token exists
  (tokens are drawn once): an offer leaves the registry by a purge after its
  expiry or by a consumption, and nothing replaces it.

**PipelineChainProofs**, for any vocabulary, prompt, budget, number of stages
and of failures. A hypothesis of all is `PredictTyped`: the model predicts a
token of the vocabulary. What survives speculation is stated for every K; the
rest for K = 0, the default of the configuration (config.rs:174), because with
K > 0 the chain is no longer greedy decoding (`chain_speculative`, `chain_purge`).

- `TypeCorrect`, every K. `TypeOK` is not inductive: the head of an empty pass or
  of an empty stream of tokens is of no type. `Sound` adds that neither is ever
  sent, that a stage in `reply` has something to send, and that the last stage has
  nobody to forward to. `DraftType` shows what the draft's recursion returns.
- `BudgetTheorem`, every K. `BudgetInv` adds that a pass begins only while a token
  is left; `KeptFits` bounds what is kept of a speculative pass.
- `ContextTheorem`, `QuietTheorem`, `RoomTheorem`, `GreedyOutput`, K = 0. The
  invariant is `Sound /\ ChainInv`, which holds for each link i by itself:
  `OnePass(i)`, a pass is in one place, on the link, in the stage or answered,
  with the token that is next in the greedy text, and nowhere if nobody above
  waits for it; and `InStep(i)`, the cache of a stage that lives is empty, or one
  token behind, or the whole context, depending on where the pass is, and a stage
  at rest has the cache its predecessor has. That a stage at rest has only quiet
  stages below it (`QuietBelow`, by induction along the chain) is why the
  coordinator may begin the next pass, and with `OnePass` why there is always
  room, for any limit. A step of stage i disturbs links i and i + 1 only
  (`Local`).
- `RefinementTheorem`, K = 0: initial states map to initial states, and under
  `Sound /\ ChainInv` the step that receives a token is `Greedy!Generate`, a step
  that gives up is `Greedy!Abort`, and any other is a stutter.
- `FailureTheorem`, every K, for N <= 2 and prompts of more than one token: a
  request fails only if something failed, the safety half of `Completes`. The
  invariant `SmoothInv` speaks of the time before anything failed: no link is
  closed, and a server without a cache has been sent nothing but the first pass.
  Both hypotheses are needed: a chain of three always fails (section 6), and a
  prompt of one token is sent as a decode, which a server without a cache refuses
  (conductor.rs:568).
- `CachesTheorem`, K = 0: after a success, a cache that is left belongs to a stage
  that is about to clear it or could not, the safety half of `PurgedAfterSuccess`;
  from `ChainInv` and that a stage before or after its task has no cache.

**ReleaseInstallerProofs**, for any set of manifests, any contents and any
number of faults:

- `TypeCorrect`.
- `SequenceTheorem`, `RollbackTheorem`, `ReplacedTheorem`: action properties. The
  inductive invariant is `TypeOK /\ RecordOrder /\ Progress`: recorded sequences
  are at most the accepted one, the previous one below the current one; and what
  the running installation has established (its sequence is new; what it is
  about to switch, or has switched, is the manifest's artifact).
- `IntactTheorem`: `Spec => []IntactRecords` when no version is published twice
  (`VersionsUnique`). The hypothesis is needed, as `installer_republished`
  shows. The key lemma is `FreshVersion`: a manifest with a new sequence is of no
  recorded version, so clearing its directory harms no record.
- `UnhealthyTheorem`, under `VersionsUnique`. `HealthInv`: a version that failed its
  health check was accepted, so that no manifest brings it back; and it is
  retired (quarantined and in neither record) or the running operation is
  about to retire it, unless an installed file was altered and no
  manifest will replace it (`BeyondRepair`).

**MeshNodeProofs**, for any nodes, any window and any period shorter than it:

- `MeshTypeCorrect`, `RecordIsConnectable`, `DeadNodeIsDropped`, `BeatHolds`. None
  of the three properties is inductive. `MeshInv` adds to the types: a running
  node's `deadAge` is zero and a recent heartbeat is at least as old as the
  node's absence (`Alive`); after a beat that arrived its age and the timer add
  up to the period (`OnTime`); rotations are pending only while the REST plane is
  up, which is after the endpoint was published, so that their records have no
  endpoint (`Dialable`). One lemma per action.

**TrustProofs**, for any agents, networks, signers and DNA properties:

- `TrustTypeCorrect`, `VerdictsAreFromAdmitted`, from `TrustInv`: members that run
  the packaged app were admitted, and every attestation and warrant of such an
  author is about, or by, that author, whatever the others commit.
- `PrivateNodeIsAdmitted`, from `HybridInv`: a started node has a valid
  configuration, and beyond the identity step an identity unless the mode is
  `sdwan_only`, which a valid private configuration excludes.
- `ShownPosts`, for any posts, patterns and pages. `BoardInv`: the list of posts has
  only what the integrity zome admits, and what is shown is admitted and
  alive. The lemmas about `Where`, `First` and `Reverse` say that what the reads
  build from a list has no other members; `PassTime` leaves no answer shown.

**ServeProofs**, for any machine, configuration, number of nodes, stages,
layers, experts and tokens:

- `OrphansNeedAKill`.
- `OffloadAlwaysFits`. The loop that takes a quarter of the layers away is a
  recursive function; `ReducedFits` follows its value by induction on the
  number of layers: it is zero or fits.
- `PlansCoverModel`, from `SplitPartitions` (the shares of an integer division
  and their remainder partition the layers) and `ShardPartitions` (remainders
  partition the experts). It needs at least as many layers as stages
  (`Totals`), which every model of the table has.
- `StreamIsRelayed`. `StreamInv` holds for each chunk: what it adds comes after all
  that was relayed, and is all that arrived with it except the line that had
  begun before.

**SchedulerProofs**, for any peers, sites and links: `ScheduledPeerIsEligible`,
with a lemma per strategy about every candidate it may return.

**LeastNumber** has induction in a form the provers can use. The library's
theorem takes a predicate as a parameter, which they cannot instantiate;
`Induction` takes a *set* of numbers that has 0 and is closed under successor
below a bound, and follows from the least counterexample. The recursive
functions of the models (`Draft`, `Reduced`, `Where`) are shown to exist and to
have their type with it.

All invariants were first checked by TLC on the runs' instances.

**Only model-checked.** Every invariant and every action property of a passing
run is proved, and so is the refinement. What TLC alone checks is the liveness
under fairness: `ConnectionsResolve`, `VerifiedIsServed`, `Completes`,
`CascadeClose`, `PurgedAfterSuccess`, `BeatingNodeReturns`, `RequestEnds`. The
prover has no rule for ENABLED, on which fairness rests. Not proved either,
because it is false in the code: anything about the output of a speculative
request beyond its length, its end, and the completion of a chain of three or more
stages (section 6). The refinement and the agreement of the caches are proved
for chains of any length all the same: a longer chain fails, and until then
puts no token out of place.

## 6. Disagreements between the code and its text

Each is shown by a run that is expected to fail, and described in
`PROJECT.json` with the lines quoted.

1. `listener_signal_race`: on the signal plane the requester may connect before
   the worker's daemon registered its token (the zome answers without waiting
   for the signal to be handled).
2. `chain_speculative`: with speculative decoding the output is not the greedy
   text. The last accepted token is pushed twice, the tokens a pass leaves
   unread answer the following passes, and rejected drafts stay in the caches.
3. `chain_purge`: a speculative request that succeeds may leave a KV-cache
   behind.
4. `chain_blocked`: a long speculative request never ends. Each pass leaves K
   token streams that nobody accepts. When a connection holds 100 of them, the
   last stage waits to open the next one, activations pile up behind it, and its
   predecessor waits to open a stream too; keep-alives hold the connection open.
5. `installer_republished`: a version published again under a higher sequence
   overwrites the files of the version it should keep as `previous`; when its
   health check fails it stays current and is not quarantined.

Others were met while modelling. The models contain what the code does; the
properties are stated around them, and no run is spent on showing them:

- *Plans of the zome never arrive.* The zome tags its plan `type` in Pascal case
  (inference-mesh coordinator, 470), the daemon's type expects `mode` in snake
  case: `DecodePlan` is constant. The comment at 467-468 says the opposite.
  Without configured stages the static plan is solo, so the zome is asked only
  when a stage's peer has no endpoint, and then the request falls back to the
  local server.
- *A daemon's own announcements list no model* (`holochain.rs:838`): it appears
  among the available nodes only after somebody announced it through the zome-call
  route, and as often as that was done.
- *Rotation and the keyring.* `router.rs:335-336` says that a restart uses the
  rotated key; `load_or_generate_keyring` prefers the seed in the keyring, which a
  rotation leaves alone. If the keyring cannot be written but says `NoEntry`, each
  start mints a new key and overwrites the rotated one. A stop inside `fs::write`
  leaves a file that refuses both start (without a keyring) and rotation.
  `warrants_emitted` is always `true`.
- *A failed announcement followed by a successful endpoint update* puts the new
  address into an earlier run's record, which may have another key.
- *Layers on the GPU.* `llama.rs:281-285` promises the automatic reduction; the -1
  that `detect_gpu_layers` returns for every GPU is never reduced.
- *Chains of three.* The planner builds chains of up to four nodes; with three or
  more the second one is given no successor (`conductor.rs:126`), and the request
  fails (`HasNext`).
- *Streams.* `chat.rs:230` means to parse the server's events and re-emit them,
  but each chunk of the network is parsed by itself: a token whose JSON is cut
  between two chunks is lost. An error of the mesh or of the server ends in the
  same final chunk as success.
- *The listener's timer* (`listener.rs:114`) covers the wait for the
  authentication stream and not the reading of its 32 bytes.
- *HybridNode.* `validate` looks at created entries only (integrity
  lib.rs:106-113), so an updated attestation or warrant need not name its author,
  and `genesis_self_check` runs on the joiner only. `schedule` says that it
  returns none outside the latency budget (`scheduler.rs:49`); a local peer and
  round-robin are not held to it. A refutation never lifts a warrant and no
  attestation expires. The private flags of the configuration and of the DNA are
  never compared.
- *Blackboard.* Patterns are looked for in the content of a created post only: its
  tags, which the reads return, and updated posts are not searched.
  `search_by_tag` and `my_posts` look at one page of links before the expiry
  filter and may miss live posts behind expired ones.

## 7. What is not modelled, and why

- Two processes of the installer on one directory would be a module of their own.
- Left out for good: cryptography (certificates, signatures, hashes) and byte
  formats (framing, FP16 conversion, compression, serialisation), which no
  property here depends on; `Frame::decode` has no caller in the daemon, nor have
  `load_model`, `restart_with_model`, the helpers of `hybridnode-core/model.rs`,
  and the daemon's `discover_nodes_p2p` with its cached and optimised forms (and
  so the discovery cache and the geographic scores). The CLI and the MCP bridge
  keep no state. The spikes other than `spike-release`, the hash tool, the metrics
  and the deployment scripts leave nothing another step depends on. Warrants of
  the mesh are sent to a zome that does not exist. Requests and metrics of the
  inference-mesh zome are entries nothing reads back.
- Simplified: the DHT gives the latest record; the delay of its gossip is left
  out. The words a blackboard search looks for select among what `GetRecentPosts`
  returns.
- Simplified: one request at a time in `PipelineChain` (requests have sessions,
  streams and cache entries of their own, and share only the server process); a
  prompt of two tokens in its runs; `/clear` ends with or without having cleared,
  as its result is ignored; two installer processes on one directory, which the
  code does not exclude, are not modelled.
