----------------------------- MODULE PipelineChain -----------------------------
(***************************************************************************)
(* One inference over a chain of stages: the coordinator                   *)
(* (run_pipeline_inference) and the session task of each worker            *)
(* (handle_pipeline_session), crates/ainonymous-daemon/src/conductor.rs,   *)
(* with the KV-cache of each worker's scripts/pipeline_server.py.          *)
(*                                                                         *)
(* Link i is the QUIC connection from stage i - 1 (0: the coordinator) to  *)
(* stage i.  Activations go down it and streams of tokens come up; both    *)
(* are accepted in the order they were opened.  The hidden state of a      *)
(* token is the token: that it was computed after the same context at      *)
(* every stage is a property (NextInContext), not an assumption.           *)
(***************************************************************************)
EXTENDS Integers, Sequences, FiniteSets

CONSTANTS
  N,          (* stages                                                       *)
  Vocab, Prompt, Eos, Budget, Predict(_),   (* as in GreedyDecode             *)
  K,          (* speculative_k of the coordinator's configuration             *)
  MaxStreams, (* streams either end of a connection may have open: the default *)
              (* of the transport, 100, which no configuration changes        *)
  MaxFaults   (* failures in a behaviour (bounds the model)                   *)

Stages == 1 .. N

ASSUME ChainAssumption ==
  /\ N \in Nat \ {0} /\ Budget \in Nat \ {0}
  /\ K \in Nat /\ MaxStreams \in Nat \ {0} /\ MaxFaults \in Nat
  /\ Prompt \in Seq(Vocab) /\ Prompt # <<>> /\ Eos \in Vocab

VARIABLES
  cpc,     (* coordinator: "idle", "send", "recv", "closing", "done", "failed" *)
  pass,    (* the pass it is making: input tokens and speculative_k           *)
  out,     (* out_ids                                                         *)
  conn,    (* each link: "none", "open" or "closed"                           *)
  fwd,     (* passes sent down each link and not yet received                 *)
  bwd,     (* token streams opened up each link and not yet accepted          *)
  pc,      (* where each stage's session task stands                          *)
  work,    (* the pass each stage is working on                               *)
  todo,    (* tokens each stage has still to send up                          *)
  kv,      (* tokens in each server's KV-cache; empty: request unknown        *)
  faults   (* failures so far                                                 *)

coord == <<cpc, pass, out>>
links == <<conn, fwd, bwd>>
tasks == <<pc, work, todo, kv>>
vars == <<coord, links, tasks, faults>>

Passes == [ids : Seq(Vocab), k : {0, K}]
Idle == [ids |-> <<>>, k |-> 0]
PC == {"absent", "waiting", "layers", "dial", "forward", "awaiting", "reply",
       "clearing", "left", "unclean", "failed"}

TypeOK ==
  /\ cpc \in {"idle", "send", "recv", "closing", "done", "failed"}
  /\ pass \in Passes
  /\ out \in Seq(Vocab)
  /\ conn \in [Stages -> {"none", "open", "closed"}]
  /\ fwd \in [Stages -> Seq(Passes)]
  /\ bwd \in [Stages -> Seq(Seq(Vocab))]
  /\ pc \in [Stages -> PC]
  /\ work \in [Stages -> Passes]
  /\ todo \in [Stages -> Seq(Vocab)]
  /\ kv \in [Stages -> Seq(Vocab)]
  /\ faults \in 0 .. MaxFaults

Init ==
  /\ cpc = "idle" /\ pass = Idle /\ out = <<>>
  /\ conn = [i \in Stages |-> "none"]
  /\ fwd = [i \in Stages |-> <<>>]
  /\ bwd = [i \in Stages |-> <<>>]
  /\ pc = [i \in Stages |-> "absent"]
  /\ work = [i \in Stages |-> Idle]
  /\ todo = [i \in Stages |-> <<>>]
  /\ kv = [i \in Stages |-> <<>>]
  /\ faults = 0

-----------------------------------------------------------------------------
Least(S) == CHOOSE i \in S : \A j \in S : i <= j
Greatest(S) == CHOOSE i \in S : \A j \in S : i >= j
Upto(s, n) == IF n < Len(s) THEN SubSeq(s, 1, n) ELSE s
Final(s) == s[Len(s)]

Fault == faults < MaxFaults /\ faults' = faults + 1

(* A link, once open, closes for both its ends.                            *)
Closed(S) == [l \in Stages |-> IF l \in S /\ conn[l] = "open" THEN "closed" ELSE conn[l]]

(* send_single_token opens one stream per token; the receiver accepts one  *)
(* stream and reads up to n tokens from it.  Whoever opens a stream waits  *)
(* while MaxStreams of its own have not been accepted.                     *)
Room(s) == Len(s) < MaxStreams
Opened(l, tok) == [bwd EXCEPT ![l] = Append(@, <<tok>>)]
Received(l, n) == Upto(Head(bwd[l]), n)
Accepted(l) == [bwd EXCEPT ![l] = Tail(@)]

Count(p) == p.k + 1

-----------------------------------------------------------------------------
(* Coordinator                                                             *)

(* make_ngram_draft: the successor of the latest occurrence of a token in  *)
(* the tokens generated so far, or the token itself.                       *)
Successor(h, x) ==
  LET at == {i \in 1 .. Len(h) - 1 : h[i] = x}
  IN  IF at = {} THEN x ELSE h[Greatest(at) + 1]

Draft(h, n) ==
  LET d[j \in 0 .. n] == IF j = 0 THEN <<Final(h)>>
                         ELSE Append(d[j - 1], Successor(h, Final(d[j - 1])))
  IN  Tail(d[n])

(* Mutant of Finished: one token more than the budget.                     *)
FinishedLate(o) == Final(o) = Eos \/ Len(o) > Budget

Finished(o) == Final(o) = Eos \/ Len(o) >= Budget

(* Mutants of NextPass: seq_len is written where speculative_k belongs; the *)
(* whole output is sent again at every pass.                               *)
NextPassSeqLen(o) == [ids |-> <<Final(o)>>, k |-> 1]
NextPassWhole(o) == [ids |-> o, k |-> 0]

NextPass(o) ==
  IF K > 0 /\ Len(o) + K <= Budget
  THEN [ids |-> <<Final(o)>> \o Draft(o, K), k |-> K]
  ELSE [ids |-> <<Final(o)>>, k |-> 0]

(* The head of the generation loop, with the tokens there are by then.     *)
Continue(o) ==
  /\ out' = o
  /\ IF Finished(o)
     THEN cpc' = "closing" /\ UNCHANGED pass
     ELSE cpc' = "send" /\ pass' = NextPass(o)

(* Tokenize, negotiate and connect to the first stage.                     *)
Start ==
  /\ cpc = "idle"
  /\ cpc' = "send"
  /\ pass' = [ids |-> Prompt, k |-> 0]
  /\ conn' = [conn EXCEPT ![1] = "open"]
  /\ UNCHANGED <<out, fwd, bwd, tasks, faults>>

StartFails ==
  /\ cpc = "idle" /\ Fault
  /\ cpc' = "failed"
  /\ UNCHANGED <<pass, out, links, tasks>>

SendPass ==
  /\ cpc = "send" /\ conn[1] = "open" /\ Room(fwd[1])
  /\ cpc' = "recv"
  /\ fwd' = [fwd EXCEPT ![1] = Append(@, pass)]
  /\ UNCHANGED <<pass, out, conn, bwd, tasks, faults>>

(* send_pass_and_recv, then the head of the loop.                          *)
ReceiveToken ==
  /\ cpc = "recv" /\ pass.k = 0 /\ bwd[1] # <<>>
  /\ bwd' = Accepted(1)
  /\ Continue(Append(out, Received(1, 1)[1]))
  /\ UNCHANGED <<conn, fwd, tasks, faults>>

(* The tokens of a speculative pass that are kept: up to the first that is *)
(* not its draft, ends the text or fills the budget.                       *)
Kept(draft, verified) ==
  LET stop == {i \in 1 .. Len(verified) :
                 \/ i > Len(draft) \/ verified[i] # draft[i]
                 \/ verified[i] = Eos \/ Len(out) + i >= Budget}
  IN  IF stop = {} THEN verified ELSE Upto(verified, Least(stop))

(* send_speculative_and_recv_many, the acceptance of the draft and, unless *)
(* the text is finished, the head of the loop with the last token kept.    *)
ReceiveVerified ==
  /\ cpc = "recv" /\ pass.k > 0 /\ bwd[1] # <<>>
  /\ bwd' = Accepted(1)
  /\ LET o == out \o Kept(Tail(pass.ids), Received(1, Count(pass)))
     IN  Continue(IF Finished(o) THEN o ELSE Append(o, Final(o)))
  /\ UNCHANGED <<conn, fwd, tasks, faults>>

(* Detokenize, whose errors are ignored, and close the session.            *)
Close ==
  /\ cpc = "closing"
  /\ cpc' = "done"
  /\ conn' = Closed({1})
  /\ UNCHANGED <<pass, out, fwd, bwd, tasks, faults>>

(* An error on the connection ends the request and drops the session.      *)
CoordinatorFails ==
  /\ cpc \in {"send", "recv"} /\ conn[1] = "closed"
  /\ cpc' = "failed"
  /\ UNCHANGED <<pass, out, links, tasks, faults>>

Coordinator ==
  \/ Start \/ StartFails \/ SendPass \/ ReceiveToken \/ ReceiveVerified
  \/ Close \/ CoordinatorFails

-----------------------------------------------------------------------------
(* Stage i                                                                 *)

Goto(i, from, to) ==
  /\ pc[i] = from
  /\ pc' = [pc EXCEPT ![i] = to]

(* Mutant of Fails: the connection to the next stage is kept.              *)
FailsUpstreamOnly(i, from) ==
  /\ Goto(i, from, "failed")
  /\ conn' = Closed({i})
  /\ UNCHANGED <<coord, fwd, bwd, work, todo>>

(* The session task returns an error: its two connections are dropped and  *)
(* the KV-cache is not cleared.                                            *)
Fails(i, from) ==
  /\ Goto(i, from, "failed")
  /\ conn' = Closed({i, i + 1})
  /\ UNCHANGED <<coord, fwd, bwd, work, todo>>

(* The listener authenticates the connection (module SessionListener), or  *)
(* refuses it.                                                             *)
Accept(i) ==
  /\ Goto(i, "absent", "waiting")
  /\ conn[i] = "open"
  /\ UNCHANGED <<coord, links, work, todo, kv, faults>>

Refuse(i) ==
  /\ pc[i] = "absent" /\ conn[i] = "open" /\ Fault
  /\ conn' = Closed({i})
  /\ UNCHANGED <<coord, fwd, bwd, tasks>>

Receive(i) ==
  /\ Goto(i, "waiting", "layers")
  /\ fwd[i] # <<>>
  /\ work' = [work EXCEPT ![i] = Head(fwd[i])]
  /\ fwd' = [fwd EXCEPT ![i] = Tail(@)]
  /\ UNCHANGED <<coord, conn, bwd, todo, kv, faults>>

IsPrefill(p) == Len(p.ids) > 1 /\ p.k = 0

(* Mutant of Cached: /decode stores the new positions only.                *)
CachedLatest(i, p) == IF i \in Stages THEN p.ids ELSE <<>>

(* The KV-cache of server i after a pass: /prefill replaces it, /decode    *)
(* extends it with every position of its input.                            *)
Cached(i, p) == IF IsPrefill(p) THEN p.ids ELSE kv[i] \o p.ids

(* Mutant of Answer: one token per position whatever the pass.             *)
AnswerEveryPosition(i, p) ==
  LET ctx == Cached(i, p)
      n   == Len(ctx) - Len(p.ids)
  IN  [j \in 1 .. Len(p.ids) |-> Predict(SubSeq(ctx, 1, n + j))]

(* The greedy tokens the last stage answers with: one for a prefill or a   *)
(* decode, one per position for a speculative pass.                        *)
Answer(i, p) ==
  LET ctx == Cached(i, p)
      n   == Len(ctx) - Len(p.ids)
  IN  IF p.k = 0 THEN <<Predict(ctx)>>
      ELSE Upto([j \in 1 .. Len(p.ids) |-> Predict(SubSeq(ctx, 1, n + j))], Count(p))

(* /decode answers 404 for a request it has no cache of.                   *)
Known(i, p) == IsPrefill(p) \/ kv[i] # <<>>

Layers(i) ==
  LET p == work[i]
  IN  /\ Goto(i, "layers", IF i = N THEN "reply"
                           ELSE IF conn[i + 1] = "none" THEN "dial" ELSE "forward")
      /\ Known(i, p)
      /\ kv' = [kv EXCEPT ![i] = Cached(i, p)]
      /\ todo' = [todo EXCEPT ![i] = IF i = N THEN Answer(i, p) ELSE @]
      /\ UNCHANGED <<coord, links, work, faults>>

(* The call to the server fails, before or after it updated its cache.     *)
LayersFail(i) ==
  /\ Fails(i, "layers")
  /\ \/ ~Known(i, work[i]) /\ UNCHANGED <<kv, faults>>
     \/ Fault /\ UNCHANGED kv
     \/ Known(i, work[i]) /\ Fault /\ kv' = [kv EXCEPT ![i] = Cached(i, work[i])]

(* Mutant of HasNext: the stages are numbered from 0.                      *)
HasNextFromZero(i) == i = 0

(* next_agent_id: the coordinator puts the second stage in the first       *)
(* stage's offer; a worker puts none in the offer it asks for.             *)
HasNext(i) == i = 1

Dial(i) ==
  /\ Goto(i, "dial", "forward")
  /\ HasNext(i)
  /\ conn' = [conn EXCEPT ![i + 1] = "open"]
  /\ UNCHANGED <<coord, fwd, bwd, work, todo, kv, faults>>

DialFails(i) ==
  /\ Fails(i, "dial")
  /\ IF HasNext(i) THEN Fault ELSE UNCHANGED faults
  /\ UNCHANGED kv

Forward(i) ==
  /\ Goto(i, "forward", "awaiting")
  /\ conn[i + 1] = "open" /\ Room(fwd[i + 1])
  /\ fwd' = [fwd EXCEPT ![i + 1] = Append(@, work[i])]
  /\ UNCHANGED <<coord, conn, bwd, work, todo, kv, faults>>

Await(i) ==
  /\ Goto(i, "awaiting", "reply")
  /\ bwd[i + 1] # <<>>
  /\ todo' = [todo EXCEPT ![i] = Received(i + 1, Count(work[i]))]
  /\ bwd' = Accepted(i + 1)
  /\ UNCHANGED <<coord, conn, fwd, work, kv, faults>>

NextLost(i) ==
  /\ Fails(i, "forward") \/ Fails(i, "awaiting")
  /\ conn[i + 1] = "closed"
  /\ UNCHANGED <<kv, faults>>

Reply(i) ==
  /\ Goto(i, "reply", IF Len(todo[i]) = 1 THEN "waiting" ELSE "reply")
  /\ conn[i] = "open" /\ Room(bwd[i])
  /\ bwd' = Opened(i, Head(todo[i]))
  /\ todo' = [todo EXCEPT ![i] = Tail(@)]
  /\ UNCHANGED <<coord, conn, fwd, work, kv, faults>>

ReplyFails(i) ==
  /\ Fails(i, "reply")
  /\ conn[i] = "closed"
  /\ UNCHANGED <<kv, faults>>

(* Mutants of Clear: the next stage's connection is kept; the cache is     *)
(* left to the server.                                                     *)
ClearKeepsNext(i) ==
  /\ \/ Goto(i, "clearing", "left") /\ kv' = [kv EXCEPT ![i] = <<>>] /\ UNCHANGED faults
     \/ Goto(i, "clearing", "unclean") /\ Fault /\ UNCHANGED kv
  /\ UNCHANGED <<coord, conn, fwd, bwd, work, todo>>

ClearNothing(i) ==
  /\ Goto(i, "clearing", "left")
  /\ conn' = Closed({i + 1})
  /\ UNCHANGED <<coord, fwd, bwd, work, todo, kv, faults>>

(* The upstream closed: the loop ends, the cache is cleared (the result of *)
(* /clear is ignored) and the connection to the next stage is dropped.     *)
Leave(i) ==
  /\ Goto(i, "waiting", "clearing")
  /\ conn[i] = "closed"
  /\ UNCHANGED <<coord, links, work, todo, kv, faults>>

Clear(i) ==
  /\ \/ Goto(i, "clearing", "left") /\ kv' = [kv EXCEPT ![i] = <<>>] /\ UNCHANGED faults
     \/ Goto(i, "clearing", "unclean") /\ Fault /\ UNCHANGED kv
  /\ conn' = Closed({i + 1})
  /\ UNCHANGED <<coord, fwd, bwd, work, todo>>

Task(i) ==
  \/ Accept(i) \/ Refuse(i) \/ Receive(i) \/ Layers(i) \/ LayersFail(i)
  \/ Dial(i) \/ DialFails(i) \/ Forward(i) \/ Await(i) \/ NextLost(i)
  \/ Reply(i) \/ ReplyFails(i) \/ Leave(i) \/ Clear(i)

(* The network, or the idle timeout of the transport, loses a connection.  *)
ConnectionLost(l) ==
  /\ conn[l] = "open" /\ Fault
  /\ conn' = Closed({l})
  /\ UNCHANGED <<coord, fwd, bwd, tasks>>

-----------------------------------------------------------------------------
Next == Coordinator \/ \E i \in Stages : Task(i) \/ ConnectionLost(i)

Spec == Init /\ [][Next]_vars

(* Every task that can go on does: the waits on the local server end with  *)
(* the 120 s timeout of the HTTP client.  Those on a peer end only with    *)
(* what the peer sends or accepts, or with the end of the connection:      *)
(* nothing is asked for them.                                              *)
Fairness == WF_vars(Coordinator) /\ \A i \in Stages : WF_vars(Task(i))
FairSpec == Spec /\ Fairness

-----------------------------------------------------------------------------
(* Properties                                                              *)

Over == cpc \in {"done", "failed"}

(* A chain without speculation implements the greedy decoding of one       *)
(* machine (conductor.rs:277-430, pipeline_server.py:336-476), failures of *)
(* servers and connections included.                                       *)
Greedy == INSTANCE GreedyDecode WITH
  result <- CASE cpc \in {"closing", "done"} -> "done"
              [] cpc = "failed" -> "failed"
              [] OTHER -> "running"
ImplementsGreedy == Greedy!Spec

(* The same, as a statement about the tokens alone: each is what the model *)
(* predicts after the prompt and the tokens before it (conductor.rs:355).  *)
OutputIsGreedy ==
  \A j \in 1 .. Len(out) : out[j] = Predict(Prompt \o SubSeq(out, 1, j - 1))

(* When a stage is about to run its layers, its cache and the input are    *)
(* together exactly the prompt and the output so far: no stage ever works  *)
(* on a context that another stage does not have (conductor.rs:88-108,     *)
(* pipeline_server.py:366, 439-440).                                       *)
NextInContext ==
  \A i \in Stages : pc[i] = "layers" /\ Known(i, work[i]) =>
    Cached(i, work[i]) = Prompt \o out

(* A pass begins on a quiet chain: nothing of an earlier pass, activations *)
(* or tokens, is left on a link or in a stage (conductor.rs:334-404).      *)
QuietBetweenPasses ==
  cpc = "send" => \A i \in Stages :
    /\ fwd[i] = <<>> /\ bwd[i] = <<>> /\ todo[i] = <<>>
    /\ pc[i] \notin {"layers", "dial", "forward", "awaiting", "reply"}

(* Without speculation no stage, and not the coordinator, ever has to wait *)
(* for room on a link, however small the limit: there is one stream to     *)
(* accept for each that is opened (conductor.rs:116-118, 459, 521, 729).   *)
NeverBlocked ==
  /\ cpc = "send" => Room(fwd[1])
  /\ \A i \in Stages :
       /\ pc[i] = "forward" => Room(fwd[i + 1])
       /\ pc[i] = "reply" => Room(bwd[i])

(* The caller never gets more tokens than it asked for (conductor.rs:338). *)
WithinBudget == Len(out) <= Budget

(* The request succeeds unless something failed.                           *)
Completes == <>(cpc = "done" \/ (cpc = "failed" /\ faults > 0))

(* The end of the request reaches every stage: none is left waiting on a   *)
(* connection, or holding one (conductor.rs:94, 156-166, 409).             *)
CascadeClose ==
  Over ~> \A i \in Stages :
            /\ pc[i] \in {"absent", "left", "unclean", "failed"}
            /\ conn[i] # "open"

(* A request that succeeded leaves no KV-cache behind, except where /clear *)
(* itself failed (conductor.rs:258-260, 409).                              *)
PurgedAfterSuccess ==
  cpc = "done" ~> \A i \in Stages : kv[i] = <<>> \/ pc[i] = "unclean"
=============================================================================
