---------------------------- MODULE MCPipelineChain ----------------------------
(* Instances of PipelineChain for TLC.                                      *)
EXTENDS PipelineChain

MCVocab == 0 .. 2
MCPrompt == <<1, 2>>

(* A model whose next token depends on every token of the context and on   *)
(* its length; 0, the end of sequence, comes after six tokens at the latest. *)
MCPredict(ctx) ==
  LET weight[n \in 0 .. Len(ctx)] == IF n = 0 THEN 0 ELSE weight[n - 1] + n * ctx[n]
  IN  IF Len(ctx) >= 6 THEN 0 ELSE (weight[Len(ctx)] % 2) + 1

(* A model without an end of sequence: the text is as long as the budget.   *)
MCPredictOn(ctx) == ((Len(ctx) + ctx[Len(ctx)]) % 2) + 1
=============================================================================
