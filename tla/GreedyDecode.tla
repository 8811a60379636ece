------------------------------ MODULE GreedyDecode ------------------------------
(***************************************************************************)
(* What a distributed inference promises its caller: the text of a greedy  *)
(* decoding of the whole model, as if one machine had run it, cut at the   *)
(* end-of-sequence token or at the token budget, or an error.              *)
(***************************************************************************)
EXTENDS Naturals, Sequences

CONSTANTS
  Vocab,      (* token ids                                                    *)
  Prompt,     (* the tokenized prompt                                         *)
  Eos,        (* end-of-sequence token of the model                           *)
  Budget,     (* tokens the caller asked for (512 if it asked for none)       *)
  Predict(_)  (* the model: next token after a context                        *)

VARIABLES
  out,        (* tokens generated so far                                      *)
  result      (* "running", "done" or "failed"                                *)

vars == <<out, result>>

Finished(o) == o # <<>> /\ (o[Len(o)] = Eos \/ Len(o) >= Budget)

Init == out = <<>> /\ result = "running"

Generate ==
  /\ result = "running"
  /\ out' = Append(out, Predict(Prompt \o out))
  /\ result' = IF Finished(out') THEN "done" ELSE "running"

Abort ==
  /\ result = "running"
  /\ result' = "failed"
  /\ UNCHANGED out

Next == Generate \/ Abort

Spec == Init /\ [][Next]_vars
=============================================================================
