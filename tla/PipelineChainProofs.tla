--------------------------- MODULE PipelineChainProofs ---------------------------
(***************************************************************************)
(* Theorems about PipelineChain, for any number of stages, vocabulary,     *)
(* prompt, budget and number of failures, and any model that predicts a    *)
(* token of the vocabulary (PredictTyped).                                 *)
(*                                                                         *)
(* Types and the budget hold whatever speculative_k is (K).  What relates  *)
(* the chain to one machine holds without speculation (K = 0, the default  *)
(* of the configuration); with it, it does not (the violation runs).       *)
(***************************************************************************)
EXTENDS PipelineChain, SequenceTheorems, LeastNumber

USE ChainAssumption

(* The model predicts a token of the vocabulary.                           *)
PredictTyped == \A s \in Seq(Vocab) : Predict(s) \in Vocab

-----------------------------------------------------------------------------
(* Operators                                                               *)

LEMMA ConcatText ==
  ASSUME NEW T, NEW s \in Seq(T), NEW t \in Seq(T) \ {<<>>}
  PROVE  /\ s \o t \in Seq(T) \ {<<>>} /\ Len(s \o t) = Len(s) + Len(t)
<1>1. s \o t \in Seq(T) /\ Len(s \o t) = Len(s) + Len(t)
  BY ConcatProperties
<1>2. Len(s) \in Nat /\ Len(t) \in Nat \ {0}
  BY LenProperties
<1>. QED  BY <1>1, <1>2, LenProperties

LEMMA LeastMember ==
  ASSUME NEW S \in SUBSET Nat, S # {}
  PROVE  Least(S) \in S /\ \A j \in S : Least(S) <= j
BY LeastNatural DEF Least

LEMMA GreatestMember ==
  ASSUME NEW S \in SUBSET Nat, S # {}, NEW b \in Nat, \A m \in S : m <= b
  PROVE  Greatest(S) \in S
BY GreatestNatural DEF Greatest

LEMMA UptoProperties ==
  ASSUME NEW T, NEW s \in Seq(T), NEW n \in Nat
  PROVE  /\ Upto(s, n) \in Seq(T)
         /\ Len(Upto(s, n)) <= n
         /\ s # <<>> /\ n # 0 => Upto(s, n) # <<>>
<1>1. CASE n < Len(s)
  <2>1. SubSeq(s, 1, n) \in Seq(T) /\ Len(SubSeq(s, 1, n)) = n
    BY <1>1, SubSeqProperties, LenProperties
  <2>. QED  BY <1>1, <2>1 DEF Upto
<1>2. CASE ~(n < Len(s))
  BY <1>2, LenProperties DEF Upto
<1>. QED  BY <1>1, <1>2

LEMMA FunctionIsText ==
  ASSUME NEW T, NEW n \in Nat, NEW f \in [1 .. n -> T]
  PROVE  f \in Seq(T) /\ Len(f) = n
OBVIOUS

LEMMA FinalType ==
  ASSUME NEW T, NEW s \in Seq(T), s # <<>>
  PROVE  Final(s) \in T
BY LenProperties, ElementOfSeq DEF Final

(* The successor of a token in a text is a token.                          *)
LEMMA SuccessorType ==
  ASSUME NEW T, NEW h \in Seq(T), NEW x \in T
  PROVE  Successor(h, x) \in T
<1>. DEFINE at == {i \in 1 .. Len(h) - 1 : h[i] = x}
<1>1. CASE at = {}
  BY <1>1 DEF Successor
<1>2. CASE at # {}
  <2>1. Greatest(at) \in at
    <3>1. at \in SUBSET Nat /\ \A m \in at : m <= Len(h)
      BY LenProperties
    <3>. HIDE DEF at
    <3>. QED  BY <1>2, <3>1, GreatestMember, LenProperties
  <2>2. Greatest(at) + 1 \in 1 .. Len(h)
    BY <2>1, LenProperties
  <2>. QED  BY <1>2, <2>2, ElementOfSeq DEF Successor
<1>. QED  BY <1>1, <1>2

(* The recursion of Draft is well defined.                                 *)
Drafts(d, h, n) ==
  d = [j \in 0 .. n |-> IF j = 0 THEN <<Final(h)>>
                        ELSE Append(d[j - 1], Successor(h, Final(d[j - 1])))]

LEMMA DraftsExist ==
  ASSUME NEW h, NEW b \in Nat
  PROVE  \E d : Drafts(d, h, b)
<1>. DEFINE S == {n \in Nat : \E d : Drafts(d, h, n)}
<1>1. 0 \in S
  <2>. DEFINE d == [j \in 0 .. 0 |-> <<Final(h)>>]
  <2>1. d = [j \in 0 .. 0 |-> IF j = 0 THEN <<Final(h)>>
                 ELSE Append(d[j - 1], Successor(h, Final(d[j - 1])))]
    OBVIOUS
  <2>2. Drafts(d, h, 0)
    BY <2>1 DEF Drafts
  <2>. QED  BY <2>2
<1>2. ASSUME NEW n \in Nat, n \in S PROVE n + 1 \in S
  <2>1. PICK d : Drafts(d, h, n)
    BY <1>2
  <2>. DEFINE e == [j \in 0 .. n + 1 |->
                      IF j = 0 THEN <<Final(h)>>
                      ELSE Append(d[j - 1], Successor(h, Final(d[j - 1])))]
  <2>2. ASSUME NEW j \in 0 .. n PROVE e[j] = d[j]
    <3>1. d[j] = IF j = 0 THEN <<Final(h)>>
                 ELSE Append(d[j - 1], Successor(h, Final(d[j - 1])))
      BY <2>1 DEF Drafts
    <3>. QED  BY <3>1
  <2>3. ASSUME NEW j \in 0 .. n + 1, j # 0 PROVE e[j - 1] = d[j - 1]
    <3>1. j - 1 \in 0 .. n
      BY <2>3
    <3>. HIDE DEF e
    <3>. QED  BY <2>2, <3>1
  <2>4. e = [j \in 0 .. n + 1 |->
               IF j = 0 THEN <<Final(h)>>
               ELSE Append(e[j - 1], Successor(h, Final(e[j - 1])))]
    <3>. DEFINE F(g, j) == IF j = 0 THEN <<Final(h)>>
                           ELSE Append(g[j - 1], Successor(h, Final(g[j - 1])))
    <3>1. \A j \in 0 .. n + 1 : F(e, j) = F(d, j)
      <4>. HIDE DEF e
      <4>. QED  BY <2>3
    <3>2. e = [j \in 0 .. n + 1 |-> F(d, j)]
      OBVIOUS
    <3>. HIDE DEF F, e
    <3>3. e = [j \in 0 .. n + 1 |-> F(e, j)]
      BY <3>1, <3>2
    <3>. QED  BY <3>3 DEF F
  <2>5. Drafts(e, h, n + 1)
    <3>. HIDE DEF e
    <3>. QED  BY <2>4 DEF Drafts
  <2>. QED  BY <2>5
<1>. HIDE DEF S
<1>3. b \in S
  <2>1. \A n \in Nat : n < b /\ n \in S => n + 1 \in S
    BY <1>2
  <2>. QED  BY ONLY b \in Nat, <1>1, <2>1, Induction
<1>. QED  BY <1>3 DEF S

(* A draft of n tokens.                                                    *)
LEMMA DraftType ==
  ASSUME NEW T, NEW h \in Seq(T), h # <<>>, NEW n \in Nat
  PROVE  Draft(h, n) \in Seq(T) /\ Len(Draft(h, n)) = n
<1>. DEFINE d[j \in 0 .. n] == IF j = 0 THEN <<Final(h)>>
                               ELSE Append(d[j - 1], Successor(h, Final(d[j - 1])))
<1>2. Draft(h, n) = Tail(d[n])
  BY DEF Draft
<1>1. Drafts(d, h, n)
  <2>1. \E g : Drafts(g, h, n)
    BY DraftsExist
  <2>. QED  BY <2>1 DEF Drafts
<1>. HIDE DEF d
<1>. DEFINE S == {j \in 0 .. n : d[j] \in Seq(T) /\ Len(d[j]) = j + 1}
<1>3. 0 \in S
  <2>1. d[0] = <<Final(h)>>
    BY <1>1 DEF Drafts
  <2>2. Final(h) \in T
    BY FinalType
  <2>3. <<Final(h)>> \in Seq(T) /\ Len(<<Final(h)>>) = 0 + 1
    BY <2>2
  <2>4. d[0] \in Seq(T) /\ Len(d[0]) = 0 + 1
    BY <2>1, <2>3
  <2>. QED  BY <2>4
<1>4. ASSUME NEW j \in Nat, j < n, j \in S PROVE j + 1 \in S
  <2>. j + 1 \in 0 .. n /\ j + 1 # 0 /\ (j + 1) - 1 = j
    BY <1>4
  <2>1. d[j + 1] = Append(d[j], Successor(h, Final(d[j])))
    BY <1>1 DEF Drafts
  <2>2. d[j] \in Seq(T) /\ Len(d[j]) = j + 1 /\ d[j] # <<>>
    BY <1>4, LenProperties
  <2>3. Successor(h, Final(d[j])) \in T
    BY <2>2, FinalType, SuccessorType
  <2>4. d[j + 1] \in Seq(T) /\ Len(d[j + 1]) = (j + 1) + 1
    BY <2>1, <2>2, <2>3, AppendProperties
  <2>. QED  BY <2>4
<1>. HIDE DEF S
<1>5. n \in S
  <2>1. \A j \in Nat : j < n /\ j \in S => j + 1 \in S
    BY <1>4
  <2>. QED  BY ONLY n \in Nat, <1>3, <2>1, Induction
<1>6. d[n] \in Seq(T) /\ Len(d[n]) = n + 1
  BY <1>5 DEF S
<1>7. d[n] # <<>>
  BY <1>6, LenProperties
<1>. QED  BY <1>2, <1>6, <1>7, HeadTailProperties
-----------------------------------------------------------------------------
(* Types, for every K                                                      *)

Busy == {"layers", "dial", "forward", "awaiting", "reply"}

Text == Seq(Vocab) \ {<<>>}
Work == [ids : Text, k : {0, K}]

(* What TypeOK needs: no pass is empty, no stream of tokens is empty, a    *)
(* stage that replies has something to send, and the last stage has nobody *)
(* to forward to.                                                          *)
Sound ==
  /\ cpc \in {"idle", "send", "recv", "closing", "done", "failed"}
  /\ pass \in Passes /\ out \in Seq(Vocab)
  /\ cpc \in {"send", "recv"} => pass \in Work
  /\ conn \in [Stages -> {"none", "open", "closed"}]
  /\ fwd \in [Stages -> Seq(Work)]
  /\ bwd \in [Stages -> Seq(Text)]
  /\ pc \in [Stages -> PC] /\ work \in [Stages -> Passes]
  /\ todo \in [Stages -> Seq(Vocab)] /\ kv \in [Stages -> Seq(Vocab)]
  /\ faults \in 0 .. MaxFaults
  /\ \A i \in Stages :
       /\ pc[i] \in Busy => work[i] \in Work
       /\ pc[i] = "reply" => todo[i] # <<>>
       /\ pc[i] \in {"dial", "forward", "awaiting"} => i < N

LEMMA WorkType ==
  /\ Work \subseteq Passes
  /\ \A p \in Passes : p.ids \in Seq(Vocab) /\ p.k \in {0, K} /\ Count(p) \in Nat \ {0}
  /\ \A p \in Work : p.ids # <<>>
BY DEF Work, Text, Passes, Count

LEMMA SoundTypes == Sound => TypeOK
<1>. SUFFICES ASSUME Sound PROVE TypeOK
  OBVIOUS
<1>1. fwd \in [Stages -> Seq(Passes)]
  BY WorkType, SeqMonotonic DEF Sound
<1>2. bwd \in [Stages -> Seq(Seq(Vocab))]
  <2>1. Text \subseteq Seq(Vocab)
    BY DEF Text
  <2>. QED  BY <2>1, SeqMonotonic DEF Sound
<1>. QED  BY <1>1, <1>2 DEF Sound, TypeOK

LEMMA SoundInit == Init => Sound
BY DEF Init, Sound, Idle, Passes, PC, Busy

(* The tokens accepted from a link.                                        *)
LEMMA ReceivedType ==
  ASSUME bwd \in [Stages -> Seq(Text)], NEW l \in Stages, bwd[l] # <<>>,
         NEW n \in Nat \ {0}
  PROVE  /\ Received(l, n) \in Text /\ Len(Received(l, n)) <= n
         /\ Accepted(l) \in [Stages -> Seq(Text)]
<1>1. Head(bwd[l]) \in Text /\ Tail(bwd[l]) \in Seq(Text)
  BY HeadTailProperties
<1>2. Received(l, n) \in Text /\ Len(Received(l, n)) <= n
  BY <1>1, UptoProperties DEF Received, Text
<1>. QED  BY <1>1, <1>2 DEF Accepted

LEMMA CachedType ==
  ASSUME kv \in [Stages -> Seq(Vocab)], NEW i \in Stages, NEW p \in Work
  PROVE  /\ Cached(i, p) \in Seq(Vocab)
         /\ Len(Cached(i, p)) >= Len(p.ids)
         /\ Len(p.ids) \in Nat \ {0}
<1>1. p.ids \in Seq(Vocab) /\ p.ids # <<>>
  BY WorkType
<1>2. Len(p.ids) \in Nat \ {0}
  BY <1>1, LenProperties
<1>3. /\ kv[i] \o p.ids \in Seq(Vocab)
      /\ Len(kv[i] \o p.ids) = Len(kv[i]) + Len(p.ids) /\ Len(kv[i]) \in Nat
  BY <1>1, ConcatProperties, LenProperties
<1>. QED  BY <1>1, <1>2, <1>3 DEF Cached

(* The last stage always has something to answer.                          *)
LEMMA AnswerType ==
  ASSUME PredictTyped, kv \in [Stages -> Seq(Vocab)], NEW i \in Stages, NEW p \in Work
  PROVE  Answer(i, p) \in Text
<1>. DEFINE ctx == Cached(i, p)
            n == Len(ctx) - Len(p.ids)
            every == [j \in 1 .. Len(p.ids) |-> Predict(SubSeq(ctx, 1, n + j))]
<1>1. ctx \in Seq(Vocab) /\ n \in Nat /\ Len(p.ids) \in Nat \ {0} /\ Len(ctx) \in Nat
  BY CachedType, LenProperties
<1>2. CASE p.k = 0
  <2>1. Predict(ctx) \in Vocab
    BY <1>1 DEF PredictTyped
  <2>2. <<Predict(ctx)>> \in Text
    <3>. HIDE DEF ctx
    <3>. QED  BY <2>1 DEF Text
  <2>. QED  BY <1>2, <2>2 DEF Answer
<1>3. CASE p.k # 0
  <2>1. ASSUME NEW j \in 1 .. Len(p.ids) PROVE Predict(SubSeq(ctx, 1, n + j)) \in Vocab
    <3>1. 1 \in 1 .. Len(ctx) + 1 /\ n + j \in 0 .. Len(ctx)
      BY <1>1
    <3>2. SubSeq(ctx, 1, n + j) \in Seq(Vocab)
      <4>. HIDE DEF ctx
      <4>. QED  BY <1>1, <3>1, SubSeqProperties
    <3>. QED  BY <3>2 DEF PredictTyped
  <2>2. every \in Seq(Vocab) /\ Len(every) = Len(p.ids)
    <3>1. every \in [1 .. Len(p.ids) -> Vocab]
      BY <2>1
    <3>. HIDE DEF every
    <3>. QED  BY ONLY <1>1, <3>1, FunctionIsText
  <2>3. every # <<>>
    <3>. HIDE DEF every
    <3>. QED  BY <1>1, <2>2, LenProperties
  <2>4. Count(p) \in Nat \ {0}
    BY WorkType
  <2>5. Upto(every, Count(p)) \in Text
    <3>. HIDE DEF every
    <3>. QED  BY <2>2, <2>3, <2>4, UptoProperties DEF Text
  <2>. QED  BY <1>3, <2>5 DEF Answer
<1>. QED  BY <1>2, <1>3

(* A speculative pass yields at least one token.                           *)
LEMMA KeptType ==
  ASSUME NEW draft, NEW verified \in Text
  PROVE  Kept(draft, verified) \in Text
<1>. DEFINE stop == {i \in 1 .. Len(verified) :
                       \/ i > Len(draft) \/ verified[i] # draft[i]
                       \/ verified[i] = Eos \/ Len(out) + i >= Budget}
<1>1. CASE stop = {}
  BY <1>1 DEF Kept
<1>2. CASE stop # {}
  <2>1. Least(stop) \in stop
    <3>1. stop \in SUBSET Nat
      OBVIOUS
    <3>. HIDE DEF stop
    <3>. QED  BY <1>2, <3>1, LeastMember
  <2>2. Least(stop) \in Nat \ {0}
    BY <2>1
  <2>3. Kept(draft, verified) = Upto(verified, Least(stop))
    BY <1>2 DEF Kept
  <2>. HIDE DEF stop
  <2>. QED  BY <2>2, <2>3, UptoProperties DEF Text
<1>. QED  BY <1>1, <1>2

LEMMA NextPassType ==
  ASSUME NEW o \in Text
  PROVE  NextPass(o) \in Work
<1>1. Final(o) \in Vocab
  BY FinalType DEF Text
<1>2. <<Final(o)>> \in Text
  BY <1>1 DEF Text
<1>3. Draft(o, K) \in Seq(Vocab)
  BY DraftType DEF Text
<1>4. <<Final(o)>> \o Draft(o, K) \in Text
  <2>1. /\ <<Final(o)>> \o Draft(o, K) \in Seq(Vocab)
        /\ Len(<<Final(o)>> \o Draft(o, K)) = 1 + Len(Draft(o, K))
        /\ Len(Draft(o, K)) \in Nat
    BY <1>1, <1>3, ConcatProperties, LenProperties
  <2>2. <<Final(o)>> \o Draft(o, K) # <<>>
    BY <2>1, LenProperties
  <2>. QED  BY <2>1, <2>2 DEF Text
<1>. QED  BY <1>2, <1>4 DEF NextPass, Work

LEMMA AppendType ==
  ASSUME NEW T, NEW s \in Seq(T), NEW x \in T
  PROVE  /\ Append(s, x) \in Seq(T) \ {<<>>} /\ Len(Append(s, x)) = Len(s) + 1
         /\ Final(Append(s, x)) = x
BY AppendProperties, LenProperties DEF Final

LEMMA ClosedType ==
  ASSUME Sound, NEW S
  PROVE  Closed(S) \in [Stages -> {"none", "open", "closed"}]
BY DEF Closed, Sound

LEMMA ContinueSound ==
  ASSUME Sound, NEW o \in Text, Continue(o),
         UNCHANGED <<conn, fwd, tasks, faults>>,
         bwd' \in [Stages -> Seq(Text)]
  PROVE  Sound'
<1>1. NextPass(o) \in Work /\ o \in Seq(Vocab)
  BY NextPassType DEF Text
<1>. QED  BY <1>1, WorkType DEF Continue, Sound, tasks

LEMMA SoundCoordinator == ASSUME Sound, Coordinator PROVE Sound'
<1>. USE DEF links, tasks
<1>1. CASE Start
  <2>1. [ids |-> Prompt, k |-> 0] \in Work
    BY DEF Work, Text
  <2>. QED  BY <1>1, <2>1, WorkType DEF Start, Sound
<1>2. CASE StartFails
  BY <1>2 DEF StartFails, Fault, Sound
<1>3. CASE SendPass
  <2>1. 1 \in Stages
    BY DEF Stages
  <2>2. Append(fwd[1], pass) \in Seq(Work)
    BY <1>3, <2>1, AppendProperties DEF SendPass, Sound
  <2>. QED  BY <1>3, <2>1, <2>2 DEF SendPass, Sound
<1>4. CASE ReceiveToken
  <2>1. 1 \in Stages
    BY DEF Stages
  <2>2. Received(1, 1) \in Text /\ Accepted(1) \in [Stages -> Seq(Text)]
    BY <1>4, <2>1, ReceivedType DEF ReceiveToken, Sound
  <2>3. Received(1, 1)[1] \in Vocab
    BY <2>2, LenProperties, ElementOfSeq DEF Text
  <2>4. Append(out, Received(1, 1)[1]) \in Text
    BY <2>3, AppendType DEF Sound, Text
  <2>. QED  BY <1>4, <2>2, <2>4, ContinueSound DEF ReceiveToken
<1>5. CASE ReceiveVerified
  <2>. DEFINE o == out \o Kept(Tail(pass.ids), Received(1, Count(pass)))
  <2>1. 1 \in Stages /\ Count(pass) \in Nat \ {0}
    BY WorkType DEF Stages, Sound
  <2>2. Received(1, Count(pass)) \in Text /\ Accepted(1) \in [Stages -> Seq(Text)]
    BY <1>5, <2>1, ReceivedType DEF ReceiveVerified, Sound
  <2>3. Kept(Tail(pass.ids), Received(1, Count(pass))) \in Text
    BY <2>2, KeptType
  <2>4. o \in Text
    BY <2>3, ConcatText DEF Sound, Text
  <2>5. Append(o, Final(o)) \in Text
    <3>. HIDE DEF o
    <3>. QED  BY <2>4, FinalType, AppendType DEF Text
  <2>. QED  BY <1>5, <2>2, <2>4, <2>5, ContinueSound DEF ReceiveVerified
<1>6. CASE Close
  BY <1>6, ClosedType DEF Close, Sound
<1>7. CASE CoordinatorFails
  BY <1>7 DEF CoordinatorFails, Sound
<1>. QED  BY <1>1, <1>2, <1>3, <1>4, <1>5, <1>6, <1>7 DEF Coordinator

LEMMA FailsSound ==
  ASSUME Sound, NEW i \in Stages, NEW from, Fails(i, from),
         kv' \in [Stages -> Seq(Vocab)], faults' \in 0 .. MaxFaults
  PROVE  Sound'
BY ClosedType DEF Fails, Goto, coord, Sound, PC, Busy

LEMMA SoundTask == ASSUME PredictTyped, Sound, NEW i \in Stages, Task(i) PROVE Sound'
<1>. USE DEF coord, links, tasks, Goto
<1>1. CASE Accept(i) \/ Leave(i)
  BY <1>1 DEF Accept, Leave, Sound, PC, Busy
<1>2. CASE Refuse(i)
  BY <1>2, ClosedType DEF Refuse, Fault, Sound
<1>3. CASE Receive(i)
  <2>1. Head(fwd[i]) \in Work /\ Tail(fwd[i]) \in Seq(Work)
    BY <1>3, HeadTailProperties DEF Receive, Sound
  <2>2. Head(fwd[i]) \in Passes
    BY <2>1, WorkType
  <2>. QED  BY <1>3, <2>1, <2>2 DEF Receive, Sound, PC, Busy
<1>4. CASE Layers(i)
  <2>1. work[i] \in Work
    BY <1>4 DEF Layers, Sound, Busy
  <2>2. Cached(i, work[i]) \in Seq(Vocab) /\ Answer(i, work[i]) \in Text
    BY <2>1, CachedType, AnswerType DEF Sound
  <2>3. todo' \in [Stages -> Seq(Vocab)] /\ (i = N => todo'[i] # <<>>)
        /\ \A j \in Stages \ {i} : todo'[j] = todo[j]
    BY <1>4, <2>2 DEF Layers, Sound, Text
  <2>4. kv' \in [Stages -> Seq(Vocab)]
    BY <1>4, <2>2 DEF Layers, Sound
  <2>5. /\ pc' \in [Stages -> PC]
        /\ pc'[i] \in {"reply", "dial", "forward"}
        /\ pc'[i] = "reply" <=> i = N
        /\ \A j \in Stages \ {i} : pc'[j] = pc[j]
    BY <1>4 DEF Layers, Sound, PC
  <2>6. i \in 1 .. N /\ (i # N => i < N)
    BY DEF Stages
  <2>. QED  BY <1>4, <2>1, <2>3, <2>4, <2>5, <2>6 DEF Layers, Sound, Busy
<1>5. CASE LayersFail(i)
  <2>1. work[i] \in Work
    BY <1>5 DEF LayersFail, Fails, Sound, Busy
  <2>2. Cached(i, work[i]) \in Seq(Vocab)
    BY <2>1, CachedType DEF Sound
  <2>3. kv' \in [Stages -> Seq(Vocab)]
    BY <1>5, <2>2 DEF LayersFail, Sound
  <2>4. faults' \in 0 .. MaxFaults
    BY <1>5 DEF LayersFail, Fault, Sound
  <2>. QED  BY <1>5, <2>3, <2>4, FailsSound DEF LayersFail
<1>6. CASE Dial(i)
  BY <1>6 DEF Dial, Sound, PC, Busy
<1>7. CASE DialFails(i)
  <2>1. kv' \in [Stages -> Seq(Vocab)] /\ faults' \in 0 .. MaxFaults
    BY <1>7 DEF DialFails, HasNext, Fault, Sound
  <2>. QED  BY <1>7, <2>1, FailsSound DEF DialFails
<1>8. CASE Forward(i)
  <2>1. work[i] \in Work /\ i + 1 \in Stages
    BY <1>8 DEF Forward, Sound, Busy, Stages
  <2>2. Append(fwd[i + 1], work[i]) \in Seq(Work)
    BY <2>1, AppendProperties DEF Sound
  <2>3. fwd' \in [Stages -> Seq(Work)]
    BY <1>8, <2>1, <2>2 DEF Forward, Sound
  <2>. QED  BY <1>8, <2>3 DEF Forward, Sound, PC, Busy
<1>9. CASE Await(i)
  <2>1. work[i] \in Work /\ i + 1 \in Stages
    BY <1>9 DEF Await, Sound, Busy, Stages
  <2>2. Count(work[i]) \in Nat \ {0}
    BY <2>1, WorkType
  <2>3. /\ Received(i + 1, Count(work[i])) \in Text
        /\ Accepted(i + 1) \in [Stages -> Seq(Text)]
    BY <1>9, <2>1, <2>2, ReceivedType DEF Await, Sound
  <2>. QED  BY <1>9, <2>3 DEF Await, Sound, PC, Busy, Text
<1>10. CASE NextLost(i)
  BY <1>10, FailsSound DEF NextLost, Sound
<1>11. CASE Reply(i)
  <2>1. todo[i] \in Seq(Vocab) /\ todo[i] # <<>>
    BY <1>11 DEF Reply, Sound
  <2>2. /\ Head(todo[i]) \in Vocab /\ Tail(todo[i]) \in Seq(Vocab)
        /\ Len(todo[i]) # 1 => Tail(todo[i]) # <<>>
    <3>1. /\ Head(todo[i]) \in Vocab /\ Tail(todo[i]) \in Seq(Vocab)
          /\ Len(Tail(todo[i])) = Len(todo[i]) - 1
      BY <2>1, HeadTailProperties
    <3>2. Len(todo[i]) \in Nat
      BY <2>1, LenProperties
    <3>3. ASSUME Tail(todo[i]) = <<>> PROVE Len(todo[i]) = 1
      <4>1. Len(Tail(todo[i])) = 0
        BY <3>1, <3>3, EmptySeq
      <4>. QED  BY ONLY <3>1, <3>2, <4>1
    <3>. QED  BY <3>1, <3>3
  <2>3. <<Head(todo[i])>> \in Text
    BY <2>2 DEF Text
  <2>4. Append(bwd[i], <<Head(todo[i])>>) \in Seq(Text)
    BY <2>3, AppendProperties DEF Sound
  <2>5. bwd' \in [Stages -> Seq(Text)]
    BY <1>11, <2>4 DEF Reply, Opened, Sound
  <2>6. /\ todo' \in [Stages -> Seq(Vocab)] /\ todo'[i] = Tail(todo[i])
        /\ \A j \in Stages \ {i} : todo'[j] = todo[j]
    BY <1>11, <2>2 DEF Reply, Sound
  <2>7. /\ pc' \in [Stages -> PC]
        /\ pc'[i] = IF Len(todo[i]) = 1 THEN "waiting" ELSE "reply"
        /\ \A j \in Stages \ {i} : pc'[j] = pc[j]
    BY <1>11 DEF Reply, Sound, PC
  <2>. QED  BY <1>11, <2>2, <2>5, <2>6, <2>7 DEF Reply, Sound, Busy
<1>12. CASE ReplyFails(i)
  BY <1>12, FailsSound DEF ReplyFails, Sound
<1>13. CASE Clear(i)
  <2>1. /\ pc' \in [Stages -> PC] /\ pc'[i] \in {"left", "unclean"}
        /\ \A j \in Stages \ {i} : pc'[j] = pc[j]
    BY <1>13 DEF Clear, Sound, PC
  <2>2. kv' \in [Stages -> Seq(Vocab)]
    <3>1. <<>> \in Seq(Vocab)
      BY EmptySeq
    <3>2. [kv EXCEPT ![i] = <<>>] \in [Stages -> Seq(Vocab)]
      BY <3>1 DEF Sound
    <3>. QED  BY <1>13, <3>2 DEF Clear, Sound
  <2>4. faults' \in 0 .. MaxFaults
    BY <1>13 DEF Clear, Fault, Sound
  <2>3. conn' \in [Stages -> {"none", "open", "closed"}]
    BY <1>13, ClosedType DEF Clear
  <2>. QED  BY <1>13, <2>1, <2>2, <2>3, <2>4 DEF Clear, Sound, Busy
<1>. QED  BY <1>1, <1>2, <1>3, <1>4, <1>5, <1>6, <1>7, <1>8, <1>9, <1>10,
             <1>11, <1>12, <1>13 DEF Task

LEMMA SoundStep == ASSUME PredictTyped, Sound, [Next]_vars PROVE Sound'
<1>1. ASSUME NEW i \in Stages, ConnectionLost(i) PROVE Sound'
  BY <1>1, ClosedType DEF ConnectionLost, Fault, Sound, coord, tasks
<1>2. CASE UNCHANGED vars
  BY <1>2 DEF vars, coord, links, tasks, Sound
<1>. QED  BY <1>1, <1>2, SoundCoordinator, SoundTask DEF Next

LEMMA SoundInvariant == ASSUME PredictTyped PROVE Spec => []Sound
BY SoundInit, SoundStep, PTL DEF Spec

(* Every reachable state is well typed, whatever the depth of speculation, *)
(* the number of stages and the failures.                                  *)
THEOREM TypeCorrect == ASSUME PredictTyped PROVE Spec => []TypeOK
BY SoundTypes, SoundInvariant, PTL

-----------------------------------------------------------------------------
(* The budget, for every K                                                 *)

(* A pass is only begun while a token is left.                             *)
BudgetInv ==
  /\ WithinBudget
  /\ cpc \in {"send", "recv"} => Len(out) < Budget
  /\ cpc = "idle" => out = <<>>

(* The tokens kept of a speculative pass fit the budget.                   *)
LEMMA KeptFits ==
  ASSUME out \in Seq(Vocab), Len(out) < Budget, NEW draft, NEW verified \in Text
  PROVE  Len(out) + Len(Kept(draft, verified)) <= Budget
<1>. DEFINE stop == {i \in 1 .. Len(verified) :
                       \/ i > Len(draft) \/ verified[i] # draft[i]
                       \/ verified[i] = Eos \/ Len(out) + i >= Budget}
<1>1. Len(verified) \in Nat \ {0} /\ Len(out) \in Nat
  BY LenProperties DEF Text
<1>2. CASE stop = {}
  <2>1. Len(verified) \notin stop
    BY <1>2
  <2>2. Len(out) + Len(verified) < Budget
    BY <1>1, <2>1
  <2>. QED  BY <1>1, <1>2, <2>2 DEF Kept
<1>3. CASE stop # {}
  <2>. DEFINE m == Least(stop)
  <2>1. m \in stop /\ \A j \in stop : m <= j
    <3>1. stop \in SUBSET Nat
      OBVIOUS
    <3>. HIDE DEF stop
    <3>. QED  BY <1>3, <3>1, LeastMember
  <2>2. m \in 1 .. Len(verified) /\ Kept(draft, verified) = Upto(verified, m)
    BY <1>3, <2>1 DEF Kept
  <2>. HIDE DEF m
  <2>3. Len(out) + (m - 1) < Budget
    <3>1. CASE m = 1
      BY <1>1, <3>1
    <3>2. CASE m # 1
      <4>1. m - 1 \in 1 .. Len(verified)
        BY <1>1, <2>2, <3>2
      <4>2. m - 1 \notin stop
        <5>. HIDE DEF stop
        <5>. QED  BY <2>1, <2>2
      <4>. QED  BY <1>1, <4>1, <4>2
    <3>. QED  BY <3>1, <3>2
  <2>4. Len(Upto(verified, m)) <= m
    BY <1>1, <2>2, UptoProperties DEF Text
  <2>5. Len(Upto(verified, m)) \in Nat
    BY <1>1, <2>2, UptoProperties, LenProperties DEF Text
  <2>. QED  BY <1>1, <2>2, <2>3, <2>4, <2>5
<1>. QED  BY <1>2, <1>3

LEMMA ContinueBudget ==
  ASSUME NEW o \in Text, Len(o) <= Budget, Continue(o)
  PROVE  BudgetInv'
<1>1. Len(o) \in Nat
  BY LenProperties DEF Text
<1>. QED  BY <1>1 DEF Continue, Finished, BudgetInv, WithinBudget

LEMMA BudgetStep ==
  ASSUME PredictTyped, Sound, BudgetInv, [Next]_vars PROVE BudgetInv'
<1>. USE DEF BudgetInv, WithinBudget
<1>1. CASE Start \/ StartFails \/ SendPass \/ Close \/ CoordinatorFails
  <2>1. Len(<<>>) = 0
    BY EmptySeq
  <2>. QED  BY <1>1, <2>1 DEF Start, StartFails, SendPass, Close, CoordinatorFails
<1>2. CASE ReceiveToken
  <2>1. 1 \in Stages
    BY DEF Stages
  <2>2. Received(1, 1) \in Text
    BY <1>2, <2>1, ReceivedType DEF ReceiveToken, Sound
  <2>3. Received(1, 1)[1] \in Vocab
    BY <2>2, LenProperties, ElementOfSeq DEF Text
  <2>4. /\ Append(out, Received(1, 1)[1]) \in Text
        /\ Len(Append(out, Received(1, 1)[1])) = Len(out) + 1
    BY <2>3, AppendType DEF Sound, Text
  <2>5. Len(out) \in Nat /\ Len(out) < Budget
    BY <1>2, LenProperties DEF ReceiveToken, Sound
  <2>6. Len(Append(out, Received(1, 1)[1])) <= Budget
    BY <2>4, <2>5
  <2>7. Continue(Append(out, Received(1, 1)[1]))
    BY <1>2 DEF ReceiveToken
  <2>. HIDE DEF BudgetInv
  <2>. QED  BY <2>4, <2>6, <2>7, ContinueBudget
<1>3. CASE ReceiveVerified
  <2>. DEFINE kept == Kept(Tail(pass.ids), Received(1, Count(pass)))
              o == out \o kept
  <2>1. 1 \in Stages /\ Count(pass) \in Nat \ {0}
    BY WorkType DEF Stages, Sound
  <2>2. kept \in Text
    BY <1>3, <2>1, ReceivedType, KeptType DEF ReceiveVerified, Sound
  <2>3. Len(out) + Len(kept) <= Budget
    BY <1>3, <2>1, ReceivedType, KeptFits DEF ReceiveVerified, Sound
  <2>. HIDE DEF kept
  <2>4. o \in Text /\ Len(o) = Len(out) + Len(kept) /\ Len(o) \in Nat
    BY <2>2, ConcatText, LenProperties DEF Sound, Text
  <2>5. Len(o) <= Budget
    BY <2>3, <2>4
  <2>. HIDE DEF o
  <2>6. CASE Finished(o)
    <3>1. Continue(o)
      BY <1>3, <2>6 DEF ReceiveVerified, o, kept
    <3>. HIDE DEF BudgetInv
    <3>. QED  BY <2>4, <2>5, <3>1, ContinueBudget
  <2>7. CASE ~Finished(o)
    <3>1. Continue(Append(o, Final(o)))
      BY <1>3, <2>7 DEF ReceiveVerified, o, kept
    <3>2. Append(o, Final(o)) \in Text /\ Len(Append(o, Final(o))) = Len(o) + 1
      BY <2>4, FinalType, AppendType DEF Text
    <3>3. Len(Append(o, Final(o))) <= Budget
      BY <2>4, <2>7, <3>2 DEF Finished
    <3>. HIDE DEF BudgetInv
    <3>. QED  BY <3>1, <3>2, <3>3, ContinueBudget
  <2>. QED  BY <2>6, <2>7
<1>4. CASE UNCHANGED coord
  BY <1>4 DEF coord
<1>5. ASSUME NEW i \in Stages, Task(i) \/ ConnectionLost(i) PROVE UNCHANGED coord
  BY <1>5 DEF Task, ConnectionLost, Accept, Refuse, Receive, Layers, LayersFail,
       Dial, DialFails, Forward, Await, NextLost, Reply, ReplyFails, Leave, Clear, Fails
<1>. QED  BY <1>1, <1>2, <1>3, <1>4, <1>5 DEF Next, Coordinator, vars

(* With or without speculation, where a pass may yield several tokens and  *)
(* the last one kept is pushed twice, the caller gets no more tokens than  *)
(* it asked for (conductor.rs:338, 372-404).                               *)
THEOREM BudgetTheorem == ASSUME PredictTyped PROVE Spec => []WithinBudget
<1>1. Init => BudgetInv
  <2>1. Len(<<>>) = 0
    BY EmptySeq
  <2>. QED  BY <2>1 DEF Init, BudgetInv, WithinBudget
<1>2. BudgetInv => WithinBudget
  BY DEF BudgetInv
<1>. QED  BY <1>1, <1>2, BudgetStep, SoundInvariant, PTL DEF Spec

-----------------------------------------------------------------------------
(* The chain without speculation                                           *)

Context == Prompt \o out
NextToken == Predict(Context)

(* What a cache holds before a pass: all but the token the pass carries.   *)
Before == IF out = <<>> THEN <<>> ELSE Prompt \o SubSeq(out, 1, Len(out) - 1)
DuePass == [ids |-> IF out = <<>> THEN Prompt ELSE <<Final(out)>>, k |-> 0]

Started == cpc \in {"send", "recv"} \/ (cpc = "failed" /\ pass # Idle)

(* What is above link i waits for an answer, or failed and may have.       *)
Pending(i) == IF i = 1 THEN cpc = "recv" \/ (cpc = "failed" /\ pass # Idle)
              ELSE pc[i - 1] \in {"awaiting", "failed"}

Halted == Busy \cup {"failed"}

Quiet(i) ==
  /\ fwd[i] = <<>> /\ bwd[i] = <<>> /\ todo[i] = <<>>
  /\ pc[i] \notin Halted

(* A pass is in one place: on the link, in the stage or answered, and      *)
(* nowhere if nobody above waits for it.                                   *)
OnePass(i) ==
  /\ ~Pending(i) => Quiet(i)
  /\ fwd[i] # <<>> =>
       /\ fwd[i] = <<pass>> /\ bwd[i] = <<>> /\ todo[i] = <<>>
       /\ pc[i] \notin Halted
  /\ bwd[i] # <<>> =>
       /\ bwd[i] = << <<NextToken>> >> /\ fwd[i] = <<>> /\ todo[i] = <<>>
       /\ pc[i] \notin Halted
  /\ pc[i] \in Busy => work[i] = pass /\ fwd[i] = <<>> /\ bwd[i] = <<>>
  /\ pc[i] \notin {"reply", "failed"} => todo[i] = <<>>
  /\ pc[i] = "reply" => todo[i] = <<NextToken>>

Live(i) == pc[i] \in {"absent", "waiting"} \cup Busy

(* A quiet stage has, unless it never had any, the cache its predecessor   *)
(* has, or had before the pass it is working on.                           *)
FollowsUpstream(i) ==
  IF i = 1 THEN cpc \in {"idle", "send"} => kv[i] \in {<<>>, Before}
  ELSE /\ pc[i - 1] \in {"dial", "forward"} => kv[i] \in {<<>>, Before}
       /\ pc[i - 1] \in {"absent", "waiting", "layers", "reply"} =>
            kv[i] \in {<<>>, kv[i - 1]}

InStep(i) ==
  Live(i) =>
    /\ fwd[i] # <<>> \/ pc[i] = "layers" => kv[i] \in {<<>>, Before}
    /\ pc[i] \in {"dial", "forward", "awaiting", "reply"} \/ bwd[i] # <<>> =>
         kv[i] = Context
    /\ Quiet(i) => FollowsUpstream(i)

Links == \A i \in Stages : OnePass(i) /\ InStep(i)

ChainInv ==
  /\ Started => pass = DuePass
  /\ cpc = "idle" => out = <<>> /\ pass = Idle
  /\ Links

(* Nothing is left below a stage that is at rest.                          *)
LEMMA QuietBelow ==
  ASSUME \A i \in Stages : OnePass(i), NEW b \in Stages, pc[b] \notin Halted
  PROVE  \A i \in Stages : i > b => Quiet(i)
<1>. SUFFICES ASSUME NEW k \in Stages, k > b, ~Quiet(k) PROVE FALSE
  OBVIOUS
<1>. DEFINE S == {i \in Stages : i > b /\ ~Quiet(i)}
<1>1. PICK i \in S : \A j \in S : i <= j
  <2>1. S \in SUBSET Nat /\ k \in S
    BY DEF Stages
  <2>. HIDE DEF S
  <2>. QED  BY <2>1, LeastNatural
<1>2. i - 1 \in Stages /\ i # 1 /\ (i - 1 = b \/ i - 1 > b)
  BY DEF Stages
<1>3. pc[i - 1] \notin Halted
  <2>1. CASE i - 1 = b
    BY <2>1
  <2>2. CASE i - 1 > b
    <3>1. i - 1 \notin S
      <4>1. ~(i <= i - 1)
        BY DEF Stages
      <4>. HIDE DEF S
      <4>. QED  BY <1>1, <4>1
    <3>. QED  BY <1>2, <2>2, <3>1 DEF Quiet
  <2>. QED  BY <1>2, <2>1, <2>2
<1>. QED  BY <1>2, <1>3 DEF OnePass, Pending, Halted, Busy

LEMMA QuietChain ==
  ASSUME \A i \in Stages : OnePass(i), ~Pending(1)
  PROVE  \A i \in Stages : Quiet(i)
<1>1. 1 \in Stages /\ \A i \in Stages : i = 1 \/ i > 1
  BY DEF Stages
<1>2. Quiet(1)
  BY <1>1 DEF OnePass
<1>3. pc[1] \notin Halted
  BY <1>2 DEF Quiet
<1>. QED  BY <1>1, <1>2, <1>3, QuietBelow

(* Queues of one element.                                                  *)
LEMMA Singleton ==
  ASSUME NEW x
  PROVE  /\ Append(<<>>, x) = <<x>> /\ Head(<<x>>) = x /\ Tail(<<x>>) = <<>>
         /\ Len(<<x>>) = 1 /\ <<x>> # <<>> /\ <<x>>[1] = x
OBVIOUS

LEMMA SplitLast ==
  ASSUME NEW T, NEW s \in Seq(T), s # <<>>
  PROVE  /\ Len(s) \in Nat \ {0}
         /\ SubSeq(s, 1, Len(s) - 1) \in Seq(T)
         /\ SubSeq(s, 1, Len(s) - 1) \o <<Final(s)>> = s
<1>1. Len(s) \in Nat \ {0} /\ Len(s) \in 1 .. Len(s)
  BY LenProperties
<1>2. Final(s) \in T
  BY FinalType
<1>. DEFINE front == SubSeq(s, 1, Len(s) - 1)
<1>3. /\ front \in Seq(T) /\ Len(front) = Len(s) - 1
      /\ \A i \in 1 .. Len(s) - 1 : front[i] = s[i]
  <2>1. \A i \in 1 .. Len(s) - 1 : s[i] \in T
    BY <1>1, ElementOfSeq
  <2>2. /\ front \in Seq(T)
        /\ Len(front) = IF 1 <= Len(s) - 1 THEN Len(s) - 1 - 1 + 1 ELSE 0
        /\ \A i \in 1 .. Len(s) - 1 - 1 + 1 : front[i] = s[1 + i - 1]
    <3>1. 1 \in Int /\ Len(s) - 1 \in Int
      BY <1>1
    <3>. QED  BY <2>1, <3>1, SubSeqProperties
  <2>. HIDE DEF front
  <2>3. Len(front) = Len(s) - 1
    <3>1. \A n \in Nat \ {0} : n - 1 = IF 1 <= n - 1 THEN n - 1 - 1 + 1 ELSE 0
      OBVIOUS
    <3>. QED  BY ONLY <1>1, <2>2, <3>1
  <2>4. ASSUME NEW i \in 1 .. Len(s) - 1 PROVE front[i] = s[i]
    <3>1. i \in 1 .. Len(s) - 1 - 1 + 1 /\ 1 + i - 1 = i
      BY <1>1
    <3>. QED  BY <2>2, <3>1
  <2>. QED  BY <2>2, <2>3, <2>4
<1>. HIDE DEF front
<1>4. front \o <<Final(s)>> \in Seq(T) /\ Len(front \o <<Final(s)>>) = Len(s)
  BY <1>1, <1>2, <1>3, ConcatProperties
<1>5. \A i \in 1 .. Len(s) : (front \o <<Final(s)>>)[i] = s[i]
  BY <1>1, <1>2, <1>3, ConcatProperties DEF Final
<1>6. front \o <<Final(s)>> = s
  BY <1>4, <1>5, SeqEqual
<1>. QED  BY <1>1, <1>3, <1>6 DEF front

LEMMA BeforeNext ==
  ASSUME out \in Seq(Vocab), NEW x \in Vocab, out' = Append(out, x)
  PROVE  Before' = Context
<1>1. out' # <<>> /\ Len(out') - 1 = Len(out)
  BY AppendProperties, LenProperties
<1>2. SubSeq(out', 1, Len(out)) = out
  BY <1>1, AppendProperties, LenProperties
<1>. QED  BY <1>1, <1>2 DEF Before, Context

(* A link that a step does not touch.                                      *)
LEMMA LinkKept ==
  ASSUME UNCHANGED coord, NEW j \in Stages, OnePass(j), InStep(j),
         fwd'[j] = fwd[j], bwd'[j] = bwd[j],
         pc'[j] = pc[j], work'[j] = work[j], todo'[j] = todo[j], kv'[j] = kv[j],
         Pending(j)' = Pending(j),
         Live(j) /\ Quiet(j) /\ FollowsUpstream(j) => FollowsUpstream(j)'
  PROVE  OnePass(j)' /\ InStep(j)'
<1>1. /\ Context' = Context /\ Before' = Before /\ NextToken' = NextToken
  BY DEF coord, Context, Before, NextToken
<1>2. Quiet(j)' = Quiet(j) /\ Live(j)' = Live(j)
  BY DEF Quiet, Live
<1>3. OnePass(j)'
  BY <1>1, <1>2 DEF coord, OnePass
<1>4. InStep(j)'
  BY <1>1, <1>2 DEF InStep
<1>. QED  BY <1>3, <1>4

(* A link that a step does not touch, nor the stage above it.              *)
LEMMA Untouched ==
  ASSUME UNCHANGED coord, NEW j \in Stages, OnePass(j), InStep(j),
         fwd'[j] = fwd[j], bwd'[j] = bwd[j],
         pc'[j] = pc[j], work'[j] = work[j], todo'[j] = todo[j], kv'[j] = kv[j],
         j # 1 => pc'[j - 1] = pc[j - 1] /\ kv'[j - 1] = kv[j - 1]
  PROVE  OnePass(j)' /\ InStep(j)'
<1>1. /\ Context' = Context /\ Before' = Before /\ NextToken' = NextToken
      /\ Pending(j)' = Pending(j)
  BY DEF coord, Context, Before, NextToken, Pending
<1>2. Quiet(j)' = Quiet(j) /\ Live(j)' = Live(j)
  BY DEF Quiet, Live
<1>3. FollowsUpstream(j)' = FollowsUpstream(j)
  BY <1>1 DEF coord, FollowsUpstream
<1>4. OnePass(j)'
  BY <1>1, <1>2 DEF coord, OnePass
<1>5. InStep(j)'
  BY <1>1, <1>2, <1>3 DEF InStep
<1>. QED  BY <1>4, <1>5

LEMMA LinksKept ==
  ASSUME Links, UNCHANGED <<coord, fwd, bwd, pc, work, todo, kv>>
  PROVE  Links'
BY Untouched DEF Links

(* A step of stage i touches it, the link above it and the one below.      *)
LEMMA Local ==
  ASSUME Links, Sound, UNCHANGED coord, NEW i \in Stages,
         \A j \in Stages \ {i, i + 1} : fwd'[j] = fwd[j] /\ bwd'[j] = bwd[j],
         \A j \in Stages \ {i} :
           pc'[j] = pc[j] /\ work'[j] = work[j] /\ todo'[j] = todo[j] /\ kv'[j] = kv[j],
         OnePass(i)' /\ InStep(i)',
         i + 1 \in Stages => OnePass(i + 1)' /\ InStep(i + 1)'
  PROVE  Links'
<1>1. ASSUME NEW j \in Stages, j # i, j # i + 1 PROVE OnePass(j)' /\ InStep(j)'
  <2>1. j # 1 => j - 1 \in Stages \ {i}
    BY <1>1 DEF Stages
  <2>. QED  BY <1>1, <2>1, Untouched DEF Links
<1>. QED  BY <1>1 DEF Links

(* A stage that fails: nobody above it will get an answer.                 *)
LEMMA FailsLinks ==
  ASSUME Links, Sound, NEW i \in Stages, NEW from \in Busy, Fails(i, from),
         \A j \in Stages \ {i} : kv'[j] = kv[j]
  PROVE  Links'
<1>1. /\ pc[i] = from /\ pc'[i] = "failed"
      /\ \A j \in Stages \ {i} : pc'[j] = pc[j]
      /\ UNCHANGED <<coord, fwd, bwd, work, todo>>
  BY DEF Fails, Goto, Sound
<1>2. /\ Context' = Context /\ Before' = Before /\ NextToken' = NextToken
      /\ pass' = pass /\ cpc' = cpc
  BY <1>1 DEF coord, Context, Before, NextToken
<1>3. OnePass(i) /\ fwd[i] = <<>> /\ bwd[i] = <<>>
  BY <1>1 DEF Links, OnePass
<1>4. Pending(i)' = Pending(i) /\ Pending(i)
  <2>1. i # 1 => i - 1 \in Stages \ {i}
    BY DEF Stages
  <2>2. ~Quiet(i)
    BY <1>1 DEF Quiet, Halted
  <2>. QED  BY <1>1, <1>2, <1>3, <2>1, <2>2 DEF Pending, OnePass
<1>5. OnePass(i)' /\ InStep(i)'
  BY <1>1, <1>3, <1>4 DEF OnePass, InStep, Live, Busy
<1>6. ASSUME i + 1 \in Stages PROVE OnePass(i + 1)' /\ InStep(i + 1)'
  <2>1. i + 1 # 1 /\ i + 1 # i /\ (i + 1) - 1 = i
    BY DEF Stages
  <2>2. OnePass(i + 1) /\ InStep(i + 1)
    BY <1>6 DEF Links
  <2>3. Pending(i + 1)' /\ FollowsUpstream(i + 1)'
    BY <1>1, <2>1 DEF Pending, FollowsUpstream
  <2>4. /\ pc'[i + 1] = pc[i + 1] /\ kv'[i + 1] = kv[i + 1]
        /\ fwd'[i + 1] = fwd[i + 1] /\ bwd'[i + 1] = bwd[i + 1]
        /\ work'[i + 1] = work[i + 1] /\ todo'[i + 1] = todo[i + 1]
    BY <1>1, <1>6, <2>1
  <2>5. OnePass(i + 1)'
    BY <1>2, <2>2, <2>3, <2>4 DEF OnePass
  <2>6. InStep(i + 1)'
    BY <1>2, <2>2, <2>3, <2>4 DEF InStep, Live
  <2>. QED  BY <2>5, <2>6
<1>. QED  BY <1>1, <1>5, <1>6, Local

LEMMA Above ==
  ASSUME UNCHANGED coord, NEW i \in Stages,
         \A j \in Stages \ {i} : pc'[j] = pc[j] /\ kv'[j] = kv[j]
  PROVE  /\ Context' = Context /\ Before' = Before /\ NextToken' = NextToken
         /\ pass' = pass /\ cpc' = cpc
         /\ Pending(i)' = Pending(i)
         /\ kv'[i] = kv[i] => FollowsUpstream(i)' = FollowsUpstream(i)
<1>1. i # 1 => i - 1 \in Stages \ {i}
  BY DEF Stages
<1>. QED  BY <1>1 DEF coord, Context, Before, NextToken, Pending, FollowsUpstream

(* The link below a stage that keeps it waiting for nothing.               *)
LEMMA Below ==
  ASSUME Links, UNCHANGED coord, NEW i \in Stages, i + 1 \in Stages,
         fwd'[i + 1] = fwd[i + 1], bwd'[i + 1] = bwd[i + 1],
         \A j \in Stages \ {i} :
           pc'[j] = pc[j] /\ work'[j] = work[j] /\ todo'[j] = todo[j] /\ kv'[j] = kv[j],
         pc[i] \notin {"awaiting", "failed"}, pc'[i] \notin {"awaiting", "failed"},
         \/ pc'[i] \in {"clearing", "left", "unclean"}
         \/ /\ pc[i] \in {"absent", "waiting", "layers", "reply"}
            /\ pc'[i] \in {"absent", "waiting", "layers", "reply"}
            /\ kv'[i] = kv[i]
         \/ pc[i] \in {"dial", "forward"} /\ pc'[i] \in {"dial", "forward"}
  PROVE  OnePass(i + 1)' /\ InStep(i + 1)'
<1>1. i + 1 # 1 /\ i + 1 \in Stages \ {i} /\ (i + 1) - 1 = i
  BY DEF Stages
<1>2. Pending(i + 1)' = Pending(i + 1)
  BY <1>1 DEF Pending
<1>3. Before' = Before
  BY DEF coord, Before
<1>4. FollowsUpstream(i + 1) => FollowsUpstream(i + 1)'
  BY <1>1, <1>3 DEF FollowsUpstream
<1>. QED  BY <1>1, <1>2, <1>4, LinkKept DEF Links

LEMMA AcceptLinks == ASSUME Links, Sound, NEW i \in Stages, Accept(i) PROVE Links'
<1>1. /\ pc[i] = "absent" /\ pc'[i] = "waiting"
      /\ \A j \in Stages \ {i} : pc'[j] = pc[j]
      /\ UNCHANGED <<coord, fwd, bwd, work, todo, kv>>
  BY DEF Accept, Goto, Sound, links
<1>2. OnePass(i)' /\ InStep(i)'
  BY <1>1, Above DEF Links, OnePass, InStep, Live, Quiet, Halted, Busy
<1>3. i + 1 \in Stages => OnePass(i + 1)' /\ InStep(i + 1)'
  BY <1>1, Below
<1>. QED  BY <1>1, <1>2, <1>3, Local

LEMMA LeaveLinks == ASSUME Links, Sound, NEW i \in Stages, Leave(i) PROVE Links'
<1>1. /\ pc[i] = "waiting" /\ pc'[i] = "clearing"
      /\ \A j \in Stages \ {i} : pc'[j] = pc[j]
      /\ UNCHANGED <<coord, fwd, bwd, work, todo, kv>>
  BY DEF Leave, Goto, Sound, links
<1>2. OnePass(i)' /\ InStep(i)'
  BY <1>1, Above DEF Links, OnePass, InStep, Live, Quiet, Halted, Busy
<1>3. i + 1 \in Stages => OnePass(i + 1)' /\ InStep(i + 1)'
  BY <1>1, Below
<1>. QED  BY <1>1, <1>2, <1>3, Local

LEMMA ClearLinks == ASSUME Links, Sound, NEW i \in Stages, Clear(i) PROVE Links'
<1>1. /\ pc[i] = "clearing" /\ pc'[i] \in {"left", "unclean"}
      /\ \A j \in Stages \ {i} : pc'[j] = pc[j] /\ kv'[j] = kv[j]
      /\ UNCHANGED <<coord, fwd, bwd, work, todo>>
  BY DEF Clear, Goto, Sound
<1>2. OnePass(i)' /\ InStep(i)'
  BY <1>1, Above DEF Links, OnePass, InStep, Live, Quiet, Halted, Busy
<1>3. i + 1 \in Stages => OnePass(i + 1)' /\ InStep(i + 1)'
  BY <1>1, Below
<1>. QED  BY <1>1, <1>2, <1>3, Local

LEMMA ReceiveLinks == ASSUME Links, Sound, NEW i \in Stages, Receive(i) PROVE Links'
<1>1. fwd[i] = <<pass>> /\ fwd[i] # <<>> /\ bwd[i] = <<>> /\ todo[i] = <<>>
  BY DEF Receive, Links, OnePass
<1>2. Head(fwd[i]) = pass /\ Tail(fwd[i]) = <<>>
  BY <1>1, Singleton
<1>3. /\ pc[i] = "waiting" /\ pc'[i] = "layers"
      /\ work'[i] = pass /\ fwd'[i] = <<>>
      /\ \A j \in Stages \ {i} :
           pc'[j] = pc[j] /\ work'[j] = work[j] /\ fwd'[j] = fwd[j]
      /\ UNCHANGED <<coord, bwd, todo, kv>>
  BY <1>2 DEF Receive, Goto, Sound
<1>4. Pending(i)
  BY <1>1 DEF Links, OnePass, Quiet
<1>5. OnePass(i)'
  BY <1>1, <1>3, <1>4, Above DEF OnePass, Busy
<1>6. kv[i] \in {<<>>, Before}
  BY <1>1, <1>3 DEF Links, InStep, Live
<1>7. InStep(i)'
  BY <1>1, <1>3, <1>6, Above DEF InStep, Live, Quiet, Halted, Busy
<1>8. i + 1 \in Stages => OnePass(i + 1)' /\ InStep(i + 1)'
  <2>1. i + 1 # i
    BY DEF Stages
  <2>. QED  BY <1>3, <2>1, Below
<1>. QED  BY <1>3, <1>5, <1>7, <1>8, Local

(* The pass a stage works on is the one that is due, and its layers see    *)
(* the whole context.                                                      *)
LEMMA WorkingInContext ==
  ASSUME ChainInv, Sound, NEW i \in Stages, pc[i] = "layers", Known(i, work[i])
  PROVE  /\ work[i] = pass /\ pass.k = 0
         /\ Cached(i, work[i]) = Context
<1>1. work[i] = pass /\ kv[i] \in {<<>>, Before}
  BY DEF ChainInv, Links, OnePass, InStep, Live, Busy
<1>2. ~Quiet(i)
  BY DEF Quiet, Halted, Busy
<1>3. Started
  BY <1>2, QuietChain DEF ChainInv, Links, Pending, Started
<1>4. pass = DuePass
  BY <1>3 DEF ChainInv
<1>5. CASE out = <<>>
  <2>1. pass.ids = Prompt /\ pass.k = 0 /\ kv[i] = <<>>
    BY <1>1, <1>4, <1>5 DEF DuePass, Before
  <2>2. IsPrefill(pass)
    BY <1>1, <2>1 DEF Known
  <2>3. Context = Prompt
    BY <1>5, ConcatEmptySeq DEF Context
  <2>. QED  BY <1>1, <2>1, <2>2, <2>3 DEF Cached
<1>6. CASE out # <<>>
  <2>1. pass.ids = <<Final(out)>> /\ pass.k = 0
    BY <1>4, <1>6 DEF DuePass
  <2>2. ~IsPrefill(pass)
    BY <2>1, Singleton DEF IsPrefill
  <2>3. kv[i] = Before /\ Before = Prompt \o SubSeq(out, 1, Len(out) - 1)
    BY <1>1, <1>6, <2>2 DEF Known, Before
  <2>4. Before \o <<Final(out)>> = Context
    <3>1. /\ Len(out) \in Nat \ {0}
          /\ SubSeq(out, 1, Len(out) - 1) \in Seq(Vocab)
          /\ SubSeq(out, 1, Len(out) - 1) \o <<Final(out)>> = out
      BY <1>6, SplitLast DEF Sound
    <3>2. <<Final(out)>> \in Seq(Vocab)
      BY <1>6, FinalType DEF Sound
    <3>. DEFINE front == SubSeq(out, 1, Len(out) - 1)
    <3>. HIDE DEF front
    <3>4. front \in Seq(Vocab)
      BY <3>1 DEF front
    <3>3. (Prompt \o front) \o <<Final(out)>> = Prompt \o (front \o <<Final(out)>>)
      BY <3>2, <3>4, ConcatAssociative
    <3>. QED  BY <2>3, <3>1, <3>3 DEF Context, front
  <2>. QED  BY <1>1, <2>1, <2>2, <2>3, <2>4 DEF Cached
<1>. QED  BY <1>5, <1>6

LEMMA LayersLinks == ASSUME ChainInv, Sound, NEW i \in Stages, Layers(i) PROVE Links'
<1>1. /\ pc[i] = "layers" /\ pc'[i] \in {"reply", "dial", "forward"}
      /\ pc'[i] = "reply" <=> i = N
      /\ kv'[i] = Cached(i, work[i])
      /\ todo'[i] = IF i = N THEN Answer(i, work[i]) ELSE todo[i]
      /\ \A j \in Stages \ {i} :
           pc'[j] = pc[j] /\ kv'[j] = kv[j] /\ todo'[j] = todo[j]
      /\ UNCHANGED <<coord, fwd, bwd, work>>
  BY DEF Layers, Goto, Sound, links
<1>2. /\ work[i] = pass /\ pass.k = 0 /\ Cached(i, work[i]) = Context
  BY <1>1, WorkingInContext DEF Layers
<1>3. Answer(i, work[i]) = <<NextToken>>
  BY <1>2 DEF Answer, NextToken
<1>4. OnePass(i) /\ InStep(i)
  BY DEF ChainInv, Links
<1>5. OnePass(i)'
  <2>1. Pending(i)
    BY <1>1, <1>4 DEF OnePass, Quiet, Halted, Busy
  <2>. QED  BY <1>1, <1>2, <1>3, <1>4, <2>1, Above DEF OnePass, Busy
<1>6. InStep(i)'
  BY <1>1, <1>2, <1>4, <1>5, Above DEF InStep, OnePass, Live, Quiet, Halted, Busy
<1>7. ASSUME i + 1 \in Stages PROVE OnePass(i + 1)' /\ InStep(i + 1)'
  <2>1. i + 1 # 1 /\ i + 1 \in Stages \ {i} /\ (i + 1) - 1 = i /\ i # N
    BY <1>7 DEF Stages
  <2>2. Pending(i + 1)' = Pending(i + 1) /\ ~Pending(i + 1)
    BY <1>1, <2>1 DEF Pending
  <2>3. OnePass(i + 1) /\ InStep(i + 1)
    BY <1>7 DEF ChainInv, Links
  <2>4. Live(i + 1) => kv[i + 1] \in {<<>>, kv[i]}
    BY <1>1, <2>1, <2>2, <2>3 DEF OnePass, InStep, FollowsUpstream
  <2>5. kv[i] \in {<<>>, Before} /\ Before' = Before
    BY <1>1, <1>4, Above DEF InStep, Live, Busy
  <2>6. Live(i + 1) => FollowsUpstream(i + 1)'
    BY <1>1, <2>1, <2>4, <2>5 DEF FollowsUpstream
  <2>. QED  BY <1>1, <2>1, <2>2, <2>3, <2>6, LinkKept
<1>. QED  BY <1>1, <1>5, <1>6, <1>7, Local DEF ChainInv

LEMMA DialLinks == ASSUME Links, Sound, NEW i \in Stages, Dial(i) PROVE Links'
<1>1. /\ pc[i] = "dial" /\ pc'[i] = "forward"
      /\ \A j \in Stages \ {i} : pc'[j] = pc[j]
      /\ UNCHANGED <<coord, fwd, bwd, work, todo, kv>>
  BY DEF Dial, Goto, Sound
<1>2. OnePass(i)' /\ InStep(i)'
  BY <1>1, Above DEF Links, OnePass, InStep, Live, Quiet, Halted, Busy
<1>3. i + 1 \in Stages => OnePass(i + 1)' /\ InStep(i + 1)'
  BY <1>1, Below
<1>. QED  BY <1>1, <1>2, <1>3, Local

LEMMA ForwardLinks == ASSUME Links, Sound, NEW i \in Stages, Forward(i) PROVE Links'
<1>1. i + 1 # 1 /\ i + 1 \in Stages \ {i} /\ (i + 1) - 1 = i
  BY DEF Forward, Goto, Sound, Stages
<1>2. pc[i] = "forward"
  BY DEF Forward, Goto
<1>3. OnePass(i) /\ InStep(i) /\ OnePass(i + 1) /\ InStep(i + 1)
  BY <1>1 DEF Links
<1>4. ~Pending(i + 1) /\ Quiet(i + 1)
  BY <1>1, <1>2, <1>3 DEF Pending, OnePass
<1>5. work[i] = pass
  BY <1>2, <1>3 DEF OnePass, Busy
<1>6. Append(fwd[i + 1], work[i]) = <<pass>> /\ <<pass>> # <<>>
  BY <1>4, <1>5, Singleton DEF Quiet
<1>7. /\ pc'[i] = "awaiting" /\ fwd'[i + 1] = <<pass>>
      /\ \A j \in Stages \ {i} : pc'[j] = pc[j]
      /\ \A j \in Stages \ {i + 1} : fwd'[j] = fwd[j]
      /\ UNCHANGED <<coord, bwd, work, todo, kv>>
  BY <1>1, <1>6 DEF Forward, Goto, Sound
<1>8. OnePass(i)' /\ InStep(i)'
  BY <1>1, <1>2, <1>3, <1>7, Above DEF OnePass, InStep, Live, Quiet, Halted, Busy
<1>9. OnePass(i + 1)' /\ InStep(i + 1)'
  <2>1. Pending(i + 1)'
    BY <1>1, <1>7 DEF Pending
  <2>2. Live(i + 1) => kv[i + 1] \in {<<>>, Before}
    BY <1>1, <1>2, <1>3, <1>4 DEF InStep, FollowsUpstream
  <2>3. pc[i + 1] \notin Halted /\ bwd[i + 1] = <<>> /\ todo[i + 1] = <<>>
    BY <1>4 DEF Quiet
  <2>4. pc'[i + 1] = pc[i + 1] /\ kv'[i + 1] = kv[i + 1]
    BY <1>1, <1>7
  <2>5. OnePass(i + 1)'
    BY <1>6, <1>7, <2>1, <2>3, <2>4, Above DEF OnePass, Halted, Busy
  <2>6. InStep(i + 1)'
    BY <1>6, <1>7, <2>2, <2>3, <2>4, Above DEF InStep, Live, Quiet, Halted, Busy
  <2>. QED  BY <2>5, <2>6
<1>. QED  BY <1>7, <1>8, <1>9, Local

LEMMA AwaitLinks == ASSUME K = 0, Links, Sound, NEW i \in Stages, Await(i) PROVE Links'
<1>1. i + 1 # 1 /\ i + 1 \in Stages \ {i} /\ (i + 1) - 1 = i
  BY DEF Await, Goto, Sound, Stages
<1>2. pc[i] = "awaiting" /\ bwd[i + 1] # <<>>
  BY DEF Await, Goto
<1>3. OnePass(i) /\ InStep(i) /\ OnePass(i + 1) /\ InStep(i + 1)
  BY <1>1 DEF Links
<1>4. /\ bwd[i + 1] = << <<NextToken>> >> /\ fwd[i + 1] = <<>> /\ todo[i + 1] = <<>>
      /\ pc[i + 1] \notin Halted
  BY <1>2, <1>3 DEF OnePass
<1>5. Received(i + 1, Count(work[i])) = <<NextToken>> /\ Tail(bwd[i + 1]) = <<>>
  <2>1. Count(work[i]) = 1
    BY WorkType DEF Sound, Count
  <2>2. Head(bwd[i + 1]) = <<NextToken>> /\ Tail(bwd[i + 1]) = <<>>
    BY <1>4, Singleton
  <2>3. Upto(<<NextToken>>, 1) = <<NextToken>>
    BY Singleton DEF Upto
  <2>. QED  BY <2>1, <2>2, <2>3 DEF Received
<1>6. /\ pc'[i] = "reply" /\ todo'[i] = <<NextToken>> /\ bwd'[i + 1] = <<>>
      /\ \A j \in Stages \ {i} : pc'[j] = pc[j] /\ todo'[j] = todo[j]
      /\ \A j \in Stages \ {i + 1} : bwd'[j] = bwd[j]
      /\ UNCHANGED <<coord, fwd, work, kv>>
  BY <1>1, <1>5 DEF Await, Accepted, Goto, Sound
<1>7. Pending(i)
  BY <1>2, <1>3 DEF OnePass, Quiet, Halted, Busy
<1>8. OnePass(i)' /\ InStep(i)'
  BY <1>1, <1>2, <1>3, <1>6, <1>7, Above
  DEF OnePass, InStep, Live, Quiet, Halted, Busy
<1>9. OnePass(i + 1)' /\ InStep(i + 1)'
  <2>1. pc'[i + 1] = pc[i + 1] /\ kv'[i + 1] = kv[i + 1] /\ todo'[i + 1] = todo[i + 1]
    BY <1>1, <1>6
  <2>2. Live(i + 1) => kv[i + 1] = Context
    BY <1>2, <1>3 DEF InStep
  <2>3. kv[i] = Context
    BY <1>2, <1>3 DEF InStep, Live, Busy
  <2>4. OnePass(i + 1)'
    BY <1>4, <1>6, <2>1 DEF OnePass, Quiet, Halted, Busy
  <2>5. InStep(i + 1)'
    BY <1>1, <1>4, <1>6, <2>1, <2>2, <2>3 DEF InStep, FollowsUpstream, Live, Halted, Busy
  <2>. QED  BY <2>4, <2>5
<1>. QED  BY <1>6, <1>8, <1>9, Local

LEMMA ReplyLinks == ASSUME Links, Sound, NEW i \in Stages, Reply(i) PROVE Links'
<1>1. pc[i] = "reply" /\ OnePass(i) /\ InStep(i)
  BY DEF Reply, Goto, Links
<1>2. todo[i] = <<NextToken>> /\ bwd[i] = <<>> /\ fwd[i] = <<>> /\ Pending(i)
  BY <1>1 DEF OnePass, Quiet, Halted, Busy
<1>3. /\ Head(todo[i]) = NextToken /\ Tail(todo[i]) = <<>> /\ Len(todo[i]) = 1
      /\ Append(bwd[i], <<Head(todo[i])>>) = << <<NextToken>> >>
      /\ << <<NextToken>> >> # <<>>
  BY <1>2, Singleton
<1>4. /\ pc'[i] = "waiting" /\ todo'[i] = <<>> /\ bwd'[i] = << <<NextToken>> >>
      /\ \A j \in Stages \ {i} :
           pc'[j] = pc[j] /\ todo'[j] = todo[j] /\ bwd'[j] = bwd[j]
      /\ UNCHANGED <<coord, fwd, work, kv>>
  BY <1>3 DEF Reply, Opened, Goto, Sound
<1>5. kv[i] = Context
  BY <1>1 DEF InStep, Live, Busy
<1>6. OnePass(i)' /\ InStep(i)'
  BY <1>2, <1>3, <1>4, <1>5, Above DEF OnePass, InStep, Live, Quiet, Halted, Busy
<1>7. i + 1 \in Stages => OnePass(i + 1)' /\ InStep(i + 1)'
  <2>1. i + 1 # i
    BY DEF Stages
  <2>. QED  BY <1>1, <1>4, <2>1, Below
<1>. QED  BY <1>4, <1>6, <1>7, Local

LEMMA TaskLinks ==
  ASSUME K = 0, ChainInv, Sound, NEW i \in Stages, Task(i) PROVE Links'
<1>. USE DEF ChainInv
<1>1. CASE Refuse(i)
  BY <1>1, LinksKept DEF Refuse, tasks
<1>2. CASE LayersFail(i)
  <2>1. \A j \in Stages \ {i} : kv'[j] = kv[j]
    BY <1>2 DEF LayersFail, Sound
  <2>. QED  BY <1>2, <2>1, FailsLinks DEF LayersFail, Busy
<1>3. CASE DialFails(i)
  BY <1>3, FailsLinks DEF DialFails, Busy
<1>4. CASE NextLost(i)
  BY <1>4, FailsLinks DEF NextLost, Busy
<1>5. CASE ReplyFails(i)
  BY <1>5, FailsLinks DEF ReplyFails, Busy
<1>. QED  BY <1>1, <1>2, <1>3, <1>4, <1>5, AcceptLinks, ReceiveLinks, LayersLinks,
             DialLinks, ForwardLinks, AwaitLinks, ReplyLinks, LeaveLinks, ClearLinks
          DEF Task

LEMMA TaskKeepsCoord ==
  ASSUME NEW i \in Stages, Task(i) \/ ConnectionLost(i)
  PROVE  UNCHANGED coord
BY DEF Task, ConnectionLost, Accept, Refuse, Receive, Layers, LayersFail,
   Dial, DialFails, Forward, Await, NextLost, Reply, ReplyFails, Leave, Clear, Fails

LEMMA TaskInv ==
  ASSUME K = 0, ChainInv, Sound, NEW i \in Stages, Task(i) \/ ConnectionLost(i)
  PROVE  ChainInv'
<1>1. UNCHANGED coord
  BY TaskKeepsCoord
<1>2. Links'
  <2>1. CASE ConnectionLost(i)
    BY <2>1, LinksKept DEF ConnectionLost, tasks, ChainInv
  <2>. QED  BY <2>1, TaskLinks
<1>. QED  BY <1>1, <1>2 DEF ChainInv, Started, DuePass, coord

(* A step of the coordinator that writes to no link, when nothing is on    *)
(* one, or by which it gives up.                                           *)
LEMMA CoordinatorLinks ==
  ASSUME Links, UNCHANGED <<out, fwd, bwd, pc, work, todo, kv>>,
         \/ (\A i \in Stages : Quiet(i)) /\ (cpc' \in {"idle", "send"} => cpc \in {"idle", "send"})
         \/ pass' = pass /\ Pending(1)' /\ cpc' = "failed"
  PROVE  Links'
<1>. SUFFICES ASSUME NEW i \in Stages PROVE OnePass(i)' /\ InStep(i)'
  BY DEF Links
<1>1. OnePass(i) /\ InStep(i)
  BY DEF Links
<1>2. Context' = Context /\ Before' = Before /\ NextToken' = NextToken
  BY DEF Context, Before, NextToken
<1>3. i # 1 => Pending(i)' = Pending(i)
  BY DEF Pending
<1>4. Quiet(i)' = Quiet(i) /\ Live(i)' = Live(i)
  BY DEF Quiet, Live
<1>5. CASE Quiet(i) /\ (cpc' \in {"idle", "send"} => cpc \in {"idle", "send"})
  <2>1. OnePass(i)'
    BY <1>1, <1>4, <1>5 DEF OnePass, Quiet, Halted, Busy
  <2>2. FollowsUpstream(i) => FollowsUpstream(i)'
    BY <1>2, <1>5 DEF FollowsUpstream
  <2>3. InStep(i)'
    BY <1>1, <1>2, <1>4, <1>5, <2>2 DEF InStep
  <2>. QED  BY <2>1, <2>3
<1>6. CASE pass' = pass /\ Pending(1)' /\ cpc' = "failed"
  <2>1. OnePass(i)'
    BY <1>1, <1>2, <1>3, <1>4, <1>6 DEF OnePass
  <2>2. FollowsUpstream(i) => FollowsUpstream(i)'
    BY <1>2, <1>6 DEF FollowsUpstream
  <2>3. InStep(i)'
    BY <1>1, <1>2, <1>4, <2>2 DEF InStep
  <2>. QED  BY <2>1, <2>3
<1>. QED  BY <1>5, <1>6

LEMMA NoIdlePass == Sound /\ cpc \in {"send", "recv"} => pass # Idle
BY WorkType DEF Sound, Idle

(* The token the coordinator receives is the one of the greedy text.       *)
LEMMA TokenReceived ==
  ASSUME K = 0, ChainInv, Sound, ReceiveToken
  PROVE  /\ NextToken \in Vocab
         /\ Continue(Append(out, NextToken)) /\ out' = Append(out, NextToken)
         /\ bwd[1] # <<>> /\ bwd'[1] = <<>>
         /\ \A j \in Stages \ {1} : bwd'[j] = bwd[j]
<1>1. 1 \in Stages
  BY DEF Stages
<1>2. bwd[1] = << <<NextToken>> >>
  BY <1>1 DEF ReceiveToken, ChainInv, Links, OnePass
<1>3. Head(bwd[1]) = <<NextToken>> /\ Tail(bwd[1]) = <<>> /\ <<NextToken>>[1] = NextToken
  BY <1>2, Singleton
<1>4. Received(1, 1) = <<NextToken>>
  <2>1. Upto(<<NextToken>>, 1) = <<NextToken>>
    BY Singleton DEF Upto
  <2>. QED  BY <1>3, <2>1 DEF Received
<1>5. NextToken \in Vocab
  <2>1. Received(1, 1) \in Text
    BY <1>1, ReceivedType DEF ReceiveToken, Sound
  <2>. QED  BY <1>3, <1>4, <2>1, LenProperties, ElementOfSeq DEF Text
<1>6. Continue(Append(out, NextToken))
  BY <1>3, <1>4 DEF ReceiveToken
<1>7. bwd'[1] = <<>> /\ \A j \in Stages \ {1} : bwd'[j] = bwd[j]
  BY <1>1, <1>3 DEF ReceiveToken, Accepted, Sound
<1>. QED  BY <1>5, <1>6, <1>7 DEF Continue, ReceiveToken

LEMMA ReceiveTokenInv ==
  ASSUME K = 0, ChainInv, Sound, ReceiveToken PROVE ChainInv'
<1>1. 1 \in Stages /\ \A j \in Stages : j = 1 \/ (j # 1 /\ j > 1 /\ j - 1 \in Stages)
  BY DEF Stages
<1>2. OnePass(1) /\ InStep(1) /\ bwd[1] # <<>>
  BY <1>1, TokenReceived DEF ChainInv, Links
<1>3. pc[1] \notin Halted /\ fwd[1] = <<>> /\ todo[1] = <<>>
  BY <1>2 DEF OnePass
<1>4. \A j \in Stages : j # 1 => Quiet(j)
  BY <1>1, <1>3, QuietBelow DEF ChainInv, Links
<1>5. Before' = Context
  BY TokenReceived, BeforeNext DEF Sound
<1>6. /\ cpc' \in {"send", "closing"} /\ (cpc' = "send" => pass' = NextPass(out'))
      /\ UNCHANGED <<fwd, pc, work, todo, kv>>
      /\ out' # <<>>
  <2>1. Append(out, NextToken) # <<>>
    <3>1. NextToken \in Vocab /\ out \in Seq(Vocab)
      BY TokenReceived DEF Sound
    <3>2. Append(out, NextToken) \in Seq(Vocab) \ {<<>>}
      BY <3>1, AppendType
    <3>. QED  BY <3>2
  <2>. QED  BY <2>1, TokenReceived DEF ReceiveToken, Continue, tasks
<1>7. NextPass(out') = DuePass'
  BY <1>6 DEF NextPass, DuePass
<1>8. \A j \in Stages : Quiet(j)'
  BY <1>1, <1>3, <1>4, <1>6, TokenReceived DEF Quiet
<1>9. ASSUME NEW j \in Stages PROVE FollowsUpstream(j)' \/ ~Live(j)
  <2>1. CASE j = 1
    <3>1. kv[1] = Context \/ ~Live(1)
      BY <1>2 DEF InStep
    <3>2. kv'[1] = Before' \/ ~Live(1)
      BY <1>5, <1>6, <3>1
    <3>3. FollowsUpstream(1)' \/ ~Live(1)
      BY <3>2 DEF FollowsUpstream
    <3>. QED  BY <2>1, <3>3
  <2>2. CASE j # 1
    <3>1. pc[j - 1] \notin Halted
      BY <1>1, <1>3, <1>4, <2>2 DEF Quiet
    <3>2. FollowsUpstream(j) \/ ~Live(j)
      BY <1>4, <2>2 DEF ChainInv, Links, InStep
    <3>. QED  BY <1>6, <2>2, <3>1, <3>2 DEF FollowsUpstream, Halted, Busy
  <2>. QED  BY <2>1, <2>2
<1>10. ASSUME NEW j \in Stages PROVE OnePass(j)' /\ InStep(j)'
  <2>1. OnePass(j)'
    BY <1>8 DEF OnePass, Quiet, Halted, Busy
  <2>2. InStep(j)'
    BY <1>6, <1>8, <1>9 DEF InStep, Live, Quiet, Halted, Busy
  <2>. QED  BY <2>1, <2>2
<1>. QED  BY <1>6, <1>7, <1>10 DEF ChainInv, Links, Started

LEMMA SendPassInv == ASSUME ChainInv, Sound, SendPass PROVE ChainInv'
<1>1. 1 \in Stages
  BY DEF Stages
<1>2. /\ cpc = "send" /\ cpc' = "recv" /\ fwd' = [fwd EXCEPT ![1] = Append(@, pass)]
      /\ UNCHANGED <<pass, out, bwd, pc, work, todo, kv>>
  BY DEF SendPass, tasks
<1>3. OnePass(1) /\ InStep(1) /\ Quiet(1)
  BY <1>1, <1>2 DEF ChainInv, Links, OnePass, Pending
<1>4. Append(fwd[1], pass) = <<pass>> /\ <<pass>> # <<>>
  BY <1>3, Singleton DEF Quiet
<1>5. fwd'[1] = <<pass>> /\ \A j \in Stages \ {1} : fwd'[j] = fwd[j]
  BY <1>1, <1>2, <1>4 DEF Sound
<1>6. /\ Context' = Context /\ Before' = Before /\ NextToken' = NextToken
      /\ DuePass' = DuePass
  BY <1>2 DEF Context, Before, NextToken, DuePass
<1>7. OnePass(1)'
  BY <1>2, <1>3, <1>4, <1>5 DEF OnePass, Pending, Quiet, Halted, Busy
<1>8. InStep(1)'
  <2>1. Live(1) => kv[1] \in {<<>>, Before}
    BY <1>2, <1>3 DEF InStep, FollowsUpstream
  <2>. QED  BY <1>2, <1>3, <1>4, <1>5, <1>6, <2>1 DEF InStep, Live, Quiet, Halted, Busy
<1>9. ASSUME NEW j \in Stages, j # 1 PROVE OnePass(j)' /\ InStep(j)'
  <2>1. OnePass(j) /\ InStep(j) /\ fwd'[j] = fwd[j]
    BY <1>5, <1>9 DEF ChainInv, Links
  <2>2. Pending(j)' = Pending(j) /\ FollowsUpstream(j)' = FollowsUpstream(j)
    BY <1>2, <1>6, <1>9 DEF Pending, FollowsUpstream
  <2>3. Quiet(j)' = Quiet(j) /\ Live(j)' = Live(j)
    BY <1>2, <2>1 DEF Quiet, Live
  <2>4. OnePass(j)'
    BY <1>2, <1>6, <2>1, <2>2, <2>3 DEF OnePass
  <2>5. InStep(j)'
    BY <1>2, <1>6, <2>1, <2>2, <2>3 DEF InStep
  <2>. QED  BY <2>4, <2>5
<1>. QED  BY <1>2, <1>6, <1>7, <1>8, <1>9 DEF ChainInv, Links, Started

LEMMA CoordinatorInv ==
  ASSUME K = 0, ChainInv, Sound, Coordinator PROVE ChainInv'
<1>1. CASE Start \/ StartFails
  <2>1. \A i \in Stages : Quiet(i)
    BY <1>1, QuietChain DEF Start, StartFails, ChainInv, Links, Pending
  <2>2. /\ cpc = "idle" /\ out = <<>> /\ pass = Idle
        /\ UNCHANGED <<out, fwd, bwd, pc, work, todo, kv>>
        /\ \/ cpc' = "send" /\ pass' = [ids |-> Prompt, k |-> 0]
           \/ cpc' = "failed" /\ pass' = pass
    BY <1>1 DEF Start, StartFails, ChainInv, links, tasks
  <2>3. Links'
    BY <2>1, <2>2, CoordinatorLinks DEF ChainInv
  <2>4. Started' => pass' = DuePass'
    BY <2>2 DEF Started, DuePass, Idle
  <2>. QED  BY <2>2, <2>3, <2>4 DEF ChainInv
<1>2. CASE SendPass
  BY <1>2, SendPassInv
<1>3. CASE ReceiveToken
  BY <1>3, ReceiveTokenInv
<1>4. CASE ReceiveVerified
  BY <1>4, WorkType DEF ReceiveVerified, Sound
<1>5. CASE Close
  <2>1. \A i \in Stages : Quiet(i)
    BY <1>5, QuietChain DEF Close, ChainInv, Links, Pending
  <2>2. cpc' = "done" /\ UNCHANGED <<pass, out, fwd, bwd, pc, work, todo, kv>>
    BY <1>5 DEF Close, tasks
  <2>3. Links'
    BY <2>1, <2>2, CoordinatorLinks DEF ChainInv
  <2>. QED  BY <2>2, <2>3 DEF ChainInv, Started
<1>6. CASE CoordinatorFails
  <2>1. /\ cpc \in {"send", "recv"} /\ cpc' = "failed"
        /\ UNCHANGED <<pass, out, fwd, bwd, pc, work, todo, kv>>
    BY <1>6 DEF CoordinatorFails, links, tasks
  <2>2. Pending(1)'
    BY <2>1, NoIdlePass DEF Pending, Idle
  <2>3. Links'
    BY <2>1, <2>2, CoordinatorLinks DEF ChainInv
  <2>. QED  BY <2>1, <2>3 DEF ChainInv, Started, DuePass
<1>. QED  BY <1>1, <1>2, <1>3, <1>4, <1>5, <1>6 DEF Coordinator

LEMMA ChainStep ==
  ASSUME K = 0, ChainInv, Sound, [Next]_vars PROVE ChainInv'
<1>1. CASE UNCHANGED vars
  <2>1. UNCHANGED <<coord, fwd, bwd, pc, work, todo, kv>>
    BY <1>1 DEF vars, links, tasks
  <2>2. Links'
    BY <2>1, LinksKept DEF ChainInv
  <2>. QED  BY <2>1, <2>2 DEF ChainInv, Started, DuePass, coord
<1>. QED  BY <1>1, CoordinatorInv, TaskInv DEF Next

LEMMA ChainInit == Init => ChainInv
<1>. SUFFICES ASSUME Init PROVE ChainInv
  OBVIOUS
<1>1. ASSUME NEW j \in Stages PROVE OnePass(j) /\ InStep(j)
  <2>1. j # 1 => j - 1 \in Stages
    BY DEF Stages
  <2>. QED  BY <2>1 DEF Init, OnePass, InStep, Quiet, Halted, Busy, FollowsUpstream
<1>. QED  BY <1>1 DEF Init, ChainInv, Links, Started

LEMMA ChainInvariant ==
  ASSUME PredictTyped, K = 0 PROVE Spec => [](Sound /\ ChainInv)
<1>1. Init => Sound /\ ChainInv
  BY SoundInit, ChainInit
<1>2. Sound /\ ChainInv /\ [Next]_vars => (Sound /\ ChainInv)'
  BY SoundStep, ChainStep
<1>. QED  BY <1>1, <1>2, PTL DEF Spec

(* No stage ever works on a context another stage does not have: its cache *)
(* and its input are the prompt and the tokens generated so far, however   *)
(* many passes and failures there were (conductor.rs:88-108,               *)
(* pipeline_server.py:366, 439-440).                                       *)
THEOREM ContextTheorem ==
  ASSUME PredictTyped, K = 0 PROVE Spec => []NextInContext
<1>1. Sound /\ ChainInv => NextInContext
  BY WorkingInContext DEF NextInContext, Context
<1>. QED  BY <1>1, ChainInvariant, PTL

(* A pass begins on a quiet chain (conductor.rs:334-404).                  *)
THEOREM QuietTheorem ==
  ASSUME PredictTyped, K = 0 PROVE Spec => []QuietBetweenPasses
<1>1. ChainInv => QuietBetweenPasses
  BY QuietChain DEF ChainInv, Links, QuietBetweenPasses, Pending, Quiet, Halted, Busy
<1>. QED  BY <1>1, ChainInvariant, PTL

(* Without speculation nobody waits for room on a link, at any limit       *)
(* (conductor.rs:116-118, 459, 521, 729).                                  *)
THEOREM RoomTheorem ==
  ASSUME PredictTyped, K = 0 PROVE Spec => []NeverBlocked
<1>1. Room(<<>>)
  <2>1. Len(<<>>) = 0
    BY EmptySeq
  <2>. QED  BY <2>1, ChainAssumption DEF Room
<1>2. ASSUME Sound, ChainInv, cpc = "send" PROVE fwd[1] = <<>>
  BY <1>2, ChainAssumption DEF ChainInv, Links, OnePass, Pending, Quiet, Stages
<1>3. ASSUME Sound, ChainInv, NEW i \in Stages, pc[i] = "forward"
      PROVE  fwd[i + 1] = <<>>
  <2>1. i + 1 \in Stages
    BY <1>3 DEF Sound, Busy, Stages
  <2>2. ~Pending(i + 1)
    BY <1>3 DEF Pending, Stages
  <2>. QED  BY <1>3, <2>1, <2>2 DEF ChainInv, Links, OnePass, Quiet
<1>4. ASSUME Sound, ChainInv, NEW i \in Stages, pc[i] = "reply"
      PROVE  bwd[i] = <<>>
  BY <1>4 DEF ChainInv, Links, OnePass, Busy
<1>5. Sound /\ ChainInv => NeverBlocked
  BY <1>1, <1>2, <1>3, <1>4 DEF NeverBlocked
<1>. QED  BY <1>5, ChainInvariant, PTL

-----------------------------------------------------------------------------
(* Refinement                                                              *)

LEMMA GreedyInit == Init => Greedy!Init
BY DEF Init, Greedy!Init

LEMMA GreedyGenerate ==
  ASSUME K = 0, ChainInv, Sound, ReceiveToken PROVE Greedy!Generate
<1>1. /\ cpc = "recv" /\ out' = Append(out, NextToken)
      /\ cpc' = IF Finished(out') THEN "closing" ELSE "send"
  BY TokenReceived DEF ReceiveToken, Continue
<1>2. out' # <<>>
  <2>1. NextToken \in Vocab /\ out \in Seq(Vocab)
    BY TokenReceived DEF Sound
  <2>. QED  BY <1>1, <2>1, AppendType
<1>3. Greedy!Finished(out') = Finished(out')
  BY <1>2 DEF Greedy!Finished, Finished, Final
<1>. QED  BY <1>1, <1>3 DEF Greedy!Generate, NextToken, Context

LEMMA GreedyStep ==
  ASSUME K = 0, ChainInv, Sound, [Next]_vars PROVE [Greedy!Next]_(Greedy!vars)
<1>1. CASE ReceiveToken
  BY <1>1, GreedyGenerate DEF Greedy!Next
<1>2. CASE StartFails \/ CoordinatorFails
  BY <1>2 DEF StartFails, CoordinatorFails, Greedy!Next, Greedy!Abort
<1>3. CASE Start \/ SendPass \/ Close
  BY <1>3 DEF Start, SendPass, Close, Greedy!vars
<1>4. CASE ReceiveVerified
  BY <1>4, WorkType DEF ReceiveVerified, Sound
<1>5. CASE UNCHANGED coord
  BY <1>5 DEF coord, Greedy!vars
<1>6. CASE \E i \in Stages : Task(i) \/ ConnectionLost(i)
  BY <1>5, <1>6, TaskKeepsCoord DEF ConnectionLost
<1>. QED  BY <1>1, <1>2, <1>3, <1>4, <1>5, <1>6 DEF Next, Coordinator, vars

(* A chain without speculation implements the greedy decoding of one       *)
(* machine, whatever fails (conductor.rs:277-430).                         *)
THEOREM RefinementTheorem ==
  ASSUME PredictTyped, K = 0 PROVE Spec => ImplementsGreedy
<1>1. Sound /\ ChainInv /\ [Next]_vars => [Greedy!Next]_(Greedy!vars)
  BY GreedyStep
<1>. QED  BY <1>1, GreedyInit, ChainInvariant, PTL DEF Spec, ImplementsGreedy, Greedy!Spec

LEMMA OutputStep ==
  ASSUME K = 0, ChainInv, Sound, OutputIsGreedy, [Next]_vars PROVE OutputIsGreedy'
<1>1. CASE UNCHANGED out
  BY <1>1 DEF OutputIsGreedy
<1>2. CASE ReceiveToken
  <2>1. /\ NextToken \in Vocab /\ out \in Seq(Vocab) /\ Len(out) \in Nat
        /\ out' = Append(out, NextToken)
    BY <1>2, TokenReceived, LenProperties DEF Sound
  <2>2. Len(out') = Len(out) + 1 /\ out'[Len(out) + 1] = NextToken
    BY <2>1, AppendProperties
  <2>3. ASSUME NEW j \in 1 .. Len(out)
        PROVE  out'[j] = out[j] /\ SubSeq(out', 1, j - 1) = SubSeq(out, 1, j - 1)
    BY <2>1, AppendProperties
  <2>4. SubSeq(out', 1, Len(out)) = out
    BY <2>1, AppendProperties
  <2>5. ASSUME NEW j \in 1 .. Len(out')
        PROVE  out'[j] = Predict(Prompt \o SubSeq(out', 1, j - 1))
    <3>1. CASE j \in 1 .. Len(out)
      BY <2>3, <3>1 DEF OutputIsGreedy
    <3>2. CASE j = Len(out) + 1
      <4>1. j - 1 = Len(out)
        BY <2>1, <3>2
      <4>. QED  BY <2>2, <2>4, <3>2, <4>1 DEF NextToken, Context
    <3>. QED  BY <2>1, <2>2, <3>1, <3>2
  <2>. QED  BY <2>5 DEF OutputIsGreedy
<1>3. UNCHANGED out \/ ReceiveToken
  <2>1. ~ReceiveVerified
    BY WorkType DEF ReceiveVerified, Sound
  <2>. QED  BY <2>1, TaskKeepsCoord
       DEF Next, Coordinator, Start, StartFails, SendPass, Close, CoordinatorFails,
           vars, coord
<1>. QED  BY <1>1, <1>2, <1>3

(* The tokens alone: each is what the model predicts after the prompt and  *)
(* the tokens before it (conductor.rs:333-404).                            *)
THEOREM GreedyOutput ==
  ASSUME PredictTyped, K = 0 PROVE Spec => []OutputIsGreedy
<1>1. Init => OutputIsGreedy
  <2>1. Len(<<>>) = 0
    BY EmptySeq
  <2>. QED  BY <2>1 DEF Init, OutputIsGreedy
<1>. QED  BY <1>1, OutputStep, ChainInvariant, PTL DEF Spec
-----------------------------------------------------------------------------
(* Failures have a cause                                                   *)

(* As long as nothing failed and the request goes on, no connection is     *)
(* closed and a server without a cache has been given nothing but the      *)
(* first pass, which is the only one it can answer.                        *)
FirstPass == [ids |-> Prompt, k |-> 0]

UpstreamAwaits(i) == IF i = 1 THEN cpc = "recv" ELSE pc[i - 1] = "awaiting"

Fresh(i) ==
  /\ bwd[i] = <<>> /\ pc[i] \in {"absent", "waiting", "layers"}
  /\ \/ fwd[i] = <<>> /\ pc[i] # "layers"
     \/ fwd[i] = <<FirstPass>> /\ pc[i] # "layers" /\ UpstreamAwaits(i)
     \/ fwd[i] = <<>> /\ pc[i] = "layers" /\ work[i] = FirstPass /\ UpstreamAwaits(i)
  /\ i = 1 => cpc \in {"idle", "send", "recv"} /\ (cpc = "send" => pass = FirstPass)
  /\ i # 1 => /\ pc[i - 1] \in {"dial", "forward"} => work[i - 1] = FirstPass
              /\ pc[i - 1] \in {"absent", "waiting", "layers"} => kv[i - 1] = <<>>
              /\ pc[i - 1] # "reply"

Connected(i) ==
  /\ conn[i] # "closed"
  /\ pc[i] \notin {"clearing", "left", "unclean", "failed"}
  /\ pc[i] \in {"forward", "awaiting"} => conn[i + 1] = "open"

SmoothInv ==
  faults = 0 /\ cpc # "done" =>
    /\ cpc # "failed"
    /\ \A i \in Stages : Connected(i) /\ (kv[i] = <<>> => Fresh(i))

(* What a step does not touch stays fresh.                                 *)
LEMMA FreshKept ==
  ASSUME NEW i \in Stages, kv[i] = <<>> => Fresh(i), UNCHANGED <<cpc, pass>>,
         fwd'[i] = fwd[i], bwd'[i] = bwd[i], pc'[i] = pc[i],
         work'[i] = work[i], kv'[i] = kv[i],
         i # 1 => /\ pc'[i - 1] = pc[i - 1] /\ work'[i - 1] = work[i - 1]
                  /\ kv'[i - 1] = kv[i - 1]
  PROVE  kv'[i] = <<>> => Fresh(i)'
<1>1. UpstreamAwaits(i)' = UpstreamAwaits(i)
  BY DEF UpstreamAwaits
<1>. QED  BY <1>1 DEF Fresh

(* A step of stage i concerns that stage and the next.                     *)
LEMMA FreshLocal ==
  ASSUME Sound, NEW i \in Stages, \A j \in Stages : kv[j] = <<>> => Fresh(j),
         UNCHANGED <<cpc, pass>>,
         \A j \in Stages \ {i} : /\ pc'[j] = pc[j] /\ work'[j] = work[j]
                                 /\ kv'[j] = kv[j],
         \A j \in Stages \ {i, i + 1} : fwd'[j] = fwd[j] /\ bwd'[j] = bwd[j],
         kv'[i] = <<>> => Fresh(i)',
         i + 1 \in Stages /\ kv'[i + 1] = <<>> => Fresh(i + 1)'
  PROVE  \A j \in Stages : kv'[j] = <<>> => Fresh(j)'
<1>. SUFFICES ASSUME NEW j \in Stages, j # i, j # i + 1
              PROVE  kv'[j] = <<>> => Fresh(j)'
  OBVIOUS
<1>1. j # 1 => j - 1 \in Stages \ {i}
  BY DEF Stages
<1>. QED  BY <1>1, FreshKept

LEMMA SmoothInit == Init => SmoothInv
<1>. SUFFICES ASSUME Init, NEW i \in Stages PROVE Connected(i) /\ Fresh(i)
  BY DEF Init, SmoothInv
<1>1. i # 1 => i - 1 \in Stages
  BY DEF Stages
<1>. QED  BY <1>1 DEF Init, Connected, Fresh

LEMMA SmoothStart ==
  ASSUME Sound, Start, \A i \in Stages : Connected(i) /\ (kv[i] = <<>> => Fresh(i))
  PROVE  \A i \in Stages : Connected(i)' /\ (kv'[i] = <<>> => Fresh(i)')
<1>1. /\ cpc = "idle" /\ cpc' = "send" /\ pass' = FirstPass
      /\ conn' = [conn EXCEPT ![1] = "open"]
      /\ UNCHANGED <<fwd, bwd, pc, work, kv>>
  BY DEF Start, FirstPass, tasks
<1>. SUFFICES ASSUME NEW i \in Stages
              PROVE  Connected(i)' /\ (kv'[i] = <<>> => Fresh(i)')
  OBVIOUS
<1>2. Connected(i)'
  BY <1>1 DEF Connected, Sound, Stages
<1>3. i = 1 => (kv'[i] = <<>> => Fresh(i)')
  BY <1>1 DEF Fresh, UpstreamAwaits
<1>4. i # 1 => (kv'[i] = <<>> => Fresh(i)')
  BY <1>1 DEF Fresh, UpstreamAwaits
<1>. QED  BY <1>2, <1>3, <1>4

LEMMA SmoothSend ==
  ASSUME Sound, SendPass, \A i \in Stages : Connected(i) /\ (kv[i] = <<>> => Fresh(i))
  PROVE  \A i \in Stages : Connected(i)' /\ (kv'[i] = <<>> => Fresh(i)')
<1>1. /\ cpc = "send" /\ cpc' = "recv" /\ fwd' = [fwd EXCEPT ![1] = Append(@, pass)]
      /\ UNCHANGED <<pass, conn, bwd, pc, work, kv>>
  BY DEF SendPass, tasks
<1>. SUFFICES ASSUME NEW i \in Stages
              PROVE  Connected(i)' /\ (kv'[i] = <<>> => Fresh(i)')
  OBVIOUS
<1>2. Connected(i)'
  BY <1>1 DEF Connected
<1>3. CASE i = 1
  <2>1. SUFFICES ASSUME kv[1] = <<>> PROVE Fresh(1)'
    BY <1>1, <1>2, <1>3
  <2>2. Fresh(1) /\ fwd[1] = <<>> /\ pc[1] # "layers" /\ pass = FirstPass
    BY <1>1, <1>3, <2>1 DEF Fresh, UpstreamAwaits
  <2>3. Append(fwd[1], pass) = <<FirstPass>>
    BY <2>2, Singleton
  <2>4. fwd'[1] = <<FirstPass>>
    BY <1>1, <1>3, <2>3 DEF Sound
  <2>. QED  BY <1>1, <2>2, <2>4 DEF Fresh, UpstreamAwaits
<1>4. CASE i # 1
  <2>1. fwd'[i] = fwd[i]
    BY <1>1, <1>4 DEF Sound
  <2>. QED  BY <1>1, <1>2, <1>4, <2>1 DEF Fresh, UpstreamAwaits
<1>. QED  BY <1>3, <1>4

LEMMA SmoothReceived ==
  ASSUME Sound, ReceiveToken \/ ReceiveVerified,
         \A i \in Stages : Connected(i) /\ (kv[i] = <<>> => Fresh(i))
  PROVE  /\ cpc' \in {"closing", "send"}
         /\ \A i \in Stages : Connected(i)' /\ (kv'[i] = <<>> => Fresh(i)')
<1>1. /\ bwd[1] # <<>> /\ bwd' = Accepted(1) /\ cpc' \in {"closing", "send"}
      /\ UNCHANGED <<conn, fwd, pc, work, kv>>
  BY DEF ReceiveToken, ReceiveVerified, Continue, tasks
<1>2. 1 \in Stages
  BY DEF Stages
<1>3. kv[1] # <<>>
  BY <1>1, <1>2 DEF Fresh
<1>. SUFFICES ASSUME NEW i \in Stages
              PROVE  Connected(i)' /\ (kv'[i] = <<>> => Fresh(i)')
  BY <1>1
<1>4. Connected(i)'
  BY <1>1 DEF Connected
<1>5. CASE i # 1
  <2>1. bwd'[i] = bwd[i]
    BY <1>1, <1>5 DEF Accepted, Sound
  <2>. QED  BY <1>1, <1>4, <1>5, <2>1 DEF Fresh, UpstreamAwaits
<1>. QED  BY <1>1, <1>3, <1>4, <1>5

(* A task that fails, refuses or leaves does so because something failed:  *)
(* with two stages the next one is always known, and with a prompt of      *)
(* several tokens no server is asked to decode before it has a cache.      *)
LEMMA NothingGivesUp ==
  ASSUME Sound, N <= 2, Len(Prompt) > 1, NEW i \in Stages,
         \A j \in Stages : Connected(j) /\ (kv[j] = <<>> => Fresh(j)),
         faults = 0, faults' = 0
  PROVE  /\ ~Refuse(i) /\ ~LayersFail(i) /\ ~DialFails(i) /\ ~NextLost(i)
         /\ ~ReplyFails(i) /\ ~Leave(i) /\ ~Clear(i) /\ ~ConnectionLost(i)
<1>1. ~Fault
  BY DEF Fault
<1>2. ~Refuse(i) /\ ~ConnectionLost(i)
  BY <1>1 DEF Refuse, ConnectionLost
<1>3. ~LayersFail(i)
  <2>1. SUFFICES ASSUME pc[i] = "layers" PROVE Known(i, work[i])
    BY <1>1 DEF LayersFail, Fails, Goto
  <2>2. IsPrefill(FirstPass)
    BY DEF IsPrefill, FirstPass
  <2>3. kv[i] = <<>> => work[i] = FirstPass
    BY <2>1 DEF Fresh
  <2>. QED  BY <2>2, <2>3 DEF Known
<1>4. ~DialFails(i)
  <2>1. pc[i] = "dial" => i = 1
    BY DEF Sound, Stages
  <2>. QED  BY <1>1, <2>1 DEF DialFails, Fails, Goto, HasNext
<1>5. ~NextLost(i)
  BY DEF NextLost, Fails, Goto, Connected
<1>6. ~ReplyFails(i) /\ ~Leave(i) /\ ~Clear(i)
  BY DEF ReplyFails, Leave, Clear, Goto, Connected
<1>. QED  BY <1>2, <1>3, <1>4, <1>5, <1>6

LEMMA SmoothAccept ==
  ASSUME Sound, NEW i \in Stages, Accept(i),
         \A j \in Stages : Connected(j) /\ (kv[j] = <<>> => Fresh(j))
  PROVE  \A j \in Stages : Connected(j)' /\ (kv'[j] = <<>> => Fresh(j)')
<1>1. /\ pc[i] = "absent" /\ pc'[i] = "waiting"
      /\ \A j \in Stages \ {i} : pc'[j] = pc[j]
      /\ UNCHANGED <<coord, conn, fwd, bwd, work, todo, kv>>
  BY DEF Accept, Goto, Sound, links
<1>2. \A j \in Stages : Connected(j)'
  BY <1>1 DEF Connected
<1>3. kv'[i] = <<>> => Fresh(i)'
  <2>1. i # 1 => i - 1 \in Stages \ {i}
    BY DEF Stages
  <2>2. UpstreamAwaits(i)' = UpstreamAwaits(i)
    BY <1>1, <2>1 DEF UpstreamAwaits, coord
  <2>. QED  BY <1>1, <2>1, <2>2 DEF Fresh, coord
<1>4. i + 1 \in Stages /\ kv'[i + 1] = <<>> => Fresh(i + 1)'
  <2>1. SUFFICES ASSUME i + 1 \in Stages, kv[i + 1] = <<>> PROVE Fresh(i + 1)'
    BY <1>1
  <2>2. i + 1 # 1 /\ i + 1 \in Stages \ {i} /\ (i + 1) - 1 = i
    BY <2>1 DEF Stages
  <2>. QED  BY <1>1, <2>1, <2>2 DEF Fresh, UpstreamAwaits
<1>. QED  BY <1>1, <1>2, <1>3, <1>4, FreshLocal DEF coord

LEMMA SmoothReceive ==
  ASSUME Sound, NEW i \in Stages, Receive(i),
         \A j \in Stages : Connected(j) /\ (kv[j] = <<>> => Fresh(j))
  PROVE  \A j \in Stages : Connected(j)' /\ (kv'[j] = <<>> => Fresh(j)')
<1>1. /\ pc[i] = "waiting" /\ pc'[i] = "layers" /\ fwd[i] # <<>>
      /\ work'[i] = Head(fwd[i]) /\ fwd'[i] = Tail(fwd[i])
      /\ \A j \in Stages \ {i} :
           pc'[j] = pc[j] /\ work'[j] = work[j] /\ fwd'[j] = fwd[j]
      /\ UNCHANGED <<coord, conn, bwd, todo, kv>>
  BY DEF Receive, Goto, Sound
<1>2. \A j \in Stages : Connected(j)'
  BY <1>1 DEF Connected
<1>3. kv'[i] = <<>> => Fresh(i)'
  <2>1. SUFFICES ASSUME kv[i] = <<>> PROVE Fresh(i)'
    BY <1>1
  <2>2. fwd[i] = <<FirstPass>> /\ UpstreamAwaits(i) /\ Fresh(i)
    BY <1>1, <2>1 DEF Fresh
  <2>3. Head(fwd[i]) = FirstPass /\ Tail(fwd[i]) = <<>>
    BY <2>2, Singleton
  <2>4. i # 1 => i - 1 \in Stages \ {i}
    BY DEF Stages
  <2>5. UpstreamAwaits(i)'
    BY <1>1, <2>2, <2>4 DEF UpstreamAwaits, coord
  <2>. QED  BY <1>1, <2>2, <2>3, <2>4, <2>5 DEF Fresh, coord
<1>4. i + 1 \in Stages /\ kv'[i + 1] = <<>> => Fresh(i + 1)'
  <2>1. SUFFICES ASSUME i + 1 \in Stages, kv[i + 1] = <<>> PROVE Fresh(i + 1)'
    BY <1>1
  <2>2. i + 1 # 1 /\ i + 1 \in Stages \ {i} /\ (i + 1) - 1 = i
    BY <2>1 DEF Stages
  <2>. QED  BY <1>1, <2>1, <2>2 DEF Fresh, UpstreamAwaits
<1>. QED  BY <1>1, <1>2, <1>3, <1>4, FreshLocal DEF coord

LEMMA SmoothLayers ==
  ASSUME Sound, NEW i \in Stages, Layers(i),
         \A j \in Stages : Connected(j) /\ (kv[j] = <<>> => Fresh(j))
  PROVE  \A j \in Stages : Connected(j)' /\ (kv'[j] = <<>> => Fresh(j)')
<1>1. /\ pc[i] = "layers" /\ kv'[i] = Cached(i, work[i])
      /\ pc'[i] = IF i = N THEN "reply" ELSE IF conn[i + 1] = "none" THEN "dial" ELSE "forward"
      /\ \A j \in Stages \ {i} : pc'[j] = pc[j] /\ kv'[j] = kv[j]
      /\ UNCHANGED <<coord, conn, fwd, bwd, work>>
  BY DEF Layers, Goto, Sound, links
<1>2. kv'[i] # <<>>
  <2>1. work[i] \in Work
    BY <1>1 DEF Sound, Busy
  <2>2. Len(Cached(i, work[i])) # 0
    <3>1. /\ Cached(i, work[i]) \in Seq(Vocab)
          /\ Len(Cached(i, work[i])) >= Len(work[i].ids)
          /\ Len(work[i].ids) \in Nat \ {0}
      BY <2>1, CachedType DEF Sound
    <3>2. Len(Cached(i, work[i])) \in Nat
      BY <3>1, LenProperties
    <3>. QED  BY <3>1, <3>2
  <2>. QED  BY <1>1, <2>2, EmptySeq
<1>3. i # N => i + 1 # 1 /\ i + 1 \in Stages \ {i} /\ (i + 1) - 1 = i
  BY DEF Stages
<1>4. \A j \in Stages : Connected(j)'
  <2>1. i # N /\ conn[i + 1] # "none" => conn[i + 1] = "open"
    BY <1>3 DEF Connected, Sound
  <2>2. Connected(i)'
    BY <1>1, <2>1 DEF Connected
  <2>. QED  BY <1>1, <2>2 DEF Connected
<1>5. i + 1 \in Stages /\ kv'[i + 1] = <<>> => Fresh(i + 1)'
  <2>1. SUFFICES ASSUME i + 1 \in Stages, kv'[i + 1] = <<>> PROVE Fresh(i + 1)'
    OBVIOUS
  <2>2. i # N
    BY <2>1 DEF Stages
  <2>3. kv[i + 1] = <<>> /\ Fresh(i + 1) /\ pc'[i + 1] = pc[i + 1]
    BY <1>1, <1>3, <2>1, <2>2
  <2>4. work[i] = FirstPass
    <3>1. kv[i] = <<>>
      BY <1>1, <1>3, <2>2, <2>3 DEF Fresh
    <3>. QED  BY <1>1, <3>1 DEF Fresh
  <2>5. ~UpstreamAwaits(i + 1)
    BY <1>1, <1>3, <2>2 DEF UpstreamAwaits
  <2>6. pc'[i] \in {"dial", "forward"}
    BY <1>1, <2>2
  <2>7. bwd'[i + 1] = bwd[i + 1] /\ fwd'[i + 1] = fwd[i + 1]
    BY <1>1
  <2>. QED  BY <1>1, <1>3, <2>2, <2>3, <2>4, <2>5, <2>6, <2>7 DEF Fresh
<1>. QED  BY <1>1, <1>2, <1>4, <1>5, FreshLocal DEF coord

LEMMA SmoothDial ==
  ASSUME Sound, NEW i \in Stages, Dial(i),
         \A j \in Stages : Connected(j) /\ (kv[j] = <<>> => Fresh(j))
  PROVE  \A j \in Stages : Connected(j)' /\ (kv'[j] = <<>> => Fresh(j)')
<1>1. i + 1 # 1 /\ i + 1 \in Stages \ {i} /\ (i + 1) - 1 = i
  BY DEF Dial, Goto, Sound, Stages
<1>2. /\ pc[i] = "dial" /\ pc'[i] = "forward" /\ conn'[i + 1] = "open"
      /\ \A j \in Stages \ {i} : pc'[j] = pc[j]
      /\ \A j \in Stages \ {i + 1} : conn'[j] = conn[j]
      /\ UNCHANGED <<coord, fwd, bwd, work, kv>>
  BY <1>1 DEF Dial, Goto, Sound
<1>3. ASSUME NEW j \in Stages PROVE Connected(j)'
  <2>1. CASE j = i
    BY <1>1, <1>2, <2>1 DEF Connected
  <2>2. CASE j # i
    <3>1. pc[j] \in {"forward", "awaiting"} => j + 1 \in Stages
      BY DEF Sound, Stages
    <3>. QED  BY <1>2, <2>2, <3>1 DEF Connected
  <2>. QED  BY <2>1, <2>2
<1>4. kv'[i] = <<>> => Fresh(i)'
  BY <1>2 DEF Fresh
<1>5. kv'[i + 1] = <<>> => Fresh(i + 1)'
  BY <1>1, <1>2 DEF Fresh, UpstreamAwaits
<1>. QED  BY <1>2, <1>3, <1>4, <1>5, FreshLocal DEF coord

LEMMA SmoothForward ==
  ASSUME Sound, NEW i \in Stages, Forward(i),
         \A j \in Stages : Connected(j) /\ (kv[j] = <<>> => Fresh(j))
  PROVE  \A j \in Stages : Connected(j)' /\ (kv'[j] = <<>> => Fresh(j)')
<1>1. i + 1 # 1 /\ i + 1 \in Stages \ {i} /\ (i + 1) - 1 = i
  BY DEF Forward, Goto, Sound, Stages
<1>2. /\ pc[i] = "forward" /\ pc'[i] = "awaiting"
      /\ fwd'[i + 1] = Append(fwd[i + 1], work[i])
      /\ \A j \in Stages \ {i} : pc'[j] = pc[j]
      /\ \A j \in Stages \ {i + 1} : fwd'[j] = fwd[j]
      /\ UNCHANGED <<coord, conn, bwd, work, kv>>
  BY <1>1 DEF Forward, Goto, Sound
<1>3. \A j \in Stages : Connected(j)'
  BY <1>2 DEF Connected
<1>4. kv'[i] = <<>> => Fresh(i)'
  BY <1>2 DEF Fresh
<1>5. kv'[i + 1] = <<>> => Fresh(i + 1)'
  <2>1. SUFFICES ASSUME kv[i + 1] = <<>> PROVE Fresh(i + 1)'
    BY <1>2
  <2>2. ~UpstreamAwaits(i + 1) /\ Fresh(i + 1)
    BY <1>1, <1>2, <2>1 DEF UpstreamAwaits
  <2>3. fwd[i + 1] = <<>> /\ pc[i + 1] # "layers" /\ work[i] = FirstPass
    BY <1>1, <1>2, <2>2 DEF Fresh
  <2>4. fwd'[i + 1] = <<FirstPass>>
    BY <1>2, <2>3, Singleton
  <2>5. UpstreamAwaits(i + 1)' /\ pc'[i + 1] = pc[i + 1]
    BY <1>1, <1>2 DEF UpstreamAwaits
  <2>. QED  BY <1>1, <1>2, <2>2, <2>3, <2>4, <2>5 DEF Fresh
<1>. QED  BY <1>2, <1>3, <1>4, <1>5, FreshLocal DEF coord

LEMMA SmoothAwait ==
  ASSUME Sound, NEW i \in Stages, Await(i),
         \A j \in Stages : Connected(j) /\ (kv[j] = <<>> => Fresh(j))
  PROVE  \A j \in Stages : Connected(j)' /\ (kv'[j] = <<>> => Fresh(j)')
<1>1. i + 1 # 1 /\ i + 1 \in Stages \ {i} /\ (i + 1) - 1 = i
  BY DEF Await, Goto, Sound, Stages
<1>2. /\ pc[i] = "awaiting" /\ pc'[i] = "reply" /\ bwd[i + 1] # <<>>
      /\ \A j \in Stages \ {i} : pc'[j] = pc[j]
      /\ \A j \in Stages \ {i + 1} : bwd'[j] = bwd[j]
      /\ UNCHANGED <<coord, conn, fwd, work, kv>>
  BY <1>1 DEF Await, Accepted, Goto, Sound
<1>3. \A j \in Stages : Connected(j)'
  BY <1>2 DEF Connected
<1>4. kv[i] # <<>> /\ kv[i + 1] # <<>>
  BY <1>1, <1>2 DEF Fresh
<1>. QED  BY <1>2, <1>3, <1>4, FreshLocal DEF coord

LEMMA SmoothReply ==
  ASSUME Sound, NEW i \in Stages, Reply(i),
         \A j \in Stages : Connected(j) /\ (kv[j] = <<>> => Fresh(j))
  PROVE  \A j \in Stages : Connected(j)' /\ (kv'[j] = <<>> => Fresh(j)')
<1>1. /\ pc[i] = "reply" /\ pc'[i] \in {"reply", "waiting"}
      /\ \A j \in Stages \ {i} : pc'[j] = pc[j] /\ bwd'[j] = bwd[j]
      /\ UNCHANGED <<coord, conn, fwd, work, kv>>
  BY DEF Reply, Opened, Goto, Sound
<1>2. \A j \in Stages : Connected(j)'
  BY <1>1 DEF Connected
<1>3. kv[i] # <<>>
  BY <1>1 DEF Fresh
<1>4. i + 1 \in Stages => kv[i + 1] # <<>>
  <2>1. i + 1 # 1 /\ (i + 1) - 1 = i
    BY DEF Stages
  <2>. QED  BY <1>1, <2>1 DEF Fresh
<1>. QED  BY <1>1, <1>2, <1>3, <1>4, FreshLocal DEF coord

(* Failures are counted; a request that is over stays over.                *)
LEMMA FaultsCounted ==
  ASSUME Sound, [Next]_vars
  PROVE  faults' \in {faults, faults + 1} /\ (cpc = "done" => cpc' = "done")
<1>1. CASE Coordinator
  BY <1>1 DEF Coordinator, Start, StartFails, SendPass, ReceiveToken, ReceiveVerified,
              Close, CoordinatorFails, Fault
<1>2. ASSUME NEW i \in Stages, Task(i) \/ ConnectionLost(i)
      PROVE  faults' \in {faults, faults + 1}
  BY <1>2 DEF Task, ConnectionLost, Accept, Refuse, Receive, Layers, LayersFail, Dial,
              DialFails, Forward, Await, NextLost, Reply, ReplyFails, Leave, Clear, Fault
<1>3. CASE \E i \in Stages : Task(i) \/ ConnectionLost(i)
  BY <1>2, <1>3, TaskKeepsCoord DEF coord
<1>4. CASE UNCHANGED vars
  BY <1>4 DEF vars, coord
<1>. QED  BY <1>1, <1>3, <1>4 DEF Next

LEMMA SmoothStep ==
  ASSUME N <= 2, Len(Prompt) > 1, Sound, SmoothInv, [Next]_vars
  PROVE  SmoothInv'
<1>. SUFFICES ASSUME faults' = 0, cpc' # "done"
              PROVE  /\ cpc' # "failed"
                     /\ \A i \in Stages : Connected(i)' /\ (kv'[i] = <<>> => Fresh(i)')
  BY DEF SmoothInv
<1>1. faults = 0 /\ cpc # "done"
  BY FaultsCounted DEF Sound
<1>2. /\ cpc # "failed"
      /\ \A i \in Stages : Connected(i) /\ (kv[i] = <<>> => Fresh(i))
  BY <1>1 DEF SmoothInv
<1>3. CASE UNCHANGED vars
  BY <1>2, <1>3 DEF vars, coord, links, tasks, Connected, Fresh, UpstreamAwaits
<1>4. CASE Coordinator
  <2>1. ~StartFails /\ ~Close
    BY DEF StartFails, Fault, Sound, Close
  <2>2. ~CoordinatorFails
    <3>1. 1 \in Stages
      BY ChainAssumption DEF Stages
    <3>2. cpc \in {"send", "recv"} => conn[1] # "closed"
      BY <1>2, <3>1 DEF Connected
    <3>. QED  BY <3>2 DEF CoordinatorFails
  <2>3. CASE Start
    BY <1>2, <2>3, SmoothStart DEF Start
  <2>4. CASE SendPass
    BY <1>2, <2>4, SmoothSend DEF SendPass
  <2>5. CASE ReceiveToken \/ ReceiveVerified
    BY <1>2, <2>5, SmoothReceived
  <2>. QED  BY <1>4, <2>1, <2>2, <2>3, <2>4, <2>5 DEF Coordinator
<1>5. ASSUME NEW i \in Stages, Task(i) \/ ConnectionLost(i)
      PROVE  \A j \in Stages : Connected(j)' /\ (kv'[j] = <<>> => Fresh(j)')
  <2>1. /\ ~Refuse(i) /\ ~LayersFail(i) /\ ~DialFails(i) /\ ~NextLost(i)
        /\ ~ReplyFails(i) /\ ~Leave(i) /\ ~Clear(i) /\ ~ConnectionLost(i)
    BY <1>1, <1>2, NothingGivesUp
  <2>2. Accept(i) \/ Receive(i) \/ Layers(i) \/ Dial(i) \/ Forward(i) \/ Await(i) \/ Reply(i)
    BY <1>5, <2>1 DEF Task
  <2>. QED  BY <1>2, <2>2, SmoothAccept, SmoothReceive, SmoothLayers, SmoothDial,
               SmoothForward, SmoothAwait, SmoothReply
<1>6. CASE \E i \in Stages : Task(i) \/ ConnectionLost(i)
  BY <1>2, <1>5, <1>6, TaskKeepsCoord DEF coord
<1>. QED  BY <1>3, <1>4, <1>6 DEF Next

(* A request fails only if a server, a connection or the start of the      *)
(* session failed: the protocol by itself gives none up (conductor.rs:88-  *)
(* 166, 277-430).                                                          *)
FailureHasCause == cpc = "failed" => faults > 0

(* With two stages and a prompt of several tokens, speculative or not, a   *)
(* request fails only if a server, a connection or the start of the        *)
(* session failed: the protocol by itself never gives a request up, which  *)
(* is what Completes says of its end (conductor.rs:277-430, 88-166).  Both *)
(* hypotheses are needed: a third stage is never reached (HasNext), and a  *)
(* prompt of one token is taken for a decode (IsPrefill).                  *)
THEOREM FailureTheorem ==
  ASSUME PredictTyped, N <= 2, Len(Prompt) > 1
  PROVE  Spec => []FailureHasCause
<1>1. Init => SmoothInv
  BY SmoothInit
<1>2. Sound /\ SmoothInv /\ [Next]_vars => SmoothInv'
  BY SmoothStep
<1>3. Sound /\ SmoothInv => FailureHasCause
  BY DEF Sound, SmoothInv, FailureHasCause
<1>. QED  BY <1>1, <1>2, <1>3, SoundInvariant, PTL DEF Spec

-----------------------------------------------------------------------------
(* Caches after a success                                                  *)

(* A stage that is not serving the request holds no cache of it.           *)
Cleared == \A i \in Stages : pc[i] \in {"absent", "left"} => kv[i] = <<>>

(* A request that succeeded leaves a KV-cache only where a stage has still *)
(* to see the end of its connection, is clearing it, or could not          *)
(* (conductor.rs:258-260, 409).                                            *)
CachesOnTheirWay ==
  cpc = "done" => \A i \in Stages :
    kv[i] = <<>> \/ pc[i] \in {"waiting", "clearing", "unclean"}

LEMMA ClearedStep == ASSUME Sound, Cleared, [Next]_vars PROVE Cleared'
<1>1. CASE UNCHANGED <<pc, kv>>
  BY <1>1 DEF Cleared
<1>2. ASSUME NEW i \in Stages, Task(i) PROVE Cleared'
  <2>. SUFFICES ASSUME NEW j \in Stages, pc'[j] \in {"absent", "left"}
                PROVE  kv'[j] = <<>>
    BY DEF Cleared
  <2>1. CASE pc'[i] \notin {"absent", "left"} /\ (\A l \in Stages \ {i} : pc'[l] = pc[l] /\ kv'[l] = kv[l])
    BY <2>1 DEF Cleared
  <2>2. CASE UNCHANGED <<pc, kv>>
    BY <2>2 DEF Cleared
  <2>3. CASE Clear(i)
    BY <2>3 DEF Clear, Goto, Cleared, Sound
  <2>4. CASE Refuse(i)
    BY <2>2, <2>4 DEF Refuse, tasks
  <2>5. CASE LayersFail(i) \/ DialFails(i) \/ NextLost(i) \/ ReplyFails(i)
    BY <2>1, <2>5 DEF LayersFail, DialFails, NextLost, ReplyFails, Fails, Goto, Sound
  <2>6. CASE Accept(i) \/ Receive(i) \/ Dial(i) \/ Forward(i) \/ Await(i) \/ Reply(i) \/ Leave(i)
    BY <2>1, <2>6 DEF Accept, Receive, Dial, Forward, Await, Reply, Leave, Goto, Sound
  <2>7. CASE Layers(i)
    BY <2>1, <2>7 DEF Layers, Goto, Sound
  <2>. QED  BY <1>2, <2>3, <2>4, <2>5, <2>6, <2>7 DEF Task
<1>3. CASE Coordinator
  BY <1>1, <1>3 DEF Coordinator, Start, StartFails, SendPass, ReceiveToken, ReceiveVerified,
                    Close, CoordinatorFails, links, tasks
<1>. QED  BY <1>1, <1>2, <1>3 DEF Next, ConnectionLost, vars, tasks

(* After a success every cache that is left is on its way out: its stage   *)
(* is about to clear it, or could not (conductor.rs:258-260, 409).         *)
THEOREM CachesTheorem ==
  ASSUME PredictTyped, K = 0 PROVE Spec => []CachesOnTheirWay
<1>1. Init => Cleared
  BY DEF Init, Cleared
<1>2. ASSUME Sound, ChainInv, Cleared PROVE CachesOnTheirWay
  <2>. SUFFICES ASSUME cpc = "done", NEW i \in Stages
                PROVE  kv[i] = <<>> \/ pc[i] \in {"waiting", "clearing", "unclean"}
    BY DEF CachesOnTheirWay
  <2>1. Quiet(i)
    BY <1>2, QuietChain DEF ChainInv, Links, Pending
  <2>. QED  BY <1>2, <2>1 DEF Sound, PC, Cleared, Quiet, Halted, Busy
<1>3. Sound /\ Cleared /\ [Next]_vars => Cleared'
  BY ClearedStep
<1>4. Sound /\ ChainInv /\ Cleared => CachesOnTheirWay
  BY <1>2
<1>. QED  BY <1>1, <1>3, <1>4, ChainInvariant, PTL DEF Spec
=============================================================================
