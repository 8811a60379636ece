------------------------------- MODULE ServeProofs -------------------------------
(***************************************************************************)
(* Theorems about ChatProxy, LlamaManager and InferencePlan, for any       *)
(* machines and configurations, any number of nodes, stages, experts,      *)
(* layers and tokens.                                                      *)
(***************************************************************************)
EXTENDS ChatProxy, SequenceTheorems, LeastNumber

USE LlamaAssumption, PlanAssumption, ProxyAssumption

-----------------------------------------------------------------------------
(* llama-servers                                                           *)

LlamaInv ==
  /\ OrphanOnlyAfterKill
  /\ servers \subseteq Server
  /\ daemon \in {"down", "wait", "connect", "serving"}
  /\ daemon = "down" => held = NoServer

LEMMA LlamaInitInv == LlamaInit => LlamaInv
BY DEF LlamaInit, LlamaInv, OrphanOnlyAfterKill

LEMMA LlamaStepInv == ASSUME LlamaInv, [LlamaNext]_llamaVars PROVE LlamaInv'
<1>1. CASE StartAdopts \/ SpawnFails \/ WaitEnds \/ Connected
  BY <1>1 DEF StartAdopts, SpawnFails, WaitEnds, Connected, LlamaInv, OrphanOnlyAfterKill
<1>2. ASSUME NEW p \in Server, StartSpawns(p) PROVE LlamaInv'
  BY <1>2 DEF StartSpawns, LlamaInv, OrphanOnlyAfterKill
<1>3. CASE ConnectFails \/ Shutdown
  BY <1>3 DEF ConnectFails, Shutdown, Unwind, Gone, LlamaInv, OrphanOnlyAfterKill
<1>4. CASE Kill
  BY <1>4 DEF Kill, LlamaInv, OrphanOnlyAfterKill
<1>5. ASSUME NEW p \in Server, Bind(p) \/ Exits(p) PROVE LlamaInv'
  BY <1>5 DEF Bind, Exits, Gone, LlamaInv, OrphanOnlyAfterKill
<1>6. CASE Loads \/ UNCHANGED llamaVars
  BY <1>6 DEF Loads, llamaVars, LlamaInv, OrphanOnlyAfterKill
<1>. QED  BY <1>1, <1>2, <1>3, <1>4, <1>5, <1>6 DEF LlamaNext, DaemonStep

(* A server without a daemon was left behind by a kill: every other end of *)
(* main takes its child along.                                             *)
THEOREM OrphansNeedAKill == LlamaSpec => []OrphanOnlyAfterKill
<1>1. LlamaInv => OrphanOnlyAfterKill
  BY DEF LlamaInv
<1>. QED  BY <1>1, LlamaInitInv, LlamaStepInv, PTL DEF LlamaSpec

(* The recursion of Reduced is well defined, as the layers shrink.         *)
Reduces(s, g, n) ==
  g = [k \in 0 .. n |-> IF k = 0 \/ Fits(s, k) THEN k ELSE g[(3 * k) \div 4]]

LEMMA ReductionShrinks ==
  ASSUME NEW k \in Nat \ {0} PROVE (3 * k) \div 4 \in 0 .. k - 1
OBVIOUS

LEMMA ReductionExists ==
  ASSUME NEW s, NEW n \in Nat
  PROVE  \E g : Reduces(s, g, n)
<1>. DEFINE S == {m \in Nat : \E g : Reduces(s, g, m)}
<1>1. 0 \in S
  <2>1. Reduces(s, [k \in 0 .. 0 |-> k], 0)
    BY DEF Reduces
  <2>. QED  BY <2>1
<1>2. ASSUME NEW m \in Nat, m \in S PROVE m + 1 \in S
  <2>1. PICK g : Reduces(s, g, m)
    BY <1>2
  <2>. DEFINE e == [k \in 0 .. m + 1 |->
                      IF k = 0 \/ Fits(s, k) THEN k ELSE g[(3 * k) \div 4]]
  <2>2. \A k \in 0 .. m : e[k] = g[k]
    BY <2>1 DEF Reduces
  <2>3. \A k \in 0 .. m + 1 : k # 0 => (3 * k) \div 4 \in 0 .. m
    BY ReductionShrinks
  <2>4. e = [k \in 0 .. m + 1 |->
               IF k = 0 \/ Fits(s, k) THEN k ELSE e[(3 * k) \div 4]]
    BY <2>2, <2>3
  <2>5. Reduces(s, e, m + 1)
    <3>. HIDE DEF e
    <3>. QED  BY <2>4 DEF Reduces
  <2>. QED  BY <2>5
<1>. HIDE DEF S
<1>3. n \in S
  <2>1. \A m \in Nat : m < n /\ m \in S => m + 1 \in S
    BY <1>2
  <2>. QED  BY ONLY n \in Nat, <1>1, <2>1, Induction
<1>. QED  BY <1>3 DEF S

(* What the loop ends with is nothing, or fits.                            *)
LEMMA ReductionFits ==
  ASSUME NEW s, NEW n \in Nat, NEW g, Reduces(s, g, n), NEW k \in 0 .. n
  PROVE  g[k] = 0 \/ Fits(s, g[k])
<1>. SUFFICES ASSUME ~(g[k] = 0 \/ Fits(s, g[k])) PROVE FALSE
  OBVIOUS
<1>. DEFINE S == {m \in 0 .. n : ~(g[m] = 0 \/ Fits(s, g[m]))}
<1>1. PICK m \in S : \A j \in S : m <= j
  <2>1. S \in SUBSET Nat /\ k \in S
    OBVIOUS
  <2>. HIDE DEF S
  <2>. QED  BY <2>1, LeastNatural
<1>2. g[m] = IF m = 0 \/ Fits(s, m) THEN m ELSE g[(3 * m) \div 4]
  BY DEF Reduces
<1>3. m # 0 /\ ~Fits(s, m) /\ g[m] = g[(3 * m) \div 4]
  BY <1>2
<1>4. (3 * m) \div 4 \in 0 .. m - 1
  BY <1>3, ReductionShrinks
<1>5. (3 * m) \div 4 \in S
  BY <1>3, <1>4
<1>6. m <= (3 * m) \div 4
  <2>. HIDE DEF S
  <2>. QED  BY <1>1, <1>5
<1>. QED  BY <1>4, <1>6

LEMMA ReducedFits ==
  ASSUME NEW s \in Setups PROVE Reduced(s) > 0 => Fits(s, Reduced(s))
<1>. DEFINE n == DetectGpuLayers(s)
            m == IF n > 0 THEN n ELSE 0
            loop[k \in 0 .. m] == IF k = 0 \/ Fits(s, k) THEN k ELSE loop[(3 * k) \div 4]
<1>1. n \in Nat \cup {-1}
  BY DEF DetectGpuLayers
<1>. HIDE DEF n
<1>2. m \in Nat
  BY <1>1
<1>. HIDE DEF m
<1>3. \E g : g = [k \in 0 .. m |-> IF k = 0 \/ Fits(s, k) THEN k ELSE g[(3 * k) \div 4]]
  <2>1. \E g : Reduces(s, g, m)
    BY <1>2, ReductionExists
  <2>. QED  BY <2>1 DEF Reduces
<1>4. loop = [k \in 0 .. m |-> IF k = 0 \/ Fits(s, k) THEN k ELSE loop[(3 * k) \div 4]]
  BY <1>3
<1>5. Reduced(s) = IF n < 0 THEN n ELSE loop[n]
  BY DEF Reduced, n, m
<1>. HIDE DEF loop
<1>6. CASE n < 0
  BY <1>1, <1>5, <1>6
<1>7. CASE n >= 0
  <2>1. n \in 0 .. m
    BY <1>1, <1>7 DEF m
  <2>2. loop[n] = 0 \/ Fits(s, loop[n])
    <3>1. Reduces(s, loop, m)
      BY <1>4 DEF Reduces
    <3>. QED  BY <1>2, <2>1, <3>1, ReductionFits
  <2>3. Reduced(s) = loop[n]
    BY <1>1, <1>5, <1>7
  <2>. QED  BY <2>2, <2>3
<1>. QED  BY <1>1, <1>6, <1>7

OffloadInv == setup \in Setups /\ offload \in {0, Reduced(setup)}

(* The GPU is never given more layers than the estimate allows, after the  *)
(* repeated reduction by a quarter, for any machine and configuration and  *)
(* after any restarts (llama.rs:298-325).                                    *)
THEOREM OffloadAlwaysFits == LlamaSpec => []OffloadFits
<1>1. LlamaInit => OffloadInv
  BY DEF LlamaInit, OffloadInv
<1>2. OffloadInv /\ [LlamaNext]_llamaVars => OffloadInv'
  BY DEF OffloadInv, LlamaNext, llamaVars, DaemonStep, StartAdopts, SpawnFails,
     WaitEnds, StartSpawns, Connected, ConnectFails, Shutdown, Unwind, Kill, Loads,
     Bind, Exits
<1>3. OffloadInv => OffloadFits
  BY ReducedFits DEF OffloadInv, OffloadFits
<1>. QED  BY <1>1, <1>2, <1>3, PTL DEF LlamaSpec

-----------------------------------------------------------------------------
(* Plans                                                                   *)

(* Equal shares never exceed the whole.                                    *)
LEMMA Shares ==
  ASSUME NEW total \in Nat, NEW n \in Nat \ {0}, n <= total
  PROVE  /\ total \div n \in Nat \ {0}
         /\ n * (total \div n) <= total
OBVIOUS

LEMMA OneMoreShare ==
  ASSUME NEW i \in Nat \ {0}, NEW q \in Nat
  PROVE  /\ i * q = (i - 1) * q + q
         /\ (i - 1) * q \in Nat /\ i * q \in Nat
OBVIOUS

LEMMA SplitPartitions ==
  ASSUME NEW nodes \in Nat \ {0}, NEW total \in Nat, total >= MaxStages
  PROVE  PartitionsLayers(PipelineSplit(nodes, total).stages, total)
<1>. DEFINE n == IF nodes < MaxStages THEN nodes ELSE MaxStages
            q == total \div n
            Stage(i) == [first |-> (i - 1) * q, last |-> StageEnd(i, n, total),
                         isLast |-> i = n]
            stages == [i \in 1 .. n |-> Stage(i)]
<1>1. n \in Nat \ {0} /\ n <= total
  OBVIOUS
<1>2. q \in Nat \ {0} /\ n * q <= total
  BY <1>1, Shares
<1>3. PipelineSplit(nodes, total).stages = stages
  BY DEF PipelineSplit
<1>4. Len(stages) = n /\ DOMAIN stages = 1 .. n
  BY <1>1
<1>5. ASSUME NEW i \in 1 .. n
      PROVE  /\ stages[i].first = (i - 1) * q /\ stages[i].isLast = (i = n)
             /\ stages[i].last = IF i = n THEN total - 1 ELSE i * q - 1
             /\ i * q = (i - 1) * q + q /\ (i - 1) * q \in Nat /\ i * q \in Nat
  <2>1. stages[i] = Stage(i)
    BY <1>5
  <2>2. i \in Nat \ {0}
    BY <1>1
  <2>. HIDE DEF n, stages
  <2>3. /\ stages[i].first = (i - 1) * q /\ stages[i].isLast = (i = n)
        /\ stages[i].last = IF i = n THEN total - 1 ELSE i * q - 1
    BY <2>1 DEF StageEnd
  <2>. HIDE DEF q
  <2>. QED  BY <1>2, <2>2, <2>3, OneMoreShare
<1>. HIDE DEF q, n, stages
<1>6. ASSUME NEW i \in 1 .. n
      PROVE  /\ stages[i].first <= stages[i].last
             /\ stages[i].isLast <=> i = n
             /\ i < n => stages[i + 1].first = stages[i].last + 1
  <2>1. stages[i].isLast <=> i = n
    BY <1>5, Zenon
  <2>2. stages[i].first <= stages[i].last
    BY <1>1, <1>2, <1>5
  <2>3. ASSUME i < n PROVE stages[i + 1].first = stages[i].last + 1
    <3>1. i + 1 \in 1 .. n /\ (i + 1) - 1 = i
      BY <1>1, <2>3
    <3>2. stages[i + 1].first = i * q
      BY <1>5, <3>1
    <3>. QED  BY <1>1, <1>5, <2>3, <3>2
  <2>. QED  BY <2>1, <2>2, <2>3
<1>7. stages[1].first = 0 /\ stages[n].last = total - 1
  BY <1>1, <1>2, <1>5
<1>. QED  BY <1>3, <1>4, <1>6, <1>7 DEF PartitionsLayers

LEMMA ShardPartitions ==
  ASSUME NEW nodes \in Nat \ {0}
  PROVE  PartitionsExperts(ExpertShard(nodes).shards)
<1>. DEFINE shards == [i \in 1 .. nodes |-> {e \in 0 .. Experts - 1 : e % nodes = i - 1}]
<1>1. ExpertShard(nodes).shards = shards /\ DOMAIN shards = 1 .. nodes
  BY DEF ExpertShard
<1>2. ASSUME NEW e \in 0 .. Experts - 1
      PROVE  /\ (e % nodes) + 1 \in 1 .. nodes /\ e \in shards[(e % nodes) + 1]
             /\ \A j \in 1 .. nodes : e \in shards[j] => j = (e % nodes) + 1
  <2>1. e % nodes \in 0 .. nodes - 1
    BY <1>2
  <2>. QED  BY <2>1
<1>. HIDE DEF shards
<1>. QED  BY <1>1, <1>2 DEF PartitionsExperts

LEMMA ComputedPlanCovers ==
  ASSUME NEW nodes \in Nat, NEW total \in Totals, NEW moe \in BOOLEAN,
         NEW solo \in BOOLEAN, NEW plan, plan = ComputePlan(nodes, total, moe, solo)
  PROVE  /\ IsSplit(plan) => PartitionsLayers(plan.stages, total)
         /\ plan # NoPlan /\ plan.mode = "expert" => PartitionsExperts(plan.shards)
<1>1. CASE nodes = 0
  BY <1>1 DEF ComputePlan, IsSplit
<1>2. CASE nodes # 0 /\ (nodes = 1 \/ solo)
  <2>1. plan = Solo
    BY <1>2 DEF ComputePlan
  <2>. QED  BY <2>1 DEF Solo, IsSplit
<1>3. CASE nodes > 1 /\ ~solo /\ moe
  <2>1. plan = ExpertShard(nodes)
    BY <1>3 DEF ComputePlan
  <2>2. plan.mode = "expert"
    BY <2>1 DEF ExpertShard
  <2>3. PartitionsExperts(plan.shards)
    <3>1. nodes \in Nat \ {0}
      BY <1>3
    <3>. QED  BY <2>1, <3>1, ShardPartitions
  <2>. QED  BY <2>2, <2>3 DEF IsSplit
<1>4. CASE nodes > 1 /\ ~solo /\ ~moe
  <2>1. plan = PipelineSplit(nodes, total)
    BY <1>4 DEF ComputePlan
  <2>2. plan.mode = "split"
    BY <2>1 DEF PipelineSplit
  <2>3. PartitionsLayers(plan.stages, total)
    BY <1>4, <2>1, SplitPartitions
  <2>. QED  BY <2>2, <2>3
<1>. QED  BY <1>1, <1>2, <1>3, <1>4

LEMMA PlanInit == ServeInit => PlanCoversModel
BY DEF ServeInit, NotAsked, PlanCoversModel, IsSplit

LEMMA PlanStep == ASSUME PlanCoversModel, [ServeNext]_serveVars PROVE PlanCoversModel'
<1>1. CASE zome' = zome
  BY <1>1 DEF PlanCoversModel, IsSplit
<1>2. CASE zome' = NotAsked
  BY <1>2 DEF PlanCoversModel, IsSplit, NotAsked
<1>3. ASSUME NEW nodes \in 0 .. MaxNodes, NEW total \in Totals, NEW moe \in BOOLEAN,
             NEW solo \in BOOLEAN,
             zome' = [plan |-> ComputePlan(nodes, total, moe, solo), total |-> total]
      PROVE  PlanCoversModel'
  <2>1. zome'.plan = ComputePlan(nodes, total, moe, solo) /\ zome'.total = total
    BY <1>3
  <2>. QED  BY <2>1, ComputedPlanCovers DEF PlanCoversModel, IsSplit
<1>. QED
  BY <1>1, <1>2, <1>3
     DEF ServeNext, serveVars, proxyVars, requestVars, Request, PlanArrives, MeshInfers,
         TimesOut, PlanFails, MeshFails, AfterMesh, LlamaFails, LlamaAnswers, Connects,
         ConnectRefused, Chunk, UpstreamEnds, Close, ClientLeaves, Reconfigure, Reply

(* Every plan the zome computes covers the model: each layer, or each      *)
(* expert, exactly once.                                                   *)
THEOREM PlansCoverModel == ServeSpec => []PlanCoversModel
<1>. QED  BY PlanInit, PlanStep, PTL DEF ServeSpec, ServeSafety

-----------------------------------------------------------------------------
(* Streams                                                                 *)

Increasing(s) == \A i, j \in 1 .. Len(s) : i < j => s[i] < s[j]
Within(s, n) == \A i \in 1 .. Len(s) : s[i] \in 1 .. n

LEMMA UptoProperties ==
  ASSUME NEW first \in Nat, NEW last \in Nat, first <= last + 1
  PROVE  /\ Upto(first, last) \in Seq(Nat)
         /\ Len(Upto(first, last)) = last - first + 1
         /\ \A i \in 1 .. last - first + 1 : Upto(first, last)[i] = first + i - 1
<1>1. last - first + 1 \in Nat
  OBVIOUS
<1>. QED  BY <1>1 DEF Upto

(* Appending first .. last to a sequence of smaller numbers.               *)
LEMMA AppendUpto ==
  ASSUME NEW s \in Seq(Nat), NEW low \in Nat, Increasing(s), Within(s, low),
         NEW first \in Nat, NEW last \in Nat, low < first, first <= last + 1
  PROVE  /\ s \o Upto(first, last) \in Seq(Nat)
         /\ Len(s \o Upto(first, last)) = Len(s) + (last - first + 1)
         /\ Increasing(s \o Upto(first, last))
         /\ \A n \in Nat : low <= n /\ last <= n => Within(s \o Upto(first, last), n)
<1>. DEFINE u == Upto(first, last)
            r == s \o u
<1>1. /\ u \in Seq(Nat) /\ Len(u) = last - first + 1
      /\ \A i \in 1 .. Len(u) : u[i] = first + i - 1
  <2>1. /\ u \in Seq(Nat) /\ Len(u) = last - first + 1
        /\ \A i \in 1 .. last - first + 1 : u[i] = first + i - 1
    BY ONLY first \in Nat, last \in Nat, first <= last + 1, UptoProperties
  <2>. HIDE DEF u
  <2>. QED  BY ONLY <2>1
<1>. HIDE DEF u
<1>2. /\ r \in Seq(Nat) /\ Len(r) = Len(s) + Len(u)
      /\ \A i \in 1 .. Len(s) + Len(u) :
           r[i] = IF i <= Len(s) THEN s[i] ELSE u[i - Len(s)]
  BY <1>1, ConcatProperties
<1>. HIDE DEF r
<1>3. Len(s) \in Nat /\ Len(u) \in Nat
  BY <1>1
<1>4. ASSUME NEW i \in 1 .. Len(r), i <= Len(s)
      PROVE  i \in 1 .. Len(s) /\ r[i] = s[i] /\ s[i] \in 1 .. low
  <2>1. i \in 1 .. Len(s)
    BY <1>3, <1>4
  <2>. QED  BY <1>2, <1>4, <2>1 DEF Within
<1>5. ASSUME NEW i \in 1 .. Len(r), i > Len(s)
      PROVE  r[i] = first + (i - Len(s)) - 1 /\ r[i] \in first .. last
  <2>1. i - Len(s) \in 1 .. Len(u) /\ ~(i <= Len(s))
    BY <1>2, <1>3, <1>5
  <2>2. r[i] = u[i - Len(s)]
    BY <1>2, <1>5, <2>1
  <2>. QED  BY <1>1, <2>1, <2>2
<1>6. Increasing(r)
  <2>1. ASSUME NEW i \in 1 .. Len(r), NEW j \in 1 .. Len(r), i < j
        PROVE  r[i] < r[j]
    <3>1. CASE j <= Len(s)
      <4>1. i <= Len(s)
        BY <1>2, <1>3, <2>1, <3>1
      <4>2. i \in 1 .. Len(s) /\ j \in 1 .. Len(s) /\ r[i] = s[i] /\ r[j] = s[j]
        BY <1>4, <3>1, <4>1
      <4>. QED  BY <2>1, <4>2 DEF Increasing
    <3>2. CASE i <= Len(s) /\ j > Len(s)
      BY <1>4, <1>5, <3>2
    <3>3. CASE i > Len(s)
      <4>1. j > Len(s)
        BY <1>2, <1>3, <2>1, <3>3
      <4>2. r[i] = first + (i - Len(s)) - 1 /\ r[j] = first + (j - Len(s)) - 1
        BY <1>5, <3>3, <4>1
      <4>. QED  BY <1>3, <2>1, <4>2
    <3>. QED  BY <1>3, <3>1, <3>2, <3>3
  <2>. QED  BY <2>1 DEF Increasing
<1>7. ASSUME NEW n \in Nat, low <= n, last <= n, NEW i \in 1 .. Len(r)
      PROVE  r[i] \in 1 .. n
  <2>1. CASE i <= Len(s)
    BY <1>4, <1>7, <2>1
  <2>2. CASE i > Len(s)
    BY <1>5, <1>7, <2>2
  <2>. QED  BY <1>3, <2>1, <2>2
<1>8. \A n \in Nat : low <= n /\ last <= n => Within(r, n)
  BY <1>7 DEF Within
<1>9. Len(r) = Len(s) + (last - first + 1)
  BY <1>1, <1>2
<1>. QED  BY <1>2, <1>6, <1>8, <1>9 DEF r, u

StreamInv ==
  /\ sent \in Nat /\ begun \in Cuts /\ chunks \in Nat
  /\ relayed \in Seq(Nat) /\ Increasing(relayed) /\ Within(relayed, Arrived)
  /\ chunks = 0 => Arrived = 0 /\ begun = "nothing"
  /\ Arrived = 0 \/ Len(relayed) + chunks > Arrived

LEMMA EmptyStream ==
  ASSUME NEW s, s = <<>>
  PROVE  s \in Seq(Nat) /\ Increasing(s) /\ \A n : Within(s, n)
<1>1. Len(s) = 0 /\ s \in Seq(Nat)
  BY EmptySeq
<1>. QED  BY <1>1 DEF Increasing, Within

LEMMA ChunkInv ==
  ASSUME StreamInv, NEW k \in Nat, NEW end \in Cuts, Chunk(k, end)
  PROVE  StreamInv'
<1>. DEFINE first == sent + (IF begun = "nothing" THEN 1 ELSE 2)
            last == sent + k + (IF end = "newline" THEN 1 ELSE 0)
<1>1. /\ sent' = sent + k /\ begun' = end /\ chunks' = chunks + 1
      /\ relayed' = relayed \o Upto(first, last)
      /\ k = 0 => begun # "newline" /\ end # "nothing"
  BY DEF Chunk, ParsedLines
<1>2. /\ sent \in Nat /\ begun \in Cuts /\ chunks \in Nat /\ Len(relayed) \in Nat
      /\ relayed \in Seq(Nat) /\ Increasing(relayed) /\ Within(relayed, Arrived)
      /\ chunks = 0 => begun = "nothing"
      /\ Arrived = 0 \/ Len(relayed) + chunks > Arrived
  BY LenProperties DEF StreamInv
<1>3. /\ first \in Nat /\ last \in Nat /\ Arrived \in Nat /\ Arrived < first
      /\ Arrived <= last /\ Arrived' = last
  BY <1>1, <1>2 DEF Arrived, Cuts
<1>4. sent' \in Nat /\ begun' \in Cuts /\ chunks' \in Nat /\ chunks' # 0
  BY <1>1, <1>2
<1>5. first <= Arrived + 2 /\ (chunks = 0 => first = Arrived + 1)
  BY <1>2 DEF Arrived
<1>. HIDE DEF first, last
<1>6. CASE first <= last + 1
  <2>1. /\ relayed' \in Seq(Nat) /\ Increasing(relayed') /\ Within(relayed', last)
        /\ Len(relayed') = Len(relayed) + (last - first + 1)
    BY <1>1, <1>2, <1>3, <1>6, AppendUpto
  <2>2. Arrived' = 0 \/ Len(relayed') + chunks' > Arrived'
    BY <1>1, <1>2, <1>3, <1>5, <1>6, <2>1
  <2>. QED  BY <1>3, <1>4, <2>1, <2>2, Zenon DEF StreamInv, Increasing, Within
<1>7. CASE ~(first <= last + 1)
  <2>1. last = Arrived
    BY <1>3, <1>5, <1>7
  <2>2. Upto(first, last) = <<>>
    <3>1. 1 .. last - first + 1 = {}
      BY <1>3, <1>7
    <3>. QED  BY <3>1 DEF Upto
  <2>3. relayed' = relayed
    BY <1>1, <1>2, <2>2, ConcatEmptySeq
  <2>4. Arrived' = 0 \/ Len(relayed') + chunks' > Arrived'
    BY <1>1, <1>2, <1>3, <2>1, <2>3
  <2>5. Within(relayed', Arrived')
    BY <1>2, <1>3, <2>1, <2>3
  <2>. QED  BY <1>2, <1>4, <2>3, <2>4, <2>5, Zenon DEF StreamInv, Increasing, Within
<1>. QED  BY <1>6, <1>7

LEMMA StreamStep == ASSUME StreamInv, [ServeNext]_serveVars PROVE StreamInv'
<1>1. CASE UNCHANGED streamVars
  BY <1>1 DEF streamVars, StreamInv, Increasing, Within, Arrived
<1>2. CASE relayed' = <<>> /\ sent' = 0 /\ begun' = "nothing" /\ chunks' = 0
  <2>1. relayed' \in Seq(Nat) /\ Increasing(relayed') /\ Within(relayed', Arrived')
    BY <1>2, EmptyStream
  <2>2. Arrived' = 0
    BY <1>2 DEF Arrived
  <2>. QED  BY <1>2, <2>1, <2>2 DEF StreamInv, Increasing, Within, Cuts
<1>3. ASSUME NEW k \in 0 .. MaxTokens, NEW end \in Cuts, Chunk(k, end)
      PROVE  StreamInv'
  BY <1>3, ChunkInv
<1>. QED
  BY <1>1, <1>2, <1>3
     DEF ServeNext, serveVars, proxyVars, requestVars, streamVars, Request, PlanArrives,
         MeshInfers, TimesOut, PlanFails, MeshFails, AfterMesh, LlamaFails, LlamaAnswers,
         Connects, ConnectRefused, UpstreamEnds, Close, ClientLeaves, Reconfigure, Reply

(* The client gets tokens of the stream in order, none twice, and of n     *)
(* chunks at most n - 1 tokens are lost, wherever the network cuts the     *)
(* stream and however long it is.                                          *)
THEOREM StreamIsRelayed == ServeSpec => []StreamRelayed
<1>1. ASSUME ServeInit PROVE StreamInv
  <2>1. relayed = <<>> /\ sent = 0 /\ begun = "nothing" /\ chunks = 0
    BY <1>1 DEF ServeInit
  <2>. QED  BY <2>1, EmptyStream DEF StreamInv, Arrived, Cuts
<1>2. ASSUME StreamInv PROVE StreamRelayed
  <2>1. DOMAIN relayed = 1 .. Len(relayed)
    BY <1>2, LenProperties DEF StreamInv
  <2>. QED  BY <1>2, <2>1 DEF StreamInv, StreamRelayed, Increasing, Within
<1>. QED  BY <1>1, <1>2, StreamStep, PTL DEF ServeSpec, ServeSafety
=============================================================================
