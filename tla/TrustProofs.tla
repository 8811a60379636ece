------------------------------- MODULE TrustProofs -------------------------------
(***************************************************************************)
(* Theorems about TrustZome, HybridNode and Blackboard, for any agents,    *)
(* networks, signers, properties of the DNA, configurations, posts and     *)
(* patterns, however many proofs are signed.                               *)
(***************************************************************************)
EXTENDS TrustZome, HybridNode, Blackboard, SequenceTheorems, LeastNumber

USE NetworkAssumption, TrustAssumption, NodeAssumption, BlackboardAssumption

-----------------------------------------------------------------------------
(* Admission                                                               *)

AdmissionInv ==
  /\ NetTypeOK
  /\ \A a \in joined \cap Packaged : Admitted(a)

LEMMA AdmissionInit == NetInit => AdmissionInv
BY DEF NetInit, AdmissionInv, NetTypeOK

(* Who passes genesis_self_check was signed for: a forged signature is not *)
(* the administrator's.                                                    *)
LEMMA SelfCheckAdmits ==
  ASSUME NetTypeOK, NEW a \in Agent, NEW proof \in Presentable, SelfCheck(a, proof)
  PROVE  Admitted(a)
<1>1. CASE dna.private
  <2>1. /\ dna.admin # None /\ dna.admin \in Signer
        /\ proof # None /\ proof.to = a /\ proof.network = dna.network
        /\ proof.signer = dna.admin
    BY <1>1 DEF SelfCheck, NetTypeOK
  <2>2. proof \notin [network : Network, to : Agent, signer : {Forged}]
    BY <2>1
  <2>3. proof \in proofs
    BY <2>1, <2>2 DEF Presentable
  <2>4. proof = [network |-> dna.network, to |-> a, signer |-> dna.admin]
    BY <2>1, <2>3 DEF NetTypeOK
  <2>. QED  BY <2>3, <2>4 DEF Admitted
<1>2. CASE ~dna.private
  BY <1>2 DEF Admitted
<1>. QED  BY <1>1, <1>2

LEMMA AdmissionStep == ASSUME AdmissionInv, NetStep PROVE AdmissionInv'
<1>1. ASSUME NEW network \in Network, NEW to \in Agent, NEW signer \in Signer,
             MakeProof(network, to, signer)
      PROVE  AdmissionInv'
  BY <1>1 DEF MakeProof, AdmissionInv, NetTypeOK, Admitted
<1>2. ASSUME NEW agent \in Agent, NEW proof \in Presentable, Join(agent, proof)
      PROVE  AdmissionInv'
  <2>1. agent \in Packaged => Admitted(agent)
    BY <1>2, SelfCheckAdmits DEF Join, AdmissionInv
  <2>2. /\ joined' = joined \cup {agent} /\ dna' = dna /\ proofs' = proofs
        /\ \A a \in Agent : Admitted(a)' = Admitted(a)
    BY <1>2 DEF Join, Admitted
  <2>. QED  BY <2>1, <2>2 DEF AdmissionInv, NetTypeOK
<1>. QED  BY <1>1, <1>2 DEF NetStep

(* What the administrator signed stays signed.                             *)
LEMMA AdmittedStays ==
  ASSUME NEW a, Admitted(a), NetStep PROVE Admitted(a)'
BY DEF NetStep, MakeProof, Join, Admitted

LEMMA AdmissionKept == ASSUME AdmissionInv, UNCHANGED netVars PROVE AdmissionInv'
BY DEF AdmissionInv, NetTypeOK, Admitted, netVars

-----------------------------------------------------------------------------
(* Trust records                                                           *)

TrustInv ==
  /\ TrustTypeOK /\ AdmissionInv
  /\ \A r \in attestations :
       r.author \in Packaged => r.agent = r.author /\ Admitted(r.author)
  /\ \A w \in warrants :
       w.author \in Packaged => w.accuser = w.author /\ Admitted(w.author)

LEMMA TrustInitInv == TrustInit => TrustInv
BY AdmissionInit DEF TrustInit, TrustInv, TrustTypeOK, AdmissionInv, NetInit

LEMMA TrustStepInv ==
  ASSUME TrustInv, [TrustNext]_<<netVars, trustVars>> PROVE TrustInv'
<1>1. CASE NetStep /\ UNCHANGED trustVars
  <2>1. AdmissionInv'
    BY <1>1, AdmissionStep DEF TrustInv
  <2>2. \A a \in Agent : Admitted(a) => Admitted(a)'
    BY <1>1, AdmittedStays
  <2>. QED  BY <1>1, <2>1, <2>2
            DEF TrustInv, TrustTypeOK, AdmissionInv, trustVars, Attestations, Warrants
<1>2. CASE UNCHANGED netVars
  <2>1. AdmissionInv' /\ NetTypeOK' /\ \A a \in Agent : Admitted(a)' = Admitted(a)
    BY <1>2, AdmissionKept DEF TrustInv, AdmissionInv, Admitted, netVars
  <2>2. ASSUME NEW r \in Attestations, PublishAttestation(r) PROVE TrustInv'
    <3>1. r.author \in joined /\ r.author \in Agent
      BY <2>2 DEF PublishAttestation, MayCommit, Attestations
    <3>2. r.author \in Packaged => r.agent = r.author /\ Admitted(r.author)
      BY <2>2, <3>1 DEF PublishAttestation, MayCommit, ValidAttestation, TrustInv,
         AdmissionInv
    <3>3. /\ attestations' = attestations \cup {r}
          /\ UNCHANGED <<manifests, claims, warrants, refutations>>
      BY <2>2 DEF PublishAttestation
    <3>. QED  BY <2>1, <3>1, <3>2, <3>3 DEF TrustInv, TrustTypeOK, Attestations, Warrants
  <2>3. ASSUME NEW m \in Manifest, PublishModelManifest(m) PROVE TrustInv'
    BY <2>1, <2>3 DEF PublishModelManifest, TrustInv, TrustTypeOK, Attestations, Warrants
  <2>4. ASSUME NEW r \in Claims, ClaimModel(r) PROVE TrustInv'
    BY <2>1, <2>4 DEF ClaimModel, TrustInv, TrustTypeOK, Attestations, Warrants
  <2>5. ASSUME NEW r \in Warrants, PublishWarrant(r) PROVE TrustInv'
    <3>1. r.author \in joined /\ r.author \in Agent
      BY <2>5 DEF PublishWarrant, MayCommit, Warrants
    <3>2. r.author \in Packaged => r.accuser = r.author /\ Admitted(r.author)
      BY <2>5, <3>1 DEF PublishWarrant, MayCommit, ValidWarrant, TrustInv, AdmissionInv
    <3>3. /\ warrants' = warrants \cup {r}
          /\ UNCHANGED <<attestations, manifests, claims, refutations>>
      BY <2>5 DEF PublishWarrant
    <3>. QED  BY <2>1, <3>1, <3>2, <3>3 DEF TrustInv, TrustTypeOK, Attestations, Warrants
  <2>6. ASSUME NEW w \in warrants, NEW a \in Agent, NEW by \in Agent,
               RefuteWarrant([author |-> a, by |-> by, warrant |-> w])
        PROVE  TrustInv'
    <3>1. [author |-> a, by |-> by, warrant |-> w] \in Refutations
      BY DEF Refutations, TrustInv, TrustTypeOK
    <3>. QED  BY <2>1, <2>6, <3>1
              DEF RefuteWarrant, TrustInv, TrustTypeOK, Attestations, Warrants
  <2>7. ASSUME NEW a \in Agent, DeleteLinks(a) PROVE TrustInv'
    <3>1. /\ attestations' \subseteq attestations /\ claims' \subseteq claims
          /\ warrants' \subseteq warrants /\ refutations' \subseteq refutations
          /\ manifests' = manifests
      BY <2>7 DEF DeleteLinks
    <3>. QED  BY <2>1, <3>1 DEF TrustInv, TrustTypeOK, Attestations, Warrants
  <2>8. CASE UNCHANGED trustVars
    BY <2>1, <2>8 DEF TrustInv, TrustTypeOK, trustVars, Attestations, Warrants
  <2>. QED  BY <1>1, <2>2, <2>3, <2>4, <2>5, <2>6, <2>7, <2>8 DEF TrustNext
<1>3. UNCHANGED netVars \/ (NetStep /\ UNCHANGED trustVars)
  BY DEF TrustNext, PublishAttestation, PublishModelManifest, ClaimModel, PublishWarrant,
     RefuteWarrant, DeleteLinks
<1>. QED  BY <1>1, <1>2, <1>3

(* The records of the zomes stay typed.                                    *)
THEOREM TrustTypeCorrect == TrustSpec => []TrustTypeOK
<1>1. TrustInv => TrustTypeOK
  BY DEF TrustInv
<1>. QED  BY <1>1, TrustInitInv, TrustStepInv, PTL DEF TrustSpec

(* A verdict that rests on agents which run the app as packaged is about   *)
(* an admitted agent, on its own word, and a sanction rests on admitted    *)
(* accusers, whatever the other members commit.                            *)
THEOREM VerdictsAreFromAdmitted == TrustSpec => []VerdictsFromAdmitted
<1>1. ASSUME TrustInv, NEW agent \in Agent, VerifyNodeAttestation(agent) # "missing",
             Sources(agent) \subseteq Packaged
      PROVE  /\ Admitted(agent)
             /\ \A r \in attestations : r.agent = agent => r.author = agent
             /\ \A w \in ActiveWarrants(agent) : Admitted(w.accuser)
  <2>1. \A r \in attestations : r.agent = agent =>
          r.author \in Packaged /\ r.author = agent /\ Admitted(agent)
    BY <1>1 DEF Sources, TrustInv
  <2>2. \A w \in ActiveWarrants(agent) : Admitted(w.accuser)
    BY <1>1 DEF Sources, ActiveWarrants, TrustInv
  <2>3. PICK r \in attestations : r.agent = agent
    BY <1>1 DEF VerifyNodeAttestation, Attested
  <2>. QED  BY <2>1, <2>2, <2>3
<1>2. TrustInv => VerdictsFromAdmitted
  BY <1>1 DEF VerdictsFromAdmitted
<1>. QED  BY <1>2, TrustInitInv, TrustStepInv, PTL DEF TrustSpec

-----------------------------------------------------------------------------
(* The HybridNode runtime                                                  *)

HybridInv ==
  /\ NodeTypeOK /\ AdmissionInv
  /\ identity => Self \in joined
  /\ stage # "stopped" => ValidConfig(config)
  /\ stage = "sdwan" => identity \/ config.mode = "sdwan_only"
  /\ stage = "ready" => identity \/ config.mode = "sdwan_only"

LEMMA HybridInitInv == NodeInit => HybridInv
BY AdmissionInit DEF NodeInit, NetInit, HybridInv, NodeTypeOK, AdmissionInv, Stages

LEMMA HybridStepInv ==
  ASSUME HybridInv, [NodeNext]_<<netVars, nodeVars>> PROVE HybridInv'
<1>1. CASE NetStep /\ UNCHANGED nodeVars
  <2>1. AdmissionInv'
    BY <1>1, AdmissionStep DEF HybridInv
  <2>2. Self \in joined => Self \in joined'
    BY <1>1 DEF NetStep, MakeProof, Join
  <2>. QED  BY <1>1, <2>1, <2>2 DEF HybridInv, NodeTypeOK, AdmissionInv, nodeVars, ValidConfig
<1>2. CASE StartNode
  BY <1>2, AdmissionKept DEF StartNode, HybridInv, NodeTypeOK, AdmissionInv, NetTypeOK,
     netVars, Stages, ValidConfig
<1>3. CASE LoadIdentityFromConductor
  BY <1>3, AdmissionKept DEF LoadIdentityFromConductor, HybridInv, NodeTypeOK,
     AdmissionInv, NetTypeOK, netVars, Stages, ValidConfig
<1>4. CASE ConnectSdwan
  BY <1>4, AdmissionKept DEF ConnectSdwan, HybridInv, NodeTypeOK, AdmissionInv,
     NetTypeOK, netVars, Stages, ValidConfig
<1>5. CASE StopNode
  BY <1>5, AdmissionKept DEF StopNode, HybridInv, NodeTypeOK, AdmissionInv, NetTypeOK,
     netVars, Stages, ValidConfig
<1>6. CASE EditConfig
  BY <1>6, AdmissionKept DEF EditConfig, HybridInv, NodeTypeOK, AdmissionInv, NetTypeOK,
     netVars, Stages, ValidConfig
<1>7. CASE UNCHANGED <<netVars, nodeVars>>
  BY <1>7, AdmissionKept DEF HybridInv, NodeTypeOK, AdmissionInv, NetTypeOK, netVars,
     nodeVars, ValidConfig
<1>. QED  BY <1>1, <1>2, <1>3, <1>4, <1>5, <1>6, <1>7 DEF NodeNext

(* A packaged node that runs as a member of a private network was admitted *)
(* to it.                                                                  *)
THEOREM PrivateNodeIsAdmitted == NodeSpec => []PrivateNodeAdmitted
<1>1. HybridInv => PrivateNodeAdmitted
  BY DEF HybridInv, AdmissionInv, ValidConfig, PrivateNodeAdmitted
<1>. QED  BY <1>1, HybridInitInv, HybridStepInv, PTL DEF NodeSpec

-----------------------------------------------------------------------------
(* Blackboard                                                              *)

(* A post the integrity zome admitted, and one whose time is not over.     *)
CleanPosts == {p \in Posts : Clean(p.content)}
Showable == {p \in CleanPosts : Live(p)}

BoardInv == posts \in Seq(CleanPosts) /\ shown \in Seq(Showable)

LEMMA FirstType ==
  ASSUME NEW T, NEW s \in Seq(T), NEW n \in Nat
  PROVE  First(s, n) \in Seq(T)
<1>. DEFINE m == IF Len(s) < n THEN Len(s) ELSE n
<1>1. m \in Nat /\ m <= Len(s)
  BY LenProperties
<1>2. \A i \in 1 .. m : s[i] \in T
  BY <1>1, ElementOfSeq, LenProperties
<1>. HIDE DEF m
<1>3. SubSeq(s, 1, m) \in Seq(T)
  BY <1>1, <1>2, SubSeqProperties
<1>. QED  BY <1>3 DEF First, m

LEMMA ReverseType ==
  ASSUME NEW T, NEW s \in Seq(T)
  PROVE  Reverse(s) \in Seq(T)
<1>1. Len(s) \in Nat
  BY LenProperties
<1>2. ASSUME NEW i \in 1 .. Len(s) PROVE s[(Len(s) - i) + 1] \in T
  <2>1. (Len(s) - i) + 1 \in 1 .. Len(s)
    BY <1>1
  <2>. QED  BY <2>1, ElementOfSeq
<1>. QED  BY <1>1, <1>2 DEF Reverse

(* The recursion of Where is well defined.                                 *)
Selects(f, s, S, n) ==
  f = [i \in 0 .. n |->
         IF i = 0 THEN <<>>
         ELSE IF s[i] \in S THEN Append(f[i - 1], s[i]) ELSE f[i - 1]]

LEMMA SelectionExists ==
  ASSUME NEW s, NEW S, NEW b \in Nat
  PROVE  \E f : Selects(f, s, S, b)
<1>. DEFINE D == {n \in Nat : \E f : Selects(f, s, S, n)}
<1>1. 0 \in D
  <2>. DEFINE e == [i \in 0 .. 0 |-> <<>>]
  <2>1. e = [i \in 0 .. 0 |->
               IF i = 0 THEN <<>>
               ELSE IF s[i] \in S THEN Append(e[i - 1], s[i]) ELSE e[i - 1]]
    OBVIOUS
  <2>2. Selects(e, s, S, 0)
    BY <2>1 DEF Selects
  <2>. QED  BY <2>2
<1>2. ASSUME NEW n \in Nat, n \in D PROVE n + 1 \in D
  <2>1. PICK f : Selects(f, s, S, n)
    BY <1>2
  <2>. DEFINE e == [i \in 0 .. n + 1 |->
                      IF i = 0 THEN <<>>
                      ELSE IF s[i] \in S THEN Append(f[i - 1], s[i]) ELSE f[i - 1]]
  <2>2. ASSUME NEW i \in 0 .. n PROVE e[i] = f[i]
    <3>1. f[i] = IF i = 0 THEN <<>>
                 ELSE IF s[i] \in S THEN Append(f[i - 1], s[i]) ELSE f[i - 1]
      BY <2>1 DEF Selects
    <3>. QED  BY <3>1
  <2>3. ASSUME NEW i \in 0 .. n + 1, i # 0 PROVE e[i - 1] = f[i - 1]
    <3>1. i - 1 \in 0 .. n
      BY <2>3
    <3>. HIDE DEF e
    <3>. QED  BY <2>2, <3>1
  <2>4. e = [i \in 0 .. n + 1 |->
               IF i = 0 THEN <<>>
               ELSE IF s[i] \in S THEN Append(e[i - 1], s[i]) ELSE e[i - 1]]
    <3>. DEFINE F(g, i) == IF i = 0 THEN <<>>
                           ELSE IF s[i] \in S THEN Append(g[i - 1], s[i]) ELSE g[i - 1]
    <3>1. \A i \in 0 .. n + 1 : F(e, i) = F(f, i)
      <4>. HIDE DEF e
      <4>. QED  BY <2>3
    <3>2. e = [i \in 0 .. n + 1 |-> F(f, i)]
      OBVIOUS
    <3>. HIDE DEF F, e
    <3>3. e = [i \in 0 .. n + 1 |-> F(e, i)]
      BY <3>1, <3>2
    <3>. QED  BY <3>3 DEF F
  <2>5. Selects(e, s, S, n + 1)
    <3>. HIDE DEF e
    <3>. QED  BY <2>4 DEF Selects
  <2>. QED  BY <2>5
<1>. HIDE DEF D
<1>3. b \in D
  <2>1. \A n \in Nat : n < b /\ n \in D => n + 1 \in D
    BY <1>2
  <2>. QED  BY ONLY b \in Nat, <1>1, <2>1, Induction
<1>. QED  BY <1>3 DEF D

LEMMA WhereType ==
  ASSUME NEW T, NEW s \in Seq(T), NEW S
  PROVE  Where(s, S) \in Seq(T \cap S)
<1>. DEFINE upto[i \in 0 .. Len(s)] ==
              IF i = 0 THEN <<>>
              ELSE IF s[i] \in S THEN Append(upto[i - 1], s[i]) ELSE upto[i - 1]
<1>1. Len(s) \in Nat
  BY LenProperties
<1>2. Where(s, S) = upto[Len(s)]
  BY DEF Where
<1>3. Selects(upto, s, S, Len(s))
  <2>1. \E f : Selects(f, s, S, Len(s))
    BY <1>1, SelectionExists
  <2>2. \E f : f = [i \in 0 .. Len(s) |->
                      IF i = 0 THEN <<>>
                      ELSE IF s[i] \in S THEN Append(f[i - 1], s[i]) ELSE f[i - 1]]
    BY <2>1 DEF Selects
  <2>. QED  BY <2>2 DEF Selects
<1>. HIDE DEF upto
<1>. DEFINE D == {n \in Nat : n <= Len(s) => upto[n] \in Seq(T \cap S)}
<1>4. ASSUME NEW n \in 0 .. Len(s)
      PROVE  upto[n] = IF n = 0 THEN <<>>
                       ELSE IF s[n] \in S THEN Append(upto[n - 1], s[n]) ELSE upto[n - 1]
  BY <1>3 DEF Selects
<1>5. 0 \in D
  <2>1. upto[0] = <<>>
    BY <1>1, <1>4
  <2>2. <<>> \in Seq(T \cap S)
    BY EmptySeq
  <2>. QED  BY <2>1, <2>2
<1>6. ASSUME NEW n \in Nat, n < Len(s), n \in D PROVE n + 1 \in D
  <2>1. n + 1 \in 1 .. Len(s) /\ n + 1 \in 0 .. Len(s) /\ (n + 1) - 1 = n /\ n + 1 # 0
    BY <1>1, <1>6
  <2>2. upto[n] \in Seq(T \cap S)
    BY <1>6
  <2>3. upto[n + 1] = IF s[n + 1] \in S THEN Append(upto[n], s[n + 1]) ELSE upto[n]
    BY <1>4, <2>1
  <2>4. s[n + 1] \in T
    BY <2>1, ElementOfSeq
  <2>5. ASSUME s[n + 1] \in S PROVE upto[n + 1] \in Seq(T \cap S)
    <3>1. Append(upto[n], s[n + 1]) \in Seq(T \cap S)
      BY <2>2, <2>4, <2>5, AppendProperties
    <3>. QED  BY <2>3, <2>5, <3>1
  <2>6. upto[n + 1] \in Seq(T \cap S)
    BY <2>2, <2>3, <2>5
  <2>. QED  BY <2>6
<1>. HIDE DEF D
<1>7. Len(s) \in D
  <2>1. \A n \in Nat : n < Len(s) /\ n \in D => n + 1 \in D
    BY <1>6
  <2>. QED  BY ONLY <1>1, <1>5, <2>1, Induction
<1>8. upto[Len(s)] \in Seq(T \cap S)
  BY <1>7 DEF D
<1>. QED  BY <1>2, <1>8

(* What a reader is shown is live and was admitted.                        *)
LEMMA FilterType ==
  ASSUME BoardInv, NEW S, NEW n \in Nat
  PROVE  Newest(S, n) \in Seq(CleanPosts)
<1>1. Where(posts, S) \in Seq(CleanPosts)
  <2>1. Where(posts, S) \in Seq(CleanPosts \cap S)
    BY WhereType DEF BoardInv
  <2>. QED  BY <2>1, SeqMonotonic
<1>. QED  BY <1>1, ReverseType, FirstType DEF Newest

LEMMA LiveType ==
  ASSUME NEW s \in Seq(CleanPosts), NEW S, S \subseteq LivePosts
  PROVE  Where(s, S) \in Seq(Showable)
<1>1. Where(s, S) \in Seq(CleanPosts \cap S)
  BY WhereType
<1>2. CleanPosts \cap S \subseteq Showable
  BY DEF LivePosts, Showable
<1>. QED  BY <1>1, <1>2, SeqMonotonic

LEMMA RecentType == ASSUME BoardInv PROVE GetRecentPosts \in Seq(Showable)
<1>1. Where(Newest(Posted, 3 * Page), LivePosts) \in Seq(Showable)
  BY FilterType, LiveType
<1>. QED  BY <1>1, FirstType DEF GetRecentPosts

LEMMA SearchType ==
  ASSUME BoardInv, NEW prefix, NEW limit \in Nat
  PROVE  Search(prefix, limit) \in Seq(Showable)
<1>. DEFINE S == {p \in Posted : p.prefix = prefix}
<1>1. Where(GetRecentPosts, S) \in Seq(Showable \cap S)
  BY RecentType, WhereType
<1>2. Where(GetRecentPosts, S) \in Seq(Showable)
  BY <1>1, SeqMonotonic
<1>. QED  BY <1>2, FirstType DEF Search

LEMMA PostInv ==
  ASSUME BoardInv, NEW author \in Author, NEW prefix, NEW content \in Contents,
         NEW moved \in BOOLEAN, NEW tags \in SUBSET Tag, NEW ttl,
         NEW parent \in 0 .. Len(posts),
         Post(author, prefix, content, moved, tags, ttl, parent)
  PROVE  BoardInv'
<1>. DEFINE post == [author |-> author, prefix |-> prefix,
                     content |-> Stripped(content, moved), tags |-> tags,
                     ttl |-> ttl, age |-> 0, parent |-> parent]
<1>1. /\ Len(posts) < MaxPosts /\ ValidPost(post)
      /\ posts' = Append(posts, post) /\ UNCHANGED shown
  BY DEF Post
<1>2. post.content \in Contents
  BY DEF Stripped, Contents
<1>3. post \in Posts
  <2>1. parent \in 0 .. MaxPosts
    BY <1>1, LenProperties DEF BoardInv
  <2>. QED  BY <1>1, <1>2, <2>1 DEF Posts, ValidPost
<1>4. post \in CleanPosts
  BY <1>1, <1>3 DEF CleanPosts, ValidPost
<1>. HIDE DEF post
<1>. QED  BY <1>1, <1>4, AppendProperties DEF BoardInv

LEMMA PassTimeInv == ASSUME BoardInv, PassTime PROVE BoardInv'
<1>. DEFINE Older(p) == [p EXCEPT !.age = IF @ < MaxTtl THEN @ + 1 ELSE @]
<1>1. ASSUME NEW p \in CleanPosts PROVE Older(p) \in CleanPosts
  BY <1>1 DEF CleanPosts, Posts, Clean
<1>2. posts \in Seq(CleanPosts) /\ Len(posts) \in Nat /\ DOMAIN posts = 1 .. Len(posts)
  BY LenProperties DEF BoardInv
<1>3. posts' = [i \in 1 .. Len(posts) |-> Older(posts[i])] /\ shown' = <<>>
  BY <1>2 DEF PassTime
<1>. HIDE DEF Older
<1>4. posts' \in [1 .. Len(posts) -> CleanPosts]
  BY <1>1, <1>2, <1>3, ElementOfSeq
<1>5. posts' \in Seq(CleanPosts)
  BY <1>2, <1>4
<1>. QED  BY <1>3, <1>5, EmptySeq DEF BoardInv

LEMMA BoardStep == ASSUME BoardInv, [BoardNext]_boardVars PROVE BoardInv'
<1>1. ASSUME NEW answer \in Seq(Showable), Read(answer) PROVE BoardInv'
  BY <1>1 DEF Read, BoardInv
<1>2. CASE Read(GetRecentPosts)
  BY <1>1, <1>2, RecentType
<1>3. ASSUME NEW tag \in Tag, Read(SearchByTag(tag)) PROVE BoardInv'
  <2>1. SearchByTag(tag) \in Seq(Showable)
    BY FilterType, LiveType DEF SearchByTag
  <2>. QED  BY <1>1, <1>3, <2>1
<1>4. ASSUME NEW agent \in Author, Read(MyPosts(agent)) PROVE BoardInv'
  <2>1. MyPosts(agent) \in Seq(Showable)
    BY FilterType, LiveType DEF MyPosts
  <2>. QED  BY <1>1, <1>4, <2>1
<1>5. ASSUME NEW parent, Read(GetReplies(parent)) PROVE BoardInv'
  <2>1. GetReplies(parent) \in Seq(Showable)
    <3>1. {p \in LivePosts : p.parent = parent} \subseteq LivePosts
      OBVIOUS
    <3>. QED  BY <3>1, LiveType DEF GetReplies, BoardInv
  <2>. QED  BY <1>1, <1>5, <2>1
<1>6. ASSUME NEW prefix, NEW limit \in Nat, Read(Search(prefix, limit)) PROVE BoardInv'
  BY <1>1, <1>6, SearchType
<1>7. CASE UNCHANGED boardVars
  BY <1>7 DEF boardVars, BoardInv
<1>. QED  BY <1>2, <1>3, <1>4, <1>5, <1>6, <1>7, PostInv, PassTimeInv DEF BoardNext

(* Whatever is posted and however it is asked for, a post that is shown    *)
(* holds no sensitive pattern and its time to live is not over (blackboard *)
(* coordinator and integrity zomes), for any posts, patterns and pages.    *)
THEOREM ShownPosts == BoardSpec => []ShownPostsCleanAndLive
<1>1. BoardInit => BoardInv
  BY EmptySeq DEF BoardInit, BoardInv
<1>2. BoardInv => ShownPostsCleanAndLive
  <2>1. ASSUME BoardInv, NEW i \in DOMAIN shown PROVE shown[i] \in Showable
    <3>1. shown \in Seq(Showable) /\ i \in 1 .. Len(shown)
      BY <2>1, LenProperties DEF BoardInv
    <3>. QED  BY <3>1, ElementOfSeq
  <2>. QED  BY <2>1 DEF ShownPostsCleanAndLive, Showable, CleanPosts, Clean, Live
<1>. QED  BY <1>1, <1>2, BoardStep, PTL DEF BoardSpec
=============================================================================
