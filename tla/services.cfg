SPECIFICATION Spec
CONSTANTS
  Server = {s1, s2}
  NoServer = NoServer
  Setups <- MCSetups
  NoPlan = NoPlan
  MaxStages = 4
  Experts = 8
  Configs <- MCConfigs
  MaxTokens = 3
  MaxChunks = 3
  MaxNodes = 5
  Totals = {18, 30}
  Author = {u1, u2}
  Tag = {t1}
  Prefix = {STATUS}
  BadPrefix = BadPrefix
  Kept = {token}
  Erased = {password}
  MaxTtl = 2
  Page = 1
  MaxPosts = 3
  Agent = {a1, a2, a3}
  Packaged = {a1, a2}
  Network = {net1, net2}
  Signer = {admin}
  Forged = Forged
  None = None
  Dnas <- MCDnas
  MaxProofs = 2
  net1 = net1
  net2 = net2
  admin = admin
  Manifest = {m1}
  MaxRecords = 2
  Self = a1
  NodeConfigs <- MCNodeConfigs
  Peer = {1, 2}
  Site = {"here", "far"}
  Local = "here"
  Links <- MCLinks
  Size = 50
  Budgets = {4, 40, 60}
  NoPeer = NoPeer
INVARIANTS OrphanOnlyAfterKill OffloadFits StreamRelayed PlanCoversModel
INVARIANTS ShownPostsCleanAndLive VerdictsFromAdmitted PrivateNodeAdmitted ScheduledPeerEligible
PROPERTIES RequestEnds
