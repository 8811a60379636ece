SPECIFICATION MeshSpec
CONSTANTS
  Node = {n1}
  Agent = {n1}
  MaxKey = 3
  PubKey <- MCKeys
  NoKey = NoKey
  Torn = Torn
  NoCaps = NoCaps
  Window = 2
  MaxLinks = 1
  Period = 1
INVARIANTS RecordConnectable DeadNodeLeaves BeatKeepsNode
PROPERTIES BeatingNodeReturns
