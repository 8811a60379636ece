SPECIFICATION FairSpec
CONSTANTS
  N = 2
  Vocab <- MCVocab
  Prompt <- MCPrompt
  Eos = 0
  Budget = 8
  Predict <- MCPredictOn
  K = 2
  MaxStreams = 1
  MaxFaults = 0
CHECK_DEADLOCK FALSE
PROPERTY Completes
