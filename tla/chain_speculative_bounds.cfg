SPECIFICATION FairSpec
CONSTANTS
  N = 2
  Vocab <- MCVocab
  Prompt <- MCPrompt
  Eos = 0
  Budget = 5
  Predict <- MCPredict
  K = 2
  MaxStreams = 2
  MaxFaults = 1
CHECK_DEADLOCK FALSE
INVARIANT WithinBudget
PROPERTY CascadeClose
