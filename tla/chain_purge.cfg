SPECIFICATION FairSpec
CONSTANTS
  N = 2
  Vocab <- MCVocab
  Prompt <- MCPrompt
  Eos = 0
  Budget = 5
  Predict <- MCPredict
  K = 2
  MaxStreams = 100
  MaxFaults = 0
CHECK_DEADLOCK FALSE
PROPERTY PurgedAfterSuccess
