SPECIFICATION FairSpec
CONSTANTS
  N = 2
  Vocab <- MCVocab
  Prompt <- MCPrompt
  Eos = 0
  Budget = 6
  Predict <- MCPredict
  K = 0
  MaxStreams = 1
  MaxFaults = 2
CHECK_DEADLOCK FALSE
INVARIANTS TypeOK NextInContext QuietBetweenPasses NeverBlocked
PROPERTIES ImplementsGreedy Completes CascadeClose PurgedAfterSuccess
