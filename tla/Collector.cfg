CONSTANTS
  main = main
  other = other
  s1 = s1
  s2 = s2
  Channels <- MCChannels
  Threads <- MCThreads
  Services <- MCServices
  MaxDrops = 1
  Sorters <- MCSorters
  Datasets <- MCDatasets
  Width = 3
  MaxSteps = 5
  OtherCalls <- MCOtherCalls
  MaxDisturbances = 1
SPECIFICATION Spec
INVARIANTS
  AnswersOwned
  RoundExact
  MedianCorrect
  SearchNeverFails
PROPERTY
  CollectorEnds
