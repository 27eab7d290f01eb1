SPECIFICATION FairSpec
CONSTANTS
  h1 = h1
  h2 = h2
  h3 = h3
  h4 = h4
  Hosts = {h1, h2, h3, h4}
  FirstGroups <- TwoOrThree
  Alike <- OneInFour
  AddsAtOnce = 2
  MaxEdits = 2
  MaxFailures = 2
  MaxOutages = 1
INVARIANTS OneCluster CompleteIsAssembled
PROPERTIES QuorumKept EventuallyAssembled
