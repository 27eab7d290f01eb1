SPECIFICATION FairSpec
CONSTANTS
  Modes = {"kubedns", "coredns", "coredns_dual", "manual"}
  Retries = 2
  MaxRelease = 2
  MaxEdits = 2
  MaxFailures = 1
  MaxOutages = 2
INVARIANTS CompleteServes CompleteIsClean
PROPERTY EventuallyServed
