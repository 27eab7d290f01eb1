SPECIFICATION KubeSpec
CONSTANTS
  s = s
  t = t
  d = d
  ip = ip
  NoAddress = NoAddress
  Objects = {s, t, d}
  Address <- Addresses
  MaxOutages = 2
  MaxRelease = 2
INVARIANTS AppliedMeansCurrent AbsentMeansGone
