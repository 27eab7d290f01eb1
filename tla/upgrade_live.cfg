SPECIFICATION FairSpec
CONSTANTS
  m1 = m1
  w1 = w1
  w2 = w2
  Masters = {m1}
  Workers = {w1, w2}
  BatchSize = 1
  MaxVersion = 2
  MaxFailures = 2
  MaxMishaps = 1
  MaxEdits = 0
PROPERTY EventuallyUpgraded
