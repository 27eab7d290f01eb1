SPECIFICATION Spec
CONSTANTS
  m1 = m1
  m2 = m2
  w1 = w1
  w2 = w2
  w3 = w3
  Masters = {m1, m2}
  Workers = {w1, w2, w3}
  BatchSize = 2
  MaxVersion = 2
  MaxFailures = 1
  MaxMishaps = 1
  MaxEdits = 1
SYMMETRY Alike
INVARIANTS WorkersNotAhead AdminRespected StrandedBound UpgradeComplete
PROPERTY RestartsDrained
