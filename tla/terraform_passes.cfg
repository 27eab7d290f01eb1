SPECIFICATION Spec
CONSTANTS
  i1 = i1
  i2 = i2
  n1 = n1
  n2 = n2
  x1 = x1
  x2 = x2
  p1 = p1
  p2 = p2
  Missing = Missing
  Blank = Blank
  NoId = NoId
  Files = 2
  Servers <- SomeServers
  Floating <- SomeFloating
  Others <- SomeOthers
  Planned <- SomePlanned
  Starts <- SomeStarts
  Targets = {i1, n1}
  MaxApplies = 1
INVARIANTS TypeOK ListIsRight HostIsRight NoServerLeftOut AbortHasCause
