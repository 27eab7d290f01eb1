SPECIFICATION FairSpec
CONSTANTS
  h1 = h1
  h2 = h2
  h3 = h3
  Hosts = {h1, h2, h3}
  MasterOnly = {h3}
  MaxSerial = 8
  MaxFailures = 1
  MaxEdits = 2
  Edits = {"node", "etcd", "reset", "scale"}
  TornInstall = FALSE
INVARIANTS NodesConverged MembersConverged KeyVouches
PROPERTIES KeysKept EventuallyDeployed
