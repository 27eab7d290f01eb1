SPECIFICATION Spec
CONSTANTS
  h1 = h1
  h2 = h2
  Hosts = {h1, h2}
  MasterOnly = {}
  MaxSerial = 8
  MaxFailures = 1
  MaxEdits = 3
  Edits = {"node", "etcd", "promote", "front", "reset", "scale"}
  TornInstall = TRUE
INVARIANTS KeysAgree
PROPERTY KeysDistributed
