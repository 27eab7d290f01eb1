SPECIFICATION FairSpec
CONSTANTS
  h1 = h1
  h2 = h2
  h3 = h3
  Hosts = {h1, h2, h3}
  MaxSerial = 6
  MaxFailures = 1
  MaxEdits = 2
  Edits = {"node", "master", "front", "reset"}
  OldReleases = {TRUE, FALSE}
  FirstLeads = TRUE
INVARIANTS NodesDeployed MastersAgree PairsConsistent TokensAccepted
PROPERTIES TokensSurvive KeysDistributed EventuallyDeployed
