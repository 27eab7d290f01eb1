SPECIFICATION Spec
CONSTANTS
  h1 = h1
  h2 = h2
  h3 = h3
  Hosts = {h1, h2, h3}
  MaxSerial = 6
  MaxFailures = 1
  MaxEdits = 1
  Edits = {"reset"}
  OldReleases = {FALSE}
  FirstLeads = TRUE
INVARIANT TokensRotated
