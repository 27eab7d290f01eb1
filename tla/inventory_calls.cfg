SPECIFICATION Spec
CONSTANTS
  IPs = {a, b, c, d, e}
  NoIP = NoIP
  Env <- EnvScale
  Loads = {}
  MaxId = 7
  MaxArgs = 2
  MaxCrashes = 1
SYMMETRY Addresses
INVARIANTS UniqueHosts EtcdIsFirstThree SmallRunsEverywhere MasterExists
PROPERTY NamesKeepAddress
