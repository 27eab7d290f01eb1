SPECIFICATION Spec
CONSTANTS
  IPs = {a, b}
  NoIP = NoIP
  Env <- EnvMassive
  Loads = {"all", "etcd"}
  MaxId = 3
  MaxArgs = 2
  MaxCrashes = 1
SYMMETRY Addresses
INVARIANT NoDangling
