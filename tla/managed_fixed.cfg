SPECIFICATION Spec
CONSTANTS
  Threshold = 1
  Caller = {c1}
  Handler = {h1, h2}
  IP = {ip1}
  NoIP = NoIP
  Mode = "fixed"
  Price = {1, 2}
  Reported = {0, 1}
  Seed = 2
  MaxPerIP = 0
  Quota = 3
  MintCooldown = TRUE
  MaxCrashes = 1
SYMMETRY Alike
INVARIANTS
  Conservation
  NoOverdraft
PROPERTIES
  GrantIsFinal
  ImplementsLedger
