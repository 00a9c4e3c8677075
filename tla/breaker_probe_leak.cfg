SPECIFICATION Spec
CONSTANTS
  Threshold = 1
  Caller = {c1}
  Handler = {h1, h2}
  IP = {ip1}
  NoIP = NoIP
  Mode = "none"
  Price = {1}
  Reported = {0}
  Seed = 1
  MaxPerIP = 0
  Quota = 2
  MintCooldown = FALSE
  MaxCrashes = 0
SYMMETRY Alike
INVARIANTS
  ProbingMeansTrialInFlight
