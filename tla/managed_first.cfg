SPECIFICATION FairSpec
CONSTANTS
  Threshold = 1
  Caller = {c1, c2}
  Handler = {h1, h2}
  IP = {ip1}
  NoIP = NoIP
  Mode = "fixed"
  Price = {1}
  Reported = {0, 1}
  Seed = 1
  MaxPerIP = 1
  Quota = 1
  MintCooldown = FALSE
  MaxCrashes = 1
INVARIANTS
  GrantCap
PROPERTIES
  EveryRequestAnswered
