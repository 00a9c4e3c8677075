SPECIFICATION Spec
CONSTANTS
  Threshold = 2
  Caller = {c1}
  Handler = {h1, h2, h3}
  IP = {ip1}
  NoIP = NoIP
  Mode = "response"
  Price = {0, 1}
  Reported = {0, 2}
  Seed = 3
  MaxPerIP = 0
  Quota = 5
  MintCooldown = FALSE
  MaxCrashes = 0
SYMMETRY Alike
INVARIANTS
  AbsorbedOnlyWhenExhausted
  OvershootBounded
  OneTrialPerCooldown
