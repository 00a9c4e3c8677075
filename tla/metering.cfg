SPECIFICATION FairSpec
CONSTANTS
  Threshold = 1
  Caller = {c1, c2}
  Handler = {h1, h2}
  Machine = {m1, m2}
  NoOne = NoOne
  Seed = 2
  PushCost = 1
  Rate = 2
  Scale = 1
  MaxElapsed = 1
  MaxFaults = 1
INVARIANTS
  NoOverdraft
  Conservation
  PaidForMachines
PROPERTIES
  ExhaustedIsStopped
