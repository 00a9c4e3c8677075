SPECIFICATION Spec
CONSTANTS
  a1 = a1
  c1 = c1
  Task = {t1, t2}
  App = {a1, a2}
  Existing = {}
  Missing = Missing
  Empty = Empty
  Torn = Torn
  Sub = {s1, s2}
  Case = {c1}
  CaseOf <- CaseOfAll
  AppOf <- AppOfAll
  Managed = {}
  NoBuild = NoBuild
  MaxMishaps = 1
SYMMETRY Alike
INVARIANTS
  ApprovedHasPR
  ReviewedIsPublished
