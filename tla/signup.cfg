SPECIFICATION Spec
CONSTANTS
  Addr = {m1, m2, m3}
  Task = {t1, t2}
  Caller = {c1, c2, c3}
  IP = {i1}
  MaxPerIP = 1
  Cooldown = TRUE
  NoAccount = NoAccount
  MaxMishaps = 1
SYMMETRY Alike
INVARIANTS
  AccountsAreOwn
  AnswersRetrievable
  CapOvershoot
  KeptWhileOpen
PROPERTY FirstAccountKept
