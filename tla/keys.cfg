SPECIFICATION Spec
CONSTANTS
    Proc = {p1, p2}
    Configs <- MCConfigs
    First <- FirstConfig
    MaxRot = 2
    MaxMishaps = 1
INVARIANTS
    LeakedKeyStaysDead
    LoneCallRepairs
SYMMETRY Alike
CHECK_DEADLOCK FALSE
