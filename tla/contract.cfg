SPECIFICATION Spec
CONSTANTS
    Forms <- MCForms
    Specs <- MCSpecs
    Neighbours <- MCNeighbours
    AccessKeys = FALSE
INVARIANTS
    FormGapsAreNamed
    InstallOrderSound
    UsesAreGranted
    CallsAnswered
    LoadedFileBoots
    StrandedOnlyInCircle
PROPERTIES
    ReloadKeepsApps
    HintUnlocks
CHECK_DEADLOCK FALSE
