\* A clone or an upgrade, from many pairs of devices, with a choice of the user's and a crash.
SPECIFICATION FairSpec
CONSTANTS
    Kinds = {"ring", "notification"}
    SimCards = {"SIM1", "SIM2", "ESIM1"}
    Paths <- MCPaths
    Names <- MCNames
    Unplaced <- MCUnplaced
    Relative <- MCRelative
    ToneKinds <- MCToneKinds
    Jobs <- MCJobs
    Contents = {0, 1, 2}
    RINGTONE_VIDEO_MAX_COUNT = 1
    MaxChanges = 1
INVARIANTS
    TypeOK
    NoForeignTone
    SettingsArrive
PROPERTIES
    OwnSettingsKept
    NeverSilenced
    TonesNotLost
    RestoreEnds
\* The restore ends.
CHECK_DEADLOCK FALSE
