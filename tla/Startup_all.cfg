\* Starts of many libraries: upgrades, scans, moves and eSIM migrations, cut off or failing.
SPECIFICATION Spec
CONSTANTS
    Kinds = {"ring", "shot"}
    SimCards = {"SIM1", "SIM2", "ESIM1"}
    Paths = {"p1", "p2", "p3", "u"}
    Jobs <- MCJobs
    Clients = {c1, c2}
    Languages = {"zh", "en"}
    Translated = {"p1", "p3", "v", "x"}
    StandardVibrations = {"v", "w"}
    Defaults <- MCDefaults
    ShotDefault = "p3"
    RINGTONE_PRELOAD_CONF_COUNT = 4
INVARIANTS
    TypeOK
    UpgradeCompletes
    MigratedTonesPlay
    TitlesInLanguage
    ESimInherits
\* A start ends, and nobody need call.
CHECK_DEADLOCK FALSE
