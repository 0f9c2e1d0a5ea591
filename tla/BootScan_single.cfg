\* One scanner: any call fails, a stop at any moment, crashes and reboots between any two steps.
SPECIFICATION Spec
CONSTANTS
    p1 = p1
    p2 = p2
    p3 = p3
    p4 = p4
    c1 = c1
    extension = extension
    backup = backup
    Scanners = {extension}
    Backup = {}
    Preset = {p1, p2, p3, p4}
    Customised = {c1}
    NumTables = 2
    TableOf <- Instance_TableOf
    NumDirs = 2
    DirOf <- Instance_DirOf
    Nested = {p3}
    MAX_BATCH_SIZE = 2
    MaxScans = 2
    Stops = TRUE
    Failures = TRUE
    Crashes = TRUE
INVARIANTS
    TypeOK
    OneRowPerFile
    BuffersCurrent
    FirstMeansScanned
    FinishedScanIsExact
PROPERTIES
    OnlyMissingDeleted
\* A behaviour ends when every scan that may start has ended.
CHECK_DEADLOCK FALSE
