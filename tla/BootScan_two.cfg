\* The scans of the two extensions overlap; nothing fails.
SPECIFICATION Spec
CONSTANTS
    p1 = p1
    p2 = p2
    p3 = p3
    p4 = p4
    c1 = c1
    extension = extension
    backup = backup
    Scanners = {extension, backup}
    Backup = {backup}
    Preset = {p1, p3}
    Customised = {c1}
    NumTables = 2
    TableOf <- Small_TableOf
    NumDirs = 1
    DirOf <- Small_DirOf
    Nested = {p3}
    MAX_BATCH_SIZE = 2
    MaxScans = 2
    Stops = FALSE
    Failures = FALSE
    Crashes = FALSE
PROPERTIES
    OnlyMissingDeleted
\* A behaviour ends when every scan that may start has ended.
CHECK_DEADLOCK FALSE
