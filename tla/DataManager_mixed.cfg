\* Two callers insert, one of them also deletes, and the ability stops and starts.
SPECIFICATION FairSpec
CONSTANTS
    c1 = c1
    c2 = c2
    preset = preset
    tone1 = tone1
    tone2 = tone2
    Clients = {c1, c2}
    Inserters = {c1, c2}
    Deleters = {c2}
    DeleteKinds = {"byPath"}
    Tables = {"ToneFiles"}
    Paths = {preset, tone1}
    PresetPath = preset
    RINGTONE_VIDEO_MAX_COUNT = 1
    MaxRequests = 4
    MaxStops = 1
    WriterFirst = FALSE
    Failures = {"file"}
INVARIANTS
    RowsHaveFiles
    FailedInsertLeavesNoRow
    DoubledByCallers
PROPERTIES
    RequestsEnd
\* Requests are bounded, and a request may hang where the lock lets it.
CHECK_DEADLOCK FALSE
