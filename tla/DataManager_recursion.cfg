\* One caller inserts while the ability stops; the lock lets writers go first.
SPECIFICATION FairSpec
CONSTANTS
    c1 = c1
    c2 = c2
    preset = preset
    tone1 = tone1
    tone2 = tone2
    Clients = {c1}
    Inserters = {c1}
    Deleters = {}
    DeleteKinds = {"byPath", "byId"}
    Tables = {"ToneFiles"}
    Paths = {preset, tone1}
    PresetPath = preset
    RINGTONE_VIDEO_MAX_COUNT = 1
    MaxRequests = 1
    MaxStops = 1
    WriterFirst = TRUE
    Failures = {}
PROPERTIES
    RequestsEnd
\* Requests are bounded, and a request may hang where the lock lets it.
CHECK_DEADLOCK FALSE
