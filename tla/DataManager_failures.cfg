\* Two inserters and a deleter, both tables, every call failing or not, writers going first.
SPECIFICATION Spec
CONSTANTS
    c1 = c1
    c2 = c2
    preset = preset
    tone1 = tone1
    tone2 = tone2
    Clients = {c1, c2}
    Inserters = {c1, c2}
    Deleters = {c2}
    DeleteKinds = {"byPath", "byId"}
    Tables = {"ToneFiles", "VibrateFiles"}
    Paths = {preset, tone1}
    PresetPath = preset
    RINGTONE_VIDEO_MAX_COUNT = 1
    MaxRequests = 3
    MaxStops = 2
    WriterFirst = TRUE
    Failures = {"store", "file"}
INVARIANTS
    TypeOK
    ServedWhileInitialised
    VideoOverrun
\* Requests are bounded, and a request may hang where the lock lets it.
CHECK_DEADLOCK FALSE
