------------------------------ MODULE Library ------------------------------
(***************************************************************************)
(* What of the tone library outlives its process, and the life of that     *)
(* process: the databases of the encrypted (el2) and of the device-level   *)
(* area (el1), the preferences, the files of the user's tones and the      *)
(* system parameters.  Upgrade, ESimMigration and Startup work on it.      *)
(*                                                                         *)
(* A tone is the display name of its row, and stands for its id.  A step   *)
(* is a statement, a system call, or a loop of them whose rounds do not    *)
(* depend on each other; a statement may fail, which is only logged, and   *)
(* the process may die between two steps and within a loop.                *)
(***************************************************************************)
EXTENDS ToneSettings

CONSTANTS
    Jobs,           \* the libraries the process finds: see Init
    Clients,        \* callers of Update with "isUpdateSimCard"
    Languages,      \* the languages the assets are translated to
    Translated,     \* the tones and vibrations that have a translation
    StandardVibrations, \* the vibrations of type standard: where their file lies says it
    Defaults,       \* the default tones of the system parameters: from <<kind, card>>
    ShotDefault,    \* the default of the shot parameters that are not set
    RINGTONE_PRELOAD_CONF_COUNT


VARIABLES
    job,            \* what is found, the cards and choices of the user, the faults: never changes
    dbs,            \* the databases: [el1, el2]
    prefs,          \* ringtone_common.xml: [completed, initScanner, eSimTime]
    first, known,   \* scanner.first, and whether scanner.userId holds the user
    files,          \* the files of the user's tones: <<tone, place>>
    folder,         \* the folder of the user's tones: open or closed to the group, or none
    phase,          \* of OnStart
    work,           \* its memory: [open, todo, left, all, language]
    scan,           \* the boot scan of the executor: [phase, buffer, cache, todo]
    clients,        \* what each CheckSimCard has left to do
    history,        \* see NoHistory
    failures, crashes

vars == <<job, dbs, prefs, first, known, files, folder, phase, work, scan, clients, history,
          failures, crashes>>
storage == <<dbs, prefs, first, known, files, folder>>
others == <<scan, clients, history>>

Types == {type \in Kinds \X AllSlots : type[2] \in Slots(type[1])}

(* Ringtones, messages and two cards are always there; no language is called like the marks   *)
(* and titles that name none.                                                                *)
ASSUME LibraryAssumption ==
    /\ CardKinds \subseteq Kinds /\ {"SIM1", "SIM2"} \subseteq SimCards
    /\ Languages \cap {"null", "", "file"} = {}
    /\ DOMAIN Defaults \subseteq Types
    /\ RINGTONE_PRELOAD_CONF_COUNT \in Nat

ESims == {"ESIM1", "ESIM2"}

(* A row of ToneFiles: to what ToneSettings knows of it come the place of its file, its       *)
(* title and the language the title is in, and whether its mime and media type are known.     *)
Places == {"preset", "old", "new", "misplaced"}
Title == Languages \cup {"file"}
Mark == Languages \cup {"null", ""}
Tone == [source : {"preset", "customised"}, on : [Kinds -> SUBSET AllSlots], by : [Kinds -> Sources],
         place : Places, title : Title, mark : Mark, mime : BOOLEAN, media : BOOLEAN]

(* A row of SimCardSetting: vibrate_mode 1 is what VibrateModeIsNull takes for a value.      *)
SimTypes == {"shot", "ring", "vibShot", "vibRing"}
SimRow == [tone : Paths \cup {""}, vibrate : {"", "std"}, mode : {"null", "one", "other"}, ring : {"none", "sync"}]
EmptySim == [tone |-> "", vibrate |-> "", mode |-> "null", ring |-> "none"]
SimKeys == ((SimCards \cup {"device"}) \X {"shot", "ring"}) \cup (SimCards \X {"vibShot", "vibRing"})
            \cup {"device"} \X {"alarm", "notification", "vibAlarm", "vibNotification"}

(* legacy: the tones card 2 has had since the upgrade; ever: those that were card 2's, or an  *)
(* eSIM's by a choice of the user's, at some time; chosen: <<kind, card>> of the choices; was: *)
(* card 2's rows of SimCardSetting at the upgrade; runs: migrations begun; torn: the last one *)
(* died; late: a scan outlasted the wait for it; unsaved: tones whose move was not noted.     *)
NoHistory == [legacy |-> {}, ever |-> {}, chosen |-> {}, was |-> <<>>, runs |-> 0, torn |-> FALSE,
              late |-> FALSE, unsaved |-> {}]

NoDb == [version |-> 0, schema |-> {}, rows |-> <<>>, conf |-> <<>>, sims |-> <<>>, vibrations |-> <<>>]
NoWork == [open |-> "el1", todo |-> <<>>, left |-> {}, all |-> TRUE, language |-> ""]
NoScan == [phase |-> "idle", buffer |-> [rows |-> <<>>, vibrations |-> <<>>], cache |-> {}, presets |-> <<>>,
           todo |-> {}]

Init ==
    /\ job \in Jobs
    /\ dbs = [el1 |-> job.el1, el2 |-> job.el2]
    /\ prefs = [completed |-> job.completed, initScanner |-> job.initScanner, eSimTime |-> "none"]
    /\ first = job.first
    /\ known = job.first
    /\ files = job.files
    /\ folder = job.folder
    /\ phase = "off"
    /\ work = NoWork
    /\ scan = NoScan
    /\ clients = [c \in Clients |-> <<>>]
    /\ history = NoHistory
    /\ failures = 0
    /\ crashes = 0

rows == dbs.el1.rows

-----------------------------------------------------------------------------
(* Faults *)

Fails == failures < job.failures /\ failures' = failures + 1

(* The process is gone, with its memory; the system may have gone with it, and then so have  *)
(* its parameters.                                                                           *)
Dies ==
    /\ crashes < job.crashes
    /\ crashes' = crashes + 1
    /\ phase' = "off"
    /\ work' = NoWork
    /\ scan' = NoScan
    /\ clients' = [c \in Clients |-> <<>>]
    /\ history' = [history EXCEPT !.torn = @ \/ \E c \in Clients : clients[c] # <<>>]
    /\ \E reboot \in {FALSE, job.reboots} :
        /\ first' = (first /\ ~reboot)
        /\ known' = (known /\ ~reboot)

Crash ==
    /\ phase # "off"
    /\ Dies
    /\ UNCHANGED <<job, dbs, prefs, files, folder, failures>>

(* What a step of OnStart leaves alone. *)
Calm == UNCHANGED <<job, first, known, others, crashes>>

(* How a statement or a loop ends: it is done, or it is not, because something failed or the  *)
(* process died.                                                                             *)
Ends(done, next, memory) ==
    \/ /\ \/ done /\ UNCHANGED failures
          \/ ~done /\ Fails
       /\ phase' = next
       /\ work' = memory
       /\ UNCHANGED <<first, known, others, crashes>>
    \/ /\ ~done
       /\ Dies
       /\ UNCHANGED failures
=============================================================================
