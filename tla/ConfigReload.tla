---------------------------- MODULE ConfigReload ----------------------------
(***************************************************************************)
(* The configuration file of the supervisor: config.Load and               *)
(* validateSupervisorConfig in main, and watchConfig, which looks at the   *)
(* file every five seconds and applies what may change while the           *)
(* supervisor runs.  The operator saves the file in one step (a rename) or *)
(* in place, where it is half written for a while.                         *)
(*                                                                         *)
(* A text stands for the configuration Load makes of it, the defaults      *)
(* included: the fields that are applied while the supervisor runs (live)  *)
(* and those that need a restart (fixed); a text that Load or the          *)
(* validation rejects has live = "invalid".                                *)
(***************************************************************************)
EXTENDS Integers

CONSTANTS
    Saved,      \* bound: the texts the operator saves
    Partial,    \* bound: what may be in the file while it is half written
    MaxEdits    \* bound: saves

VARIABLES
    file,     \* its text, and its stamp: modification time and size
    saving,   \* the texts that are being written: one or none
    watch,    \* watchConfig: where it is, lastMod and lastSize, and what it has loaded
    force,    \* s.cfg
    missed,   \* history: why the text of the file may stay unnoticed since the last load
    edits     \* bound: saves

fvars == <<file, saving, watch, force, missed, edits>>

Valid(text) == text.live # "invalid"

Unwatched == [at |-> "off", stamp |-> 0, loaded |-> {}]

FInit ==
    /\ \E text \in Saved : file = [text |-> text, stamp |-> 0] /\ force = text
    /\ saving = {}
    /\ watch = Unwatched
    /\ missed = {} /\ edits = 0
----------------------------------------------------------------------------
(* The operator. *)

\* The file is replaced, by one of another time or size or of the same.
Replace(text) ==
    /\ saving = {} /\ edits < MaxEdits
    /\ edits' = edits + 1
    /\ \E stamp \in {file.stamp, file.stamp + 1} :
          /\ file' = [text |-> text, stamp |-> stamp]
          /\ missed' = IF stamp = file.stamp THEN missed \cup {"same stamp"} ELSE missed
    /\ UNCHANGED <<saving, watch, force>>

BeginSave(text) ==
    /\ saving = {} /\ edits < MaxEdits
    /\ edits' = edits + 1
    /\ saving' = {text}
    /\ \E part \in Partial : file' = [text |-> part, stamp |-> file.stamp + 1]
    /\ UNCHANGED <<watch, force, missed>>

FinishSave ==
    /\ \E text \in saving : file' = [text |-> text, stamp |-> file.stamp + 1]
    /\ saving' = {}
    /\ UNCHANGED <<watch, force, missed, edits>>

Edit == (\E text \in Saved : Replace(text) \/ BeginSave(text)) \/ FinishSave
----------------------------------------------------------------------------
(* The supervisor. *)

\* main: Load and validateSupervisorConfig.
LoadConfig ==
    /\ Valid(file.text)
    /\ force' = file.text
    /\ watch' = [Unwatched EXCEPT !.at = "main"]
    /\ missed' = {}
    /\ UNCHANGED <<file, saving, edits>>

\* go s.watchConfig
StartWatching ==
    /\ watch.at = "main"
    /\ watch' = [watch EXCEPT !.at = "first"]
    /\ UNCHANGED <<file, saving, force, missed, edits>>

\* The first look at the file only remembers it: what was saved since main loaded it
\* stays unnoticed.
FirstStat ==
    /\ watch.at = "first"
    /\ watch' = [watch EXCEPT !.at = "idle", !.stamp = file.stamp]
    /\ missed' = IF file.text = force THEN missed ELSE missed \cup {"before the first look"}
    /\ UNCHANGED <<file, saving, force, edits>>

FirstStatFails ==
    /\ watch.at = "first"
    /\ watch' = [watch EXCEPT !.at = "disabled"]
    /\ missed' = missed \cup {"disabled"}
    /\ UNCHANGED <<file, saving, force, edits>>

\* The ticker; a Stat that fails changes nothing.
Tick ==
    /\ watch.at = "idle"
    /\ watch' = IF watch.stamp = file.stamp THEN watch
                ELSE [watch EXCEPT !.at = "changed", !.stamp = file.stamp]
    /\ UNCHANGED <<file, saving, force, missed, edits>>

\* Load and validate: the file may have changed since the Stat.
Reload ==
    /\ watch.at = "changed"
    /\ watch' = IF Valid(file.text)
                THEN [watch EXCEPT !.at = "loaded", !.loaded = {file.text}]
                ELSE [watch EXCEPT !.at = "idle"]
    /\ missed' = {}
    /\ UNCHANGED <<file, saving, force, edits>>

\* The file cannot be read now, and is not read again before it changes.
ReloadFails ==
    /\ watch.at = "changed"
    /\ watch' = [watch EXCEPT !.at = "idle"]
    /\ missed' = missed \cup {"not read"}
    /\ UNCHANGED <<file, saving, force, edits>>

\* Faulty variant of Apply: the file is looked at again after it has been loaded.
ApplyThenStat ==
    /\ watch.at = "loaded"
    /\ \E text \in watch.loaded : force' = [text EXCEPT !.fixed = force.fixed]
    /\ watch' = [watch EXCEPT !.at = "idle", !.loaded = {}, !.stamp = file.stamp]
    /\ UNCHANGED <<file, saving, missed, edits>>

\* applyReloadedConfig.  The clearing of the results cache and the refresh that follow
\* are in Retention and ResultsCache.
Apply ==
    /\ watch.at = "loaded"
    /\ \E text \in watch.loaded : force' = [text EXCEPT !.fixed = force.fixed]
    /\ watch' = [watch EXCEPT !.at = "idle", !.loaded = {}]
    /\ UNCHANGED <<file, saving, missed, edits>>

StopWatching ==
    /\ watch' = Unwatched
    /\ UNCHANGED <<file, saving, force, missed, edits>>

WatchStep == FirstStat \/ FirstStatFails \/ Tick \/ Reload \/ ReloadFails \/ Apply
----------------------------------------------------------------------------
(* Properties. *)

\* README.md:66, "the supervisor checks the configuration file every 5 seconds", with what
\* the code makes of it: once the operator leaves the file alone, the supervisor has its
\* live fields in force for ever, unless the last save was missed for one of the causes in
\* missed (or the file is invalid: then the last valid one stays in force).
CatchesUp ==
    <>[](/\ watch.at \in {"idle", "changed", "loaded", "disabled"}
         /\ Valid(file.text) /\ missed = {}
         => force.live = file.text.live)
=============================================================================
