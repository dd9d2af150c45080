------------------------------- MODULE Startup -------------------------------
(***************************************************************************)
(* main of the supervisor: the configuration is loaded, the database is    *)
(* migrated, the supervisor serves and watches its configuration.  It      *)
(* composes Migration with ConfigReload: the migration lies between the    *)
(* load of the configuration and the first look watchConfig takes at the   *)
(* file, so however long it takes, an edit in that time is not noticed.    *)
(***************************************************************************)
EXTENDS Migration, ConfigReload

svars == <<mvars, fvars>>

SInit == MInit /\ FInit

Start == LoadConfig /\ Open("server")

\* supervisor -migrate-only
StartTool == Valid(file.text) /\ Open("tool") /\ UNCHANGED fvars

ServerStep == (MigrationStep("server") \/ Initialise) /\ UNCHANGED fvars

ToolStep == MigrationStep("tool") /\ UNCHANGED fvars

StartServing == Serves /\ StartWatching

Watching == WatchStep /\ UNCHANGED mvars

\* log.Fatal when the database cannot be migrated or opened, and any other end.
ServerFatal == NoSuchColumn("server") /\ StopWatching

ServerEnds == (Busy("server") \/ Fails("server")) /\ StopWatching

ToolEnds == (NoSuchColumn("tool") \/ Busy("tool") \/ Fails("tool")) /\ UNCHANGED fvars

Operator == Edit /\ UNCHANGED mvars

Report == Save /\ UNCHANGED fvars

\* log.Fatalf before anything happens: the configuration is invalid.
Refused(p) == Stopped(p) /\ ~Valid(file.text) /\ UNCHANGED svars

SNext ==
    \/ Start \/ ServerStep \/ StartServing \/ Watching \/ ServerFatal \/ ServerEnds
    \/ StartTool \/ ToolStep \/ ToolEnds
    \/ Operator \/ Report \/ \E p \in Processes : Refused(p)

\* A running process goes on, the ticker ticks, what ends is started again (the
\* repository has no unit file: it is the operator's service manager), and a save that
\* has begun is finished.  Nothing obliges an operator to run the tool.
Fairness ==
    /\ WF_svars(Start) /\ WF_svars(ServerStep) /\ WF_svars(StartServing)
    /\ WF_svars(ServerFatal) /\ WF_svars(Watching)
    /\ WF_svars(ToolStep) /\ WF_svars(ToolEnds)
    /\ WF_svars(FinishSave /\ UNCHANGED mvars)

SSpec == SInit /\ [][SNext]_svars /\ Fairness
----------------------------------------------------------------------------
(* Properties. *)

\* Whatever database it finds and wherever it or the tool is interrupted, the supervisor
\* ends up serving for ever, unless its configuration stays invalid: an interrupted
\* migration leaves nothing that stops the next one.
EventuallyServes ==
    (<>[]Valid(file.text)) => <>[]At("server", "serving")
=============================================================================
