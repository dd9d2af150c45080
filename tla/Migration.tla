------------------------------ MODULE Migration ------------------------------
(***************************************************************************)
(* MigrateSQLiteDB and SQLiteStore.init: a starting supervisor brings the  *)
(* database to the present schema before it serves, and an operator may    *)
(* run `supervisor -migrate-only` on the same file at the same time.  The  *)
(* schema is inspected before the transaction that changes it begins; a    *)
(* process may die, and a statement may fail, at any point.                *)
(*                                                                         *)
(* A row keeps its id and names its series by agent, target and address    *)
(* (together: a name) and by agent_ip, which the former schemas let be     *)
(* NULL (labels are treated alike).  The UNIQUE constraint makes the id of *)
(* a series and these columns one-to-one, so the id is left out            *)
(* (SeriesStore has it).                                                   *)
(***************************************************************************)
EXTENDS Integers, Sequences

CONSTANTS
    Names,       \* agent, target and address of a series
    Addresses,   \* the agent addresses there are
    Found,       \* bound: the databases a supervisor may find
    NewKey,      \* bound: the series of what it saves
    MaxFaults,   \* bound: crashes and failed statements
    MaxSaves     \* bound: results saved

Tables == {"results", "rollups"}
Processes == {"server", "tool"}

\* The columns that name a series.
Keys == [name : Names, ip : Addresses \cup {"null", "empty"}]
Rows == [id : Nat, key : Keys]

\* No table; one without agent_ip; one with the columns of the series; one with series_id.
Forms == {"none", "noip", "old", "new"}
Table == [form : Forms, rows : SUBSET Rows]
Database ==
    [table : [Tables -> Table], fresh : [Tables -> Table], series : SUBSET Keys, agents : BOOLEAN]

\* COALESCE(agent_ip, '')
Normal(key) == IF key.ip = "null" THEN [key EXCEPT !.ip = "empty"] ELSE key

Absent == [form |-> "none", rows |-> {}]
Created == [form |-> "new", rows |-> {}]

\* A database in a former schema or the present one: nothing half built is left in it (a
\* transaction builds it), a row of a table with series_id has its series (the store has
\* foreign keys on), and what the supervisor saves has an agent_ip.
ASSUME MigrationAssumption ==
    /\ MaxFaults \in Nat /\ MaxSaves \in Nat
    /\ NewKey \in Keys /\ NewKey.ip # "null"
    /\ Found \subseteq Database
    /\ \A d \in Found, t \in Tables :
          /\ d.fresh[t] = Absent
          /\ d.table[t].form = "none" => d.table[t].rows = {}
          /\ d.table[t].form = "new" => \A r \in d.table[t].rows : r.key \in d.series

VARIABLES
    db,        \* the database file: the tables and those being built, the series, and
               \* whether there is a table agent_statuses
    work,      \* the database as the open transaction sees it: none or one
    holder,    \* the process that has the write lock, or "none"
    proc,      \* each process: where it is, what it found stale, whether it found
               \* agent_statuses, and the statements it has left
    expected,  \* history: the rows each table must hold, normalised
    faults,    \* bound: crashes and failed statements
    saves      \* bound: results saved

mvars == <<db, work, holder, proc, expected, faults, saves>>

Off == [at |-> "off", stale |-> {}, agents |-> FALSE, todo |-> <<>>]

Normalised(rows) == {[r EXCEPT !.key = Normal(@)] : r \in rows}

MInit ==
    /\ db \in Found
    /\ work = {}
    /\ holder = "none"
    /\ proc = [p \in Processes |-> Off]
    /\ expected = [t \in Tables |-> Normalised(db.table[t].rows)]
    /\ faults = 0 /\ saves = 0

At(p, place) == proc[p].at = place

\* Only the process moves.
Moves(p, to) ==
    /\ proc' = [proc EXCEPT ![p] = to]
    /\ UNCHANGED <<expected, faults, saves>>
----------------------------------------------------------------------------
(* The inspection, one query at a time. *)

Stopped(p) == At(p, "off") \/ At(p, "done")

Open(p) ==
    /\ Stopped(p)
    /\ Moves(p, [Off EXCEPT !.at = "agents"])
    /\ UNCHANGED <<db, work, holder>>

\* hasTable(db, "agent_statuses")
CheckAgents(p) ==
    /\ At(p, "agents")
    /\ Moves(p, [proc[p] EXCEPT !.at = "results", !.agents = db.agents])
    /\ UNCHANGED <<db, work, holder>>

\* hasColumn(db, table, "agent")
CheckTable(p, t) ==
    /\ At(p, t)
    /\ Moves(p, [proc[p] EXCEPT
                   !.at = IF t = "results" THEN "rollups" ELSE "checked",
                   !.stale = IF db.table[t].form \in {"noip", "old"} THEN @ \cup {t} ELSE @])
    /\ UNCHANGED <<db, work, holder>>

UpToDate(p) == proc[p].stale = {} /\ proc[p].agents

\* The statements for a table, and those of the transaction.  What they do to
\* sqlite_sequence and to the indexes is left out.
Rebuild(t) == <<<<"fill", t>>, <<"create", t>>, <<"copy", t>>, <<"drop", t>>, <<"rename", t>>>>

AddMissingIP(stale, hasIP) ==
    IF "results" \in stale /\ ~hasIP THEN <<<<"add_ip", "results">>>> ELSE <<>>

AddStatuses(agents) == IF agents THEN <<>> ELSE <<<<"agents", "results">>>>

\* Faulty variant of Program: one table is rebuilt.
ProgramOneTable(stale, agents, hasIP) ==
    AddMissingIP(stale, hasIP)
    \o (IF "results" \in stale THEN Rebuild("results")
        ELSE IF "rollups" \in stale THEN Rebuild("rollups") ELSE <<>>)
    \o AddStatuses(agents)

Program(stale, agents, hasIP) ==
    AddMissingIP(stale, hasIP)
    \o (IF "results" \in stale THEN Rebuild("results") ELSE <<>>)
    \o (IF "rollups" \in stale THEN Rebuild("rollups") ELSE <<>>)
    \o AddStatuses(agents)

\* The transaction is deferred: it has the lock from its first write on, and that write
\* fails (Busy) if another process has committed since its first read.
Begin(p) ==
    /\ At(p, "checked") /\ ~UpToDate(p)
    /\ holder = "none"
    /\ holder' = p /\ work' = {db}
    /\ Moves(p, [Off EXCEPT !.at = "tx",
                   !.todo = Program(proc[p].stale, proc[p].agents, db.table["results"].form = "old")])
    /\ UNCHANGED db

\* init: the statements CREATE TABLE IF NOT EXISTS; the tool exits.
After(p) ==
    IF p = "server"
    THEN [Off EXCEPT !.at = "create",
            !.todo = <<<<"create", "results">>, <<"create", "rollups">>, <<"agents", "results">>>>]
    ELSE [Off EXCEPT !.at = "done"]

Current(p) ==
    /\ At(p, "checked") /\ UpToDate(p)
    /\ Moves(p, After(p))
    /\ UNCHANGED <<db, work, holder>>
----------------------------------------------------------------------------
(* The transaction. *)

\* p executes its next statement; then the transaction sees what is in after.
Executes(p, statement, after) ==
    /\ At(p, "tx") /\ proc[p].todo # <<>>
    /\ Head(proc[p].todo) = statement
    /\ work' = after
    /\ Moves(p, [proc[p] EXCEPT !.todo = Tail(@)])
    /\ UNCHANGED <<db, holder>>

\* ALTER TABLE results ADD COLUMN agent_ip: NULL in every row.
AddIP(p) ==
    Executes(p, <<"add_ip", "results">>,
        {[w EXCEPT !.table["results"].form = IF @ = "noip" THEN "old" ELSE @] : w \in work})

HasColumns(t) == \A w \in work : w.table[t].form = "old"

\* INSERT OR IGNORE INTO result_series SELECT DISTINCT ...
FillSeries(p, t) ==
    /\ HasColumns(t)
    /\ Executes(p, <<"fill", t>>,
           {[w EXCEPT !.series = @ \cup {Normal(r.key) : r \in w.table[t].rows}] : w \in work})

CreateNew(p, t) ==
    /\ \A w \in work : w.fresh[t] = Absent
    /\ Executes(p, <<"create", t>>, {[w EXCEPT !.fresh[t] = Created] : w \in work})

\* Faulty variant of Joined: NULL equals nothing.
JoinedRaw(rows, series) == {r \in rows : r.key \in series}

\* FROM results r JOIN result_series rs ON ...
Joined(rows, series) ==
    {[id |-> x[1].id, key |-> x[2]] : x \in {y \in rows \X series : y[2] = Normal(y[1].key)}}

Copy(p, t) ==
    Executes(p, <<"copy", t>>,
        {[w EXCEPT !.fresh[t].rows = Joined(w.table[t].rows, w.series)] : w \in work})

Drop(p, t) ==
    Executes(p, <<"drop", t>>, {[w EXCEPT !.table[t] = Absent] : w \in work})

Rename(p, t) ==
    Executes(p, <<"rename", t>>,
        {[w EXCEPT !.table[t] = w.fresh[t], !.fresh[t] = Absent] : w \in work})

CreateAgents(p) ==
    Executes(p, <<"agents", "results">>, {[w EXCEPT !.agents = TRUE] : w \in work})

Commit(p) ==
    /\ At(p, "tx") /\ proc[p].todo = <<>>
    /\ db' \in work
    /\ work' = {} /\ holder' = "none"
    /\ Moves(p, After(p))

\* Faulty variant of Dies: the statements are no transaction, what was done stays.
DiesHalfWay(p) ==
    /\ proc' = [proc EXCEPT ![p] = Off]
    /\ IF holder = p THEN db' \in work /\ holder' = "none" /\ work' = {}
                     ELSE UNCHANGED <<db, holder, work>>
    /\ UNCHANGED <<expected, saves>>

\* log.Fatal or the end of the process: SQLite rolls the transaction back.
Dies(p) ==
    /\ proc' = [proc EXCEPT ![p] = Off]
    /\ IF holder = p THEN holder' = "none" /\ work' = {} ELSE UNCHANGED <<holder, work>>
    /\ UNCHANGED <<db, expected, saves>>

\* No such column agent: another process has rebuilt the table since it was inspected.
NoSuchColumn(p) ==
    /\ At(p, "tx") /\ proc[p].todo # <<>>
    /\ \E t \in Tables : Head(proc[p].todo) = <<"fill", t>> /\ ~HasColumns(t)
    /\ Dies(p)
    /\ UNCHANGED faults

\* The lock is another's for longer than busy_timeout, or the tool does not wait.
Busy(p) ==
    /\ proc[p].at \in {"agents", "results", "rollups", "checked", "create"}
    /\ holder \notin {"none", p}
    /\ Dies(p)
    /\ UNCHANGED faults

\* A crash, or a statement that fails.
Fails(p) ==
    /\ ~Stopped(p)
    /\ faults < MaxFaults
    /\ faults' = faults + 1
    /\ Dies(p)
----------------------------------------------------------------------------
(* The supervisor after the migration. *)

\* CREATE TABLE IF NOT EXISTS, each statement by itself.
Creates(statement) ==
    /\ At("server", "create") /\ proc["server"].todo # <<>>
    /\ Head(proc["server"].todo) = statement
    /\ holder = "none"
    /\ Moves("server", [proc["server"] EXCEPT !.todo = Tail(@)])
    /\ UNCHANGED <<work, holder>>

CreateTable(t) ==
    /\ Creates(<<"create", t>>)
    /\ db' = [db EXCEPT !.table[t] = IF @ = Absent THEN Created ELSE @]

CreateStatuses ==
    /\ Creates(<<"agents", "results">>)
    /\ db' = [db EXCEPT !.agents = TRUE]

Serves ==
    /\ At("server", "create") /\ proc["server"].todo = <<>>
    /\ Moves("server", [Off EXCEPT !.at = "serving"])
    /\ UNCHANGED <<db, work, holder>>

\* SaveResults (SeriesStore has its steps).
Save ==
    /\ At("server", "serving") /\ holder = "none"
    /\ saves < MaxSaves
    /\ LET row == [id |-> 10 + saves, key |-> NewKey]
       IN  /\ db' = [db EXCEPT !.series = @ \cup {NewKey},
                               !.table["results"].rows = @ \cup {row}]
           /\ expected' = [expected EXCEPT !["results"] = @ \cup {row}]
    /\ saves' = saves + 1
    /\ UNCHANGED <<work, holder, proc, faults>>

Inspect(p) == CheckAgents(p) \/ (\E t \in Tables : CheckTable(p, t)) \/ Current(p) \/ Begin(p)

Execute(p) ==
    \/ AddIP(p) \/ CreateAgents(p) \/ Commit(p)
    \/ \E t \in Tables : FillSeries(p, t) \/ CreateNew(p, t) \/ Copy(p, t) \/ Drop(p, t) \/ Rename(p, t)

Initialise == (\E t \in Tables : CreateTable(t)) \/ CreateStatuses

MigrationStep(p) == Inspect(p) \/ Execute(p)
----------------------------------------------------------------------------
(* Properties. *)

\* Every measurement is in the database exactly once, under its id and the series it
\* belongs to, in every state of the file: however often a migration is interrupted,
\* repeated, or run by two processes at once.  A row of a rebuilt table names a series
\* that exists.
MeasurementsKept ==
    \A t \in Tables :
        /\ Normalised(db.table[t].rows) = expected[t]
        /\ db.table[t].form = "new" => {r.key : r \in db.table[t].rows} \subseteq db.series

\* The supervisor serves from the present schema only, and no migration undoes it.
ServesCurrentSchema ==
    At("server", "serving") =>
        db.agents /\ \A t \in Tables : db.table[t].form = "new"
=============================================================================
