--------------------------- MODULE StreamWindows ---------------------------
(***************************************************************************)
(* StreamResultsSince and StreamResultsSinceCompacted: the rows of a time  *)
(* range, newest first, read in time windows and, inside a window, in      *)
(* pages that begin after the last row of the page before.  Every page is  *)
(* a query of its own, so reports, cleanings and deletions come between.   *)
(*                                                                         *)
(* A tick is half a second, as in Retention: even instants are whole       *)
(* seconds, odd ones have a fraction, and SQLite compares the texts.  The  *)
(* bounds of a range come from several readings of the clock, so their     *)
(* fractions differ.  The nanosecond added to the end is left out.         *)
(*                                                                         *)
(* A behaviour has one query; what came before it is in Contents.          *)
(***************************************************************************)
EXTENDS Integers, FiniteSets

CONSTANTS
    Series,      \* the series; each belongs to an agent of its own
    Window,      \* streamQueryWindow
    PageSize,    \* maxResultsPerWindow
    RawAge,      \* raw_retention_days
    Ranges,      \* the lengths a dashboard asks for
    Contents,    \* bound: what the tables may hold at first
    Instants,    \* bound: the times of rows
    Clock,       \* bound: when the query is asked
    Asked,       \* bound: the series it may be about, all or those of one agent
    MaxChanges,  \* bound: changes of the tables during a query
    Crowd        \* bound: tables with more rows do not change

Row == [table : {"raw", "rolled"}, at : Int, id : Nat \ {0}, series : Series]

\* bucket_start is a whole second (strftime without a fraction); id is the primary key.
TableType(t) ==
    /\ t \subseteq Row
    /\ \A r \in t : r.table = "rolled" => r.at % 2 = 0
    /\ \A r, q \in t : r.table = q.table /\ r.id = q.id => r = q

ASSUME StreamAssumption ==
    /\ Window \in Nat \ {0} /\ Window % 2 = 0
    /\ PageSize \in Nat \ {0} /\ MaxChanges \in Nat /\ Crowd \in Nat
    /\ RawAge \in Nat \ {0} /\ Ranges \subseteq Nat \ {0}
    /\ Instants \subseteq Nat /\ Clock \subseteq Nat /\ Asked \subseteq SUBSET Series
    /\ \A t \in Contents : TableType(t) /\ IsFiniteSet(t)

VARIABLES
    rows,     \* the tables results and result_rollups
    query,    \* the query under way: the table it reads, its agents, the bounds of the range,
              \* the end of the window it reads and the last row it has read there
    page,     \* the rows of the page read last
    got,      \* the rows of the pages before
    stayed,   \* history: rows that have been in the tables since the query began
    changes   \* bound: changes of the tables since then

streamVars == <<query, page, got>>
wvars == <<rows, streamVars, stayed, changes>>

Second(t) == t \div 2

\* t < c, as SQLite compares the two texts: "10:00:00.5Z" comes before "10:00:00Z".
TextBefore(t, c) ==
    \/ Second(t) < Second(c)
    \/ Second(t) = Second(c) /\ t % 2 = 1 /\ c % 2 = 0

\* ORDER BY checked_at DESC, id DESC: r comes before q.
Precedes(r, q) == TextBefore(q.at, r.at) \/ (q.at = r.at /\ q.id < r.id)

NoQuery == [table |-> "none", of |-> {}, since |-> 0, cutoff |-> 0, end |-> 0,
            before |-> 0, cursor |-> {}]

WInit ==
    /\ rows \in Contents
    /\ query = NoQuery /\ page = {} /\ got = {}
    /\ stayed = {} /\ changes = 0
----------------------------------------------------------------------------
(* The query. *)

\* The range goes back to the rollups.
Long == query.since < query.cutoff

\* The lower end of what is read from the present table.
Floor == IF query.table = "raw" /\ Long THEN query.cutoff ELSE query.since

\* The window is [Start, query.before).
Start == IF query.before - Window < Floor THEN Floor ELSE query.before - Window

\* dashboardResultsData and streamResultsSince: the clock is read for since, for the
\* raw cutoff and for the end, in this order.
Ask(now, range, of) ==
    /\ query.table = "none"
    /\ \E cutoff \in {now, now + 1}, end \in {now, now + 1} :
          /\ cutoff <= end
          /\ query' = [NoQuery EXCEPT !.table = "raw", !.of = of, !.since = now - range,
                        !.cutoff = cutoff - RawAge, !.end = end, !.before = end]
    /\ stayed' = rows
    /\ changes' = 0
    /\ UNCHANGED <<rows, page, got>>

\* Faulty variant of Eligible: the cursor is the time alone.
EligibleByTime ==
    {r \in rows :
        /\ r.table = query.table /\ r.series \in query.of
        /\ ~TextBefore(r.at, Start) /\ TextBefore(r.at, query.before)
        /\ \A c \in query.cursor : TextBefore(r.at, c.at)}

\* Faulty variant of Eligible: the windows overlap.
EligibleToEnd ==
    {r \in rows :
        /\ r.table = query.table /\ r.series \in query.of
        /\ ~TextBefore(r.at, Start) /\ ~TextBefore(query.before, r.at)
        /\ \A c \in query.cursor : Precedes(c, r)}

\* The WHERE clause of the page.
Eligible ==
    {r \in rows :
        /\ r.table = query.table /\ r.series \in query.of
        /\ ~TextBefore(r.at, Start) /\ TextBefore(r.at, query.before)
        /\ \A c \in query.cursor : Precedes(c, r)}

\* ORDER BY ... LIMIT: the first rows of those, at most PageSize.
ReadRows(P) ==
    /\ P \subseteq Eligible
    /\ \A p \in P, r \in Eligible \ P : Precedes(p, r)
    /\ page' = P
    /\ got' = got \cup page

Full(P) == Cardinality(P) = PageSize

Short(P) == Cardinality(P) < PageSize /\ P = Eligible

\* A full page: the next one begins after its last row.
NextPage(P) ==
    /\ Full(P)
    /\ query' = [query EXCEPT !.cursor = {p \in P : \A r \in P : r = p \/ Precedes(r, p)}]

\* Faulty variant of NextWindow: the cursor of the former window stays.
NextWindowKeepsCursor(P) ==
    /\ Short(P)
    /\ Start > Floor
    /\ query' = [query EXCEPT !.before = Start]

NextWindow(P) ==
    /\ Short(P)
    /\ Start > Floor
    /\ query' = [query EXCEPT !.before = Start, !.cursor = {}]

\* The raw rows are read: on to the rollups before the cutoff.
NextTable(P) ==
    /\ Short(P)
    /\ Start = Floor
    /\ query.table = "raw" /\ Long
    /\ query' = [query EXCEPT !.table = "rolled", !.before = query.cutoff, !.cursor = {}]

Finish(P) ==
    /\ Short(P)
    /\ Start = Floor
    /\ query.table = "raw" => ~Long
    /\ query' = [query EXCEPT !.table = "done", !.cursor = {}]

ReadPage(P) ==
    /\ query.table \in {"raw", "rolled"}
    /\ ReadRows(P)
    /\ NextPage(P) \/ NextWindow(P) \/ NextTable(P) \/ Finish(P)
    /\ UNCHANGED <<rows, stayed, changes>>
----------------------------------------------------------------------------
(* The others: what they did before the query is in Contents. *)

Change ==
    /\ query.table \in {"raw", "rolled"}
    /\ changes < MaxChanges /\ Cardinality(rows) <= Crowd
    /\ changes' = changes + 1
    /\ stayed' = stayed \cap rows'
    /\ UNCHANGED streamVars

\* rowid: one more than the largest id of the table, and 1 in an empty one.
NewIds(table) ==
    LET ids == {r.id : r \in {q \in rows : q.table = table}}
    IN  {n \in {1} \cup {i + 1 : i \in ids} : \A i \in ids : i < n}

\* SaveResults, or RollupBefore: a row more.
Insert(table, t, s) ==
    /\ \E id \in NewIds(table) :
          rows' = rows \cup {[table |-> table, at |-> t, id |-> id, series |-> s]}
    /\ table = "rolled" => t % 2 = 0
    /\ Change

\* DeleteAgent: the rows of its series, in both tables.
DeleteAgent(s) ==
    /\ rows' = {r \in rows : r.series # s}
    /\ Change

\* DeleteBefore, or DeleteRollupsBefore.
Expire(table, t) ==
    /\ rows' = {r \in rows : r.table = table => ~TextBefore(r.at, t)}
    /\ Change

TablesChange ==
    \/ \E table \in {"raw", "rolled"}, t \in Instants :
          Expire(table, t) \/ \E s \in Series : Insert(table, t, s)
    \/ \E s \in Series : DeleteAgent(s)

SomeAsk ==
    \E now \in Clock, range \in Ranges, of \in Asked : Ask(now, range, of)

WNext ==
    \/ SomeAsk \/ TablesChange
    \/ \E P \in SUBSET Eligible : ReadPage(P)

WSpec == WInit /\ [][WNext]_wvars
----------------------------------------------------------------------------
(* Properties. *)

\* Every variable has its type; a cursor is a row of the window it stands in.
WTypeOK ==
    /\ TableType(rows) /\ IsFiniteSet(rows)
    /\ query.table \in {"none", "raw", "rolled", "done"} /\ query.of \subseteq Series
    /\ {query.since, query.cutoff, query.end, query.before} \subseteq Int
    /\ query.cursor \subseteq Row /\ Cardinality(query.cursor) <= 1
    /\ \A c \in query.cursor : ~TextBefore(c.at, Start) /\ TextBefore(c.at, query.before)
    /\ page \subseteq Row /\ got \subseteq Row /\ stayed \subseteq rows
    /\ changes \in 0 .. MaxChanges

\* The pages descend: each row of a page comes after every row delivered before it.  So
\* no row is delivered twice and the order across pages, windows and tables is newest
\* first up to the second, whatever is inserted and deleted between two pages
\* (aggregateSingleSeries relies on the order).
PagesDescend ==
    \A r \in got, p \in page :
        \/ r.table = p.table /\ Precedes(r, p)
        \/ r.table = "raw" /\ p.table = "rolled" /\ Second(p.at) < Second(r.at)

\* The range asked for, as text: raw rows from the cutoff on and rollups before it, or
\* raw rows only.
InRange(r) ==
    /\ r.series \in query.of
    /\ IF r.table = "raw"
       THEN /\ ~TextBefore(r.at, IF Long THEN query.cutoff ELSE query.since)
            /\ TextBefore(r.at, query.end)
       ELSE Long /\ ~TextBefore(r.at, query.since) /\ TextBefore(r.at, query.cutoff)

\* A row that is in its table while the query runs and lies in the range is delivered:
\* neither the windows nor the pages lose one.
NoneSkipped ==
    query.table = "done" => \A r \in stayed : InRange(r) => r \in got \cup page
============================================================================
