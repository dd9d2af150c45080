--------------------------- MODULE DashboardData ---------------------------
(***************************************************************************)
(* dashboardResultsData: the rows of a range are streamed and, whenever    *)
(* twice MaxPoints of them have gathered, aggregated in memory, so that    *)
(* the answer is a chart of at most MaxPoints points however many rows     *)
(* the tables hold.                                                        *)
(*                                                                         *)
(* It composes the stream with the aggregation its callback performs.      *)
(***************************************************************************)
EXTENDS StreamWindows, ChartAggregation

VARIABLES
    memory,     \* the rows and points gathered so far
    fed,        \* history: the probes of each series in the rows delivered
    answered,   \* the answer is written, from memory
    disturbed   \* history: rows were aggregated that are not Regular

chartVars == <<memory, fed, answered, disturbed>>
dvars == <<wvars, chartVars>>

DInit ==
    /\ WInit
    /\ memory = <<>>
    /\ fed = [s \in Series |-> 0]
    /\ answered = FALSE /\ disturbed = FALSE

DAsk == SomeAsk /\ UNCHANGED chartVars

\* What aggregateSingleSeries and its caller rely on: a point for every series, and each
\* series newest first and with a row after the start of the range.
Regular(list) ==
    /\ Cardinality(SeriesIn(list)) <= MaxPoints
    /\ \A i, j \in DOMAIN list :
         i < j /\ list[i].series = list[j].series => list[i].at >= list[j].at
    /\ \A s \in SeriesIn(list) : \E i \in Positions(s, list) : list[i].at > query.since

\* What the callback receives for a page, and what one row counts.
Fetched(P) ==
    LET list == Listing(P, {p \in P \X P : Precedes(p[1], p[2])})
    IN  [i \in DOMAIN list |-> [at |-> list[i].at, series |-> list[i].series, n |-> 1]]

\* Faulty variant of Gather: one row more.
GatherMore(list, r) ==
    LET more == Append(list, r)
    IN  IF Len(more) > 2 * MaxPoints THEN AggregateRows(more, query.since) ELSE more

\* The callback.
Gather(list, r) ==
    LET more == Append(list, r)
    IN  IF Len(more) >= 2 * MaxPoints THEN AggregateRows(more, query.since) ELSE more

\* The memory after each of the rows.
Gathered(list) ==
    LET after[i \in 0 .. Len(list)] ==
            IF i = 0 THEN memory ELSE Gather(after[i - 1], list[i])
    IN  after

\* One of the rows completes a list that is aggregated and is not Regular.
Disturbs(list) ==
    \E i \in 1 .. Len(list) :
        LET more == Append(Gathered(list)[i - 1], list[i])
        IN  Len(more) >= 2 * MaxPoints /\ ~Regular(more)

DReadPage(P) ==
    /\ ReadPage(P)
    /\ memory' = Gathered(Fetched(P))[Cardinality(P)]
    /\ fed' = [s \in Series |-> fed[s] + Cardinality({p \in P : p.series = s})]
    /\ disturbed' = (disturbed \/ Disturbs(Fetched(P)))
    /\ UNCHANGED answered

\* The stream has ended: the last aggregation, and the answer.
Answer ==
    /\ query.table = "done" /\ ~answered
    /\ memory' = AggregateRows(memory, query.since)
    /\ answered' = TRUE
    /\ disturbed' = (disturbed \/ (Len(memory) > MaxPoints /\ ~Regular(memory)))
    /\ UNCHANGED <<wvars, fed>>

DChange == TablesChange /\ UNCHANGED chartVars

DNext ==
    \/ DAsk \/ Answer \/ DChange
    \/ \E P \in SUBSET Eligible : DReadPage(P)

DSpec == DInit /\ [][DNext]_dvars
----------------------------------------------------------------------------
(* Properties. *)

\* The memory never reaches twice MaxPoints rows, and the answer has at most MaxPoints.
Bounded ==
    /\ Len(memory) < 2 * MaxPoints
    /\ answered => Len(memory) <= MaxPoints

\* Aggregating again and again loses no probe and counts none twice: at every moment the
\* memory, and in the end the answer, has for each series the probes of the rows that were
\* streamed.
Conserved ==
    ~disturbed => \A s \in Series :
        Tally([i \in Positions(s, memory) |-> memory[i].n]) = fed[s]

\* The instants at which series s was delivered.
Times(s) == {r.at : r \in {q \in got \cup page : q.series = s}}

\* The series delivered.
Streamed == {r.series : r \in got \cup page}

\* dashboard_stream.go:101: every series keeps enough points to be drawn, a point if it
\* has a row and points at two instants if there is room and it has rows at two.
EverySeriesDrawn ==
    ~disturbed => \A s \in Series :
        Cardinality({memory[i].at : i \in Positions(s, memory)}) >=
            Lesser(Cardinality(Times(s)), IF 2 * Cardinality(Streamed) <= MaxPoints THEN 2 ELSE 1)
============================================================================
