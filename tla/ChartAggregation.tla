-------------------------- MODULE ChartAggregation --------------------------
(***************************************************************************)
(* The arithmetic that bounds a dashboard answer (dashboard_stream.go):    *)
(* aggregateRowsByTime shares MaxPoints points between the series of its   *)
(* rows, and aggregateSingleSeries turns the rows of one series into at    *)
(* most that many points, one for each bucket of time that holds rows.     *)
(*                                                                         *)
(* A row is a record [at, series, n].  n counts its probes; successes and  *)
(* failures are summed alike, and the latency is their weighted mean.      *)
(* Times are integers in an arbitrary unit.                                *)
(***************************************************************************)
EXTENDS Integers, Sequences, FiniteSets

CONSTANT MaxPoints   \* maxChartPoints

ASSUME ChartAssumption == MaxPoints \in Nat \ {0}

Lesser(a, b) == IF a < b THEN a ELSE b

\* The members of S in the order in which the pairs of R put one before another.
Listing(S, R) ==
    [n \in 1 .. Cardinality(S) |->
        CHOOSE x \in S : Cardinality({y \in S : <<y, x>> \in R}) = n - 1]

Ascending(S) == Listing(S, {p \in S \X S : p[1] < p[2]})

\* The sum of the numbers f[i].
Tally(f) == Cardinality(UNION {{i} \X (1 .. f[i]) : i \in DOMAIN f})

\* Where the rows of series s stand.
Positions(s, rows) == {i \in DOMAIN rows : rows[i].series = s}

SeriesIn(rows) == {rows[i].series : i \in DOMAIN rows}

\* The rows of one series, in their order.
RowsOf(s, rows) ==
    LET places == Ascending(Positions(s, rows)) IN [i \in DOMAIN places |-> rows[places[i]]]

\* The series in the order they first appear, as seriesList holds them.
SeriesList(rows) ==
    LET firsts == Ascending({i \in DOMAIN rows :
                  \A h \in 1 .. i - 1 : rows[h].series # rows[i].series})
    IN  [i \in DOMAIN firsts |-> rows[firsts[i]].series]

\* Faulty variant of Minimum: one point is enough for a series.
MinimumOne(k) == 1

\* The points every series gets if it has so many rows.
Minimum(k) == IF 2 * k <= MaxPoints THEN 2 ELSE 1

\* What the first i series have reserved, each in turn while points remain; size[i] is the
\* number of rows of series i.
Reserved(size) ==
    LET k == Len(size)
        taken[i \in 0 .. k] ==
            IF i = 0 THEN 0
            ELSE taken[i - 1] + Lesser(Lesser(Minimum(k), size[i]), MaxPoints - taken[i - 1])
    IN  taken

\* The series that gets the next point: the first of those with the most rows for each
\* point.  The code compares the quotients as floating point numbers.
Neediest(size, budget) ==
    {i \in DOMAIN size :
        /\ budget[i] < size[i]
        /\ \A j \in DOMAIN size : budget[j] < size[j] =>
              LET here == size[i] * (budget[j] + 1)
                  there == size[j] * (budget[i] + 1)
              IN  here > there \/ (here = there /\ i <= j)}

\* The budgets after each of the points that remain is granted.
Granted(size) ==
    LET taken == Reserved(size)
        granted[m \in 0 .. MaxPoints - taken[Len(size)]] ==
            IF m = 0 THEN [i \in DOMAIN size |-> taken[i] - taken[i - 1]]
            ELSE [i \in DOMAIN size |->
                    granted[m - 1][i] + IF i \in Neediest(size, granted[m - 1]) THEN 1 ELSE 0]
    IN  granted

Budgets(size) == Granted(size)[MaxPoints - Reserved(size)[Len(size)]]

\* Go rounds towards zero.
Half(d) == IF d >= 0 THEN d \div 2 ELSE -((-d) \div 2)

\* One point for the rows of a bucket: between the first and the last of them.
Point(rows, bucket) ==
    LET newest == rows[bucket.first].at
        oldest == rows[bucket.next - 1].at
    IN  [at |-> oldest + Half(newest - oldest), series |-> rows[bucket.first].series,
         n |-> Tally([i \in bucket.first .. bucket.next - 1 |-> rows[i].n])]

\* The first position from i on whose row is at t or before it.
UpTo(rows, i, t) ==
    CHOOSE j \in i .. Len(rows) + 1 :
        /\ j <= Len(rows) => rows[j].at <= t
        /\ \A h \in i .. j - 1 : rows[h].at > t

\* Faulty variant of Width: rounded down.
WidthDown(span, k) == span \div k

\* The width of a bucket, rounded up so that k of them reach the oldest row.
Width(span, k) == (span + k - 1) \div k

\* The position where bucket b begins and the first behind it that is too old for it.
Buckets(rows, k) ==
    LET newest == rows[1].at
        width == Width(newest - rows[Len(rows)].at + 1, k)
        range[b \in 0 .. k] ==
            IF b = 0 THEN [first |-> 1, next |-> 1]
            ELSE LET first == UpTo(rows, range[b - 1].next, newest - (b - 1) * width)
                 IN  [first |-> first, next |-> UpTo(rows, first, newest - b * width)]
    IN  range

\* aggregateSingleSeries: buckets of equal width from the newest row to the oldest.
Aggregate(rows, since, k) ==
    LET range == Buckets(rows, k)
        filled == Ascending({b \in 1 .. k : range[b].first < range[b].next})
    IN  IF Len(rows) <= k \/ rows[1].at <= since \/ rows[1].at < rows[Len(rows)].at
        THEN rows
        ELSE [i \in DOMAIN filled |-> Point(rows, range[filled[i]])]

\* What every series contributes.
Curves(rows, since) ==
    LET list == SeriesList(rows)
        budget == Budgets([i \in DOMAIN list |-> Cardinality(Positions(list[i], rows))])
    IN  [i \in DOMAIN list |->
            IF budget[i] = 0 THEN <<>>
            ELSE Aggregate(RowsOf(list[i], rows), since, budget[i])]

\* sort.SliceStable, newest first, of the curves one after the other.
NewestFirst(curves) ==
    LET at(p) == curves[p[1]][p[2]].at
        places == UNION {{i} \X DOMAIN curves[i] : i \in DOMAIN curves}
        order == Listing(places, {p \in places \X places :
                    \/ at(p[1]) > at(p[2])
                    \/ /\ at(p[1]) = at(p[2])
                       /\ p[1][1] < p[2][1] \/ (p[1][1] = p[2][1] /\ p[1][2] < p[2][2])})
    IN  [i \in DOMAIN order |-> curves[order[i][1]][order[i][2]]]

\* result[:targetCount]
Cut(rows) == SubSeq(rows, 1, Lesser(Len(rows), MaxPoints))

\* aggregateRowsByTime.
AggregateRows(rows, since) ==
    IF Len(rows) <= MaxPoints THEN rows ELSE Cut(NewestFirst(Curves(rows, since)))
============================================================================
