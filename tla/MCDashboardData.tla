-------------------------- MODULE MCDashboardData --------------------------
(* Model-checking instance of the dashboard's stream and its aggregation. *)
EXTENDS DashboardData

Raw(t, s, i) == [table |-> "raw", at |-> t, id |-> i, series |-> s]
Rolled(t, s, i) == [table |-> "rolled", at |-> t, id |-> i, series |-> s]

\* Ids do not follow the times, and some rows share an instant, a second or the second
\* of a bound.
SomeRows ==
    {Raw(9, "a", 1), Raw(9, "b", 5), Raw(10, "a", 2), Raw(12, "a", 7),
     Raw(12, "b", 3), Raw(13, "b", 8), Raw(14, "a", 4), Raw(16, "b", 6),
     Rolled(0, "a", 1), Rolled(4, "a", 3), Rolled(4, "b", 2), Rolled(6, "b", 4)}

AnyContents == SUBSET SomeRows
============================================================================
